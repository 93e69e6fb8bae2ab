--------------------------- MODULE NodeTrafficProofs ---------------------------
(***************************************************************************)
(* NoDoubleCount and NothingLost are not inductive: what a merge adds next *)
(* depends on the baseline, the snapshot in flight and the counter.        *)
(* CreditInv and LossInv carry that pending amount along.  RowIsSum is     *)
(* about a sum over the nodes, whose lemmas are proved by a least set of   *)
(* nodes for which they would fail.                                        *)
(***************************************************************************)
EXTENDS MCNodeTraffic, FiniteSetTheorems, TLAPS

CreditInv == \A n \in Nodes : credited[n] + PendingOf(n) <= owed[n]

\* Without a row nothing is credited; as long as nothing went unnoticed,
\* baseline, snapshot and counter only grow and the account is exact.
LossInv ==
    \A n \in Nodes :
        /\ ~hasRow => credited[n] = 0
        /\ ~lossy[n] =>
            /\ base[n] <= ctr[n]
            /\ snap[n].on => base[n] <= snap[n].v /\ snap[n].v <= ctr[n]
            /\ credited[n] + PendingOf(n) = owed[n]

IInv == TypeOK /\ CreditInv /\ LossInv

-----------------------------------------------------------------------------
(* Lemmas *)

\* A difference is a natural number.
LEMMA DeltaType ==
    ASSUME NEW v \in Nat, NEW b \in Nat
    PROVE  Delta(v, b) \in Nat
  BY DEF Delta

\* So is what is pending.
LEMMA PendingType ==
    ASSUME NEW r \in BOOLEAN, NEW s \in BOOLEAN, NEW b \in Nat, NEW c \in Nat,
           NEW sn \in [on : BOOLEAN, has : BOOLEAN, v : Nat]
    PROVE  Pending(r, s, b, sn, c) \in Nat
  <1>1. sn.v \in Nat OBVIOUS
  <1> QED BY <1>1 DEF Pending, Delta

Snaps == [on : BOOLEAN, has : BOOLEAN, v : Nat]

\* One unit more on the counter is at most one unit more pending.
LEMMA PendingCarry ==
    ASSUME NEW r \in BOOLEAN, NEW s \in BOOLEAN, NEW b \in Nat, NEW c \in Nat,
           NEW sn \in Snaps
    PROVE  Pending(r, s, b, sn, c + 1) <= Pending(r, s, b, sn, c) + 1
  <1>1. sn.v \in Nat BY DEF Snaps
  <1> QED BY <1>1 DEF Pending, Delta

\* It is exactly one while the counter has only grown and the baseline is there.
LEMMA PendingCarryExact ==
    ASSUME NEW r \in BOOLEAN, NEW s \in BOOLEAN, NEW b \in Nat, NEW c \in Nat,
           NEW sn \in Snaps,
           r => s, b <= c, sn.on => b <= sn.v /\ sn.v <= c
    PROVE  Pending(r, s, b, sn, c + 1) = Pending(r, s, b, sn, c) + 1
  <1>1. sn.v \in Nat BY DEF Snaps
  <1> QED BY <1>1 DEF Pending, Delta

\* A counter that falls back lowers what is pending.
LEMMA PendingDrop ==
    ASSUME NEW r \in BOOLEAN, NEW s \in BOOLEAN, NEW b \in Nat, NEW c \in Nat,
           NEW sn \in Snaps
    PROVE  Pending(r, s, b, sn, 0) <= Pending(r, s, b, sn, c)
  <1>1. sn.v \in Nat BY DEF Snaps
  <1> QED BY <1>1 DEF Pending, Delta

\* Giving up a snapshot never raises what is pending, and keeps it while the
\* counter has only grown, unless there is a row without a baseline.
LEMMA PendingForget ==
    ASSUME NEW r \in BOOLEAN, NEW s \in BOOLEAN, NEW b \in Nat, NEW c \in Nat,
           NEW sn \in Snaps, NEW none \in Snaps, ~none.on
    PROVE  /\ Pending(r, s, b, none, c) <= Pending(r, s, b, sn, c)
           /\ ((r /\ ~s => c = 0) /\ b <= c /\ (sn.on => b <= sn.v /\ sn.v <= c))
                => Pending(r, s, b, none, c) = Pending(r, s, b, sn, c)
  <1>1. sn.v \in Nat BY DEF Snaps
  <1> QED BY <1>1 DEF Pending, Delta

\* The initial state satisfies the invariant.
LEMMA InitInv == Init => IInv
  <1> SUFFICES ASSUME Init PROVE IInv OBVIOUS
  <1>0. /\ hasRow \in BOOLEAN /\ row = 0 /\ owner = Local /\ links = {} /\ tomb \in BOOLEAN
        /\ seen = [n \in Nodes |-> FALSE] /\ base = [n \in Nodes |-> 0]
        /\ has \in [Nodes -> BOOLEAN] /\ ctr = [n \in Nodes |-> 0]
        /\ snap = [n \in Nodes |-> NoSnap] /\ lossy = [n \in Nodes |-> FALSE]
        /\ credited = [n \in Nodes |-> 0] /\ owed = [n \in Nodes |-> 0]
        /\ events = 0
    BY Zenon DEF Init
  <1>1. TypeOK
    <2>1. NoSnap \in [on : BOOLEAN, has : BOOLEAN, v : Nat] BY DEF NoSnap
    <2> QED BY <1>0, <2>1, BoundAssumption DEF TypeOK
  <1>2. \A n \in Nodes : PendingOf(n) = 0
    BY DEF Init, PendingOf, Pending, NoSnap
  <1>3. ASSUME NEW n \in Nodes
        PROVE  /\ credited[n] = 0 /\ owed[n] = 0 /\ base[n] = 0 /\ ctr[n] = 0
               /\ ~snap[n].on /\ PendingOf(n) = 0
    BY <1>0, <1>2 DEF NoSnap
  <1>4. ASSUME NEW n \in Nodes
        PROVE  credited[n] + PendingOf(n) = owed[n] /\ credited[n] + PendingOf(n) <= owed[n]
    <2>1. credited[n] = 0 /\ owed[n] = 0 /\ PendingOf(n) = 0 BY <1>3
    <2> QED BY <2>1
  <1>5. CreditInv BY <1>4 DEF CreditInv
  <1>6. LossInv BY <1>3, <1>4 DEF LossInv
  <1> QED BY <1>1, <1>5, <1>6 DEF IInv

\* Every step keeps the types.
LEMMA TypeStep == TypeOK /\ [Next]_vars => TypeOK'
  <1> SUFFICES ASSUME TypeOK, [Next]_vars PROVE TypeOK' OBVIOUS
  <1> USE DEF TypeOK, rowVars, baseVars, nodeVars, histVars
  <1>S. ASSUME NEW r \in BOOLEAN, NEW s \in [Nodes -> BOOLEAN], NEW b \in [Nodes -> Nat],
               NEW sn \in [Nodes -> Snaps], StartOver(r, s, b, sn)
        PROVE  credited' \in [Nodes -> Nat] /\ owed' \in [Nodes -> Nat]
    <2>1. \A n \in Nodes : Pending(r, s[n], b[n], sn[n], ctr[n]) \in Nat
      BY PendingType DEF Snaps
    <2> QED BY <1>S, <2>1 DEF StartOver
  <1>D. ASSUME NEW S \in SUBSET Nodes, Drop(S)
        PROVE  ctr' \in [Nodes -> Nat] /\ lossy' \in [Nodes -> BOOLEAN]
    BY <1>D DEF Drop
  <1>E. ASSUME Event PROVE events' \in 0..MaxEvents
    BY <1>E, BoundAssumption DEF Event
  <1>1. ASSUME NEW n \in Nodes, Carry(n) PROVE TypeOK'
    BY <1>1 DEF Carry
  <1>2. ASSUME NEW n \in Nodes, NodeResets(n) PROVE TypeOK'
    BY <1>2, <1>D, <1>E DEF NodeResets
  <1>3. ASSUME NEW n \in Nodes, NodeEdits(n) PROVE TypeOK'
    BY <1>3, <1>D, <1>E DEF NodeEdits
  <1>4. ASSUME NEW n \in Nodes, FetchTrafficSnapshot(n) PROVE TypeOK'
    BY <1>4 DEF FetchTrafficSnapshot
  <1>5. ASSUME NEW n \in Nodes, MergeFails(n) PROVE TypeOK'
    BY <1>5 DEF MergeFails, NoSnap
  <1>6. ASSUME NEW n \in Nodes, setRemoteTrafficLocked(n) PROVE TypeOK'
    <2>0. /\ snap' = Merged(n)
          /\ Merged(n) \in [Nodes -> Snaps]
          /\ snap' \in [Nodes -> [on : BOOLEAN, has : BOOLEAN, v : Nat]]
      BY <1>6 DEF setRemoteTrafficLocked, Merged, NoSnap, Snaps
    <2>v. snap[n].v \in Nat OBVIOUS
    <2>B. ASSUME upsertNodeBaseline(n, snap[n].v)
          PROVE  seen' \in [Nodes -> BOOLEAN] /\ base' \in [Nodes -> Nat]
      BY <2>B, <2>v DEF upsertNodeBaseline
    <2>1. ASSUME NEW dirty \in BOOLEAN, MergePresent(n, dirty) PROVE TypeOK'
      <3>1. links' \subseteq Nodes BY <2>1 DEF MergePresent, Attach
      <3>2. CASE MergeAdds(n, snap[n].v)
        <4>1. Delta(snap[n].v, base[n]) \in Nat BY <2>v, DeltaType
        <4> QED BY <1>6, <2>0, <2>v, <2>B, <3>1, <3>2, <4>1
              DEF setRemoteTrafficLocked, MergeAdds, RowAdds
      <3>3. CASE MergeCreates(n, snap[n].v)
        BY <1>6, <2>0, <2>v, <2>B, <3>1, <3>3 DEF setRemoteTrafficLocked, MergeCreates
      <3>4. CASE UNCHANGED <<rowVars, baseVars, histVars>>
        BY <1>6, <2>0, <3>1, <3>4 DEF setRemoteTrafficLocked
      <3> QED BY <2>1, <3>2, <3>3, <3>4 DEF MergePresent
    <2>2. ASSUME NEW dirty \in BOOLEAN, MergeAbsent(n, dirty) PROVE TypeOK'
      <3>1. /\ links' \subseteq Nodes /\ hasRow' \in BOOLEAN
            /\ seen' \in [Nodes -> BOOLEAN] /\ base' \in [Nodes -> Nat]
            /\ row' \in Nat /\ owner' \in Nodes \cup {Local} /\ lossy' = lossy
        BY <2>2 DEF MergeAbsent
      <3>2. UNCHANGED <<credited, owed>> \/ StartOver(FALSE, seen', base', Merged(n))
        BY <2>2 DEF MergeAbsent
      <3>3. credited' \in [Nodes -> Nat] /\ owed' \in [Nodes -> Nat]
        BY <1>S, <2>0, <3>1, <3>2
      <3> QED BY <1>6, <2>0, <3>1, <3>3 DEF setRemoteTrafficLocked
    <2>3. ASSUME NEW dirty \in BOOLEAN, MergeSkips(n, dirty) PROVE TypeOK'
      BY <1>6, <2>0, <2>3 DEF setRemoteTrafficLocked, MergeSkips
    <2>4. ASSUME NEW dirty \in BOOLEAN, MergeDetaches(n, dirty) PROVE TypeOK'
      <3>1. /\ links' = {} /\ hasRow' = FALSE /\ row' = 0 /\ owner' = Local /\ lossy' = lossy
            /\ seen' \in [Nodes -> BOOLEAN] /\ base' \in [Nodes -> Nat]
        BY <2>4 DEF MergeDetaches
      <3>2. credited' \in [Nodes -> Nat] /\ owed' \in [Nodes -> Nat]
        BY <1>S, <2>0, <2>4, <3>1 DEF MergeDetaches
      <3> QED BY <1>6, <2>0, <3>1, <3>2 DEF setRemoteTrafficLocked
    <2> QED BY <1>6, <2>1, <2>2, <2>3, <2>4 DEF setRemoteTrafficLocked
  <1>7. ASSUME NEW n \in Nodes, resetClientTraffic(n) PROVE TypeOK'
    <2>1. ctr' \in [Nodes -> Nat] /\ lossy' \in [Nodes -> BOOLEAN]
      BY <1>7, <1>D DEF resetClientTraffic
    <2>2. credited' \in [Nodes -> Nat] /\ owed' \in [Nodes -> Nat]
      BY <1>7, <1>S DEF resetClientTraffic, Snaps
    <2> QED BY <1>7, <1>E, <2>1, <2>2 DEF resetClientTraffic
  <1>8. ASSUME NEW n \in Nodes, AddClientStat(n) PROVE TypeOK'
    <2>1. credited' \in [Nodes -> Nat] /\ owed' \in [Nodes -> Nat]
      BY <1>8, <1>S DEF AddClientStat, Snaps
    <2>2. links' \subseteq Nodes /\ hasRow' \in BOOLEAN /\ has' \in [Nodes -> BOOLEAN]
      BY <1>8 DEF AddClientStat
    <2>3. row' \in Nat /\ owner' \in Nodes \cup {Local}
      <3>1. (row' = row /\ owner' = owner) \/ (row' = 0 /\ owner' = n)
        BY <1>8 DEF AddClientStat
      <3> QED BY <3>1
    <2>4. events' \in 0..MaxEvents BY <1>8, <1>E DEF AddClientStat
    <2>5. UNCHANGED <<seen, base, tomb, ctr, snap, lossy>> BY <1>8 DEF AddClientStat
    <2> QED BY <2>1, <2>2, <2>3, <2>4, <2>5
  <1>9. CASE DelClientStat
    <2>1. seen' \in [Nodes -> BOOLEAN] /\ base' \in [Nodes -> Nat]
      BY <1>9 DEF DelClientStat
    <2>2. credited' \in [Nodes -> Nat] /\ owed' \in [Nodes -> Nat]
      BY <1>9, <1>S, <2>1 DEF DelClientStat, Snaps
    <2>3. /\ ctr' \in [Nodes -> Nat] /\ lossy' \in [Nodes -> BOOLEAN]
          /\ has' \in [Nodes -> BOOLEAN]
      BY <1>9, <1>D DEF DelClientStat
    <2> QED BY <1>9, <1>E, <2>1, <2>2, <2>3 DEF DelClientStat
  <1>10. CASE TombstoneExpires BY <1>10 DEF TombstoneExpires
  <1>11. CASE UNCHANGED vars BY <1>11 DEF vars
  <1> QED BY <1>1, <1>2, <1>3, <1>4, <1>5, <1>6, <1>7, <1>8, <1>9, <1>10, <1>11 DEF Next

\* The account of one node, as CreditInv and LossInv state it.
Account(n) ==
    /\ credited[n] + PendingOf(n) <= owed[n]
    /\ ~hasRow => credited[n] = 0
    /\ ~lossy[n] =>
        /\ base[n] <= ctr[n]
        /\ snap[n].on => base[n] <= snap[n].v /\ snap[n].v <= ctr[n]
        /\ credited[n] + PendingOf(n) = owed[n]

\* A counter stays or falls to 0, and a fall is recorded.
LEMMA DropStep ==
    ASSUME TypeOK, NEW S \in SUBSET Nodes, Drop(S), NEW m \in Nodes
    PROVE  \/ ctr'[m] = ctr[m] /\ (~lossy'[m] => ~lossy[m])
           \/ ctr'[m] = 0 /\ (~lossy'[m] => ~lossy[m] /\ ctr[m] = 0)
  <1>0. ctr[m] \in Nat BY DEF TypeOK
  <1>1. lossy'[m] = (lossy[m] \/ (m \in S /\ ctr[m] > 0)) BY DEF Drop
  <1>2. ctr'[m] = IF m \in S THEN 0 ELSE ctr[m] BY DEF Drop
  <1>3. CASE m \in S
    <2>1. ~lossy'[m] => ~lossy[m] /\ ~(ctr[m] > 0) BY <1>1, <1>3
    <2>2. ~(ctr[m] > 0) => ctr[m] = 0 BY <1>0
    <2> QED BY <1>2, <1>3, <2>1, <2>2
  <1>4. CASE m \notin S BY <1>1, <1>2, <1>4
  <1> QED BY <1>3, <1>4

\* A row that is gone or zeroed starts an exact account; counters that fall
\* back at the same time only lower it.
LEMMA StartOverAccount ==
    ASSUME TypeOK, TypeOK', NEW m \in Nodes, Account(m),
           StartOver(hasRow', seen', base', snap'),
           snap'[m] = snap[m] \/ ~snap'[m].on,
           base'[m] = base[m] \/ base'[m] = 0,
           \/ ctr'[m] = ctr[m] /\ (~lossy'[m] => ~lossy[m])
           \/ ctr'[m] = 0 /\ (~lossy'[m] => ~lossy[m] /\ ctr[m] = 0)
    PROVE  Account(m)'
  <1>1. /\ base[m] \in Nat /\ base'[m] \in Nat /\ ctr[m] \in Nat /\ ctr'[m] \in Nat
        /\ snap'[m].v \in Nat /\ hasRow' \in BOOLEAN /\ seen'[m] \in BOOLEAN
    BY DEF TypeOK
  <1>2. credited'[m] = 0 /\ owed'[m] = Pending(hasRow', seen'[m], base'[m], snap'[m], ctr[m])
    BY DEF StartOver
  <1>0. PendingOf(m)' = Pending(hasRow', seen'[m], base'[m], snap'[m], ctr'[m])
    BY DEF PendingOf
  <1>3. Pending(hasRow', seen'[m], base'[m], snap'[m], ctr'[m]) <= owed'[m]
    <2>1. snap'[m] \in Snaps BY DEF TypeOK, Snaps
    <2>2. owed'[m] \in Nat BY DEF TypeOK
    <2>3. CASE ctr'[m] = ctr[m] BY <1>2, <2>2, <2>3
    <2>4. CASE ctr'[m] = 0 BY <1>1, <1>2, <2>1, <2>4, PendingDrop
    <2> QED BY <2>3, <2>4
  <1>4. ctr'[m] = ctr[m] => PendingOf(m)' = owed'[m]
    BY <1>0, <1>2
  <1>5. PendingOf(m)' \in Nat BY <1>1, PendingType DEF PendingOf, TypeOK
  <1>6. credited'[m] + PendingOf(m)' <= owed'[m]
    BY <1>0, <1>1, <1>2, <1>3, <1>5
  <1>7. ~lossy'[m] => ctr'[m] = ctr[m] OBVIOUS
  <1>8. ~lossy'[m] => credited'[m] + PendingOf(m)' = owed'[m]
    BY <1>2, <1>4, <1>5, <1>7
  <1> QED BY <1>1, <1>2, <1>6, <1>7, <1>8 DEF Account

\* Every step keeps every account.
LEMMA AccountStep ==
    ASSUME TypeOK, TypeOK', \A n \in Nodes : Account(n), [Next]_vars, NEW m \in Nodes
    PROVE  Account(m)'
  <1> USE DEF rowVars, baseVars, nodeVars, histVars
  <1>T. /\ base[m] \in Nat /\ ctr[m] \in Nat /\ snap[m].v \in Nat
        /\ credited[m] \in Nat /\ owed[m] \in Nat
        /\ hasRow \in BOOLEAN /\ seen[m] \in BOOLEAN /\ lossy[m] \in BOOLEAN
        /\ snap[m].on \in BOOLEAN /\ snap[m].has \in BOOLEAN /\ snap[m] \in Snaps
    BY DEF TypeOK, Snaps
  <1>P. PendingOf(m) \in Nat /\ PendingOf(m)' \in Nat
    <2>1. PendingOf(m) \in Nat BY <1>T, PendingType DEF PendingOf, Snaps
    <2>2. PendingOf(m)' \in Nat
      <3>1. /\ hasRow' \in BOOLEAN /\ seen'[m] \in BOOLEAN /\ base'[m] \in Nat
            /\ ctr'[m] \in Nat /\ snap'[m] \in [on : BOOLEAN, has : BOOLEAN, v : Nat]
        BY DEF TypeOK
      <3> QED BY <3>1, PendingType DEF PendingOf
    <2> QED BY <2>1, <2>2
  <1>A. Account(m) OBVIOUS
  <1>1. ASSUME NEW n \in Nodes, Carry(n) PROVE Account(m)'
    <2>1. CASE m # n BY <1>1, <1>A, <2>1 DEF Carry, Account, PendingOf, TypeOK
    <2>2. CASE m = n
      <3>1. /\ ctr'[m] = ctr[m] + 1 /\ owed'[m] = owed[m] + 1
            /\ ~lossy'[m] => ~lossy[m] /\ (hasRow => seen[m])
            /\ UNCHANGED <<hasRow, seen, base, snap, credited>>
        BY <1>1, <2>2 DEF Carry, TypeOK
      <3>2. /\ PendingOf(m)' <= PendingOf(m) + 1
            /\ ~lossy'[m] => PendingOf(m)' = PendingOf(m) + 1
        <4>1. PendingOf(m)' = Pending(hasRow, seen[m], base[m], snap[m], ctr[m] + 1)
          BY <3>1 DEF PendingOf
        <4>2. PendingOf(m)' <= PendingOf(m) + 1
          <5> HIDE DEF rowVars, baseVars, nodeVars, histVars
          <5>1. Pending(hasRow, seen[m], base[m], snap[m], ctr[m] + 1)
                  <= Pending(hasRow, seen[m], base[m], snap[m], ctr[m]) + 1
            BY <1>T, PendingCarry
          <5> QED BY <4>1, <5>1 DEF PendingOf
        <4>4. ~lossy'[m] => PendingOf(m)' = PendingOf(m) + 1
          <5> SUFFICES ASSUME ~lossy'[m] PROVE PendingOf(m)' = PendingOf(m) + 1 OBVIOUS
          <5> HIDE DEF rowVars, baseVars, nodeVars, histVars
          <5>1. (hasRow => seen[m]) /\ base[m] <= ctr[m]
            BY <1>A, <3>1 DEF Account
          <5>2. snap[m].on => base[m] <= snap[m].v /\ snap[m].v <= ctr[m]
            BY <1>A, <3>1 DEF Account
          <5>3. Pending(hasRow, seen[m], base[m], snap[m], ctr[m] + 1)
                  = Pending(hasRow, seen[m], base[m], snap[m], ctr[m]) + 1
            BY <1>T, <5>1, <5>2, PendingCarryExact
          <5> QED BY <4>1, <5>3 DEF PendingOf
        <4> QED BY <4>2, <4>4
      <3> QED BY <1>A, <1>T, <1>P, <3>1, <3>2 DEF Account
    <2> QED BY <2>1, <2>2
  <1>D. ASSUME NEW S \in SUBSET Nodes, Drop(S),
               UNCHANGED <<hasRow, seen, base, snap, credited, owed>>
        PROVE  Account(m)'
    <2>1. \/ ctr'[m] = ctr[m] /\ (~lossy'[m] => ~lossy[m])
          \/ ctr'[m] = 0 /\ (~lossy'[m] => ~lossy[m] /\ ctr[m] = 0)
      BY <1>D, DropStep
    <2>2. PendingOf(m)' <= PendingOf(m) /\ (~lossy'[m] => PendingOf(m)' = PendingOf(m))
      BY <1>D, <1>T, <1>P, <2>1, PendingDrop DEF PendingOf
    <2> QED BY <1>A, <1>D, <1>T, <1>P, <2>1, <2>2 DEF Account
  <1>2. ASSUME NEW n \in Nodes, NodeResets(n) PROVE Account(m)'
    BY <1>2, <1>D DEF NodeResets
  <1>3. ASSUME NEW n \in Nodes, NodeEdits(n) PROVE Account(m)'
    BY <1>3, <1>D DEF NodeEdits
  <1>4. ASSUME NEW n \in Nodes, FetchTrafficSnapshot(n) PROVE Account(m)'
    <2>0. UNCHANGED <<hasRow, seen, base, ctr, credited, owed, lossy>>
      BY <1>4 DEF FetchTrafficSnapshot
    <2>1. CASE m # n
      BY <1>4, <1>A, <2>0, <2>1 DEF FetchTrafficSnapshot, Account, PendingOf, TypeOK
    <2>2. CASE m = n
      <3>1. ~snap[m].on /\ snap'[m].on /\ snap'[m].v = ctr[m]
        BY <1>4, <2>2 DEF FetchTrafficSnapshot, TypeOK
      <3> QED BY <1>A, <1>T, <2>0, <3>1 DEF Account, PendingOf, Pending, Delta
    <2> QED BY <2>1, <2>2
  <1>5. ASSUME NEW n \in Nodes, MergeFails(n) PROVE Account(m)'
    <2>0. UNCHANGED <<hasRow, seen, base, ctr, credited, owed>>
      BY <1>5 DEF MergeFails
    <2>1. CASE m # n
      BY <1>5, <1>A, <2>0, <2>1 DEF MergeFails, Account, PendingOf, TypeOK
    <2>2. CASE m = n
      <3>1. /\ snap[m].on /\ ~snap'[m].on
            /\ ~lossy'[m] => ~lossy[m] /\ (hasRow /\ ~seen[m] => ~(ctr[m] > 0))
        BY <1>5, <2>2 DEF MergeFails, NoSnap, TypeOK
      <3>2. snap'[m] \in Snaps BY DEF TypeOK, Snaps
      <3>3. /\ PendingOf(m)' <= PendingOf(m)
            /\ ~lossy'[m] => PendingOf(m)' = PendingOf(m)
        <4>1. /\ Pending(hasRow, seen[m], base[m], snap'[m], ctr[m])
                     <= Pending(hasRow, seen[m], base[m], snap[m], ctr[m])
              /\ ~lossy'[m] => Pending(hasRow, seen[m], base[m], snap'[m], ctr[m])
                                 = Pending(hasRow, seen[m], base[m], snap[m], ctr[m])
          <5>1. ~lossy'[m] => /\ hasRow /\ ~seen[m] => ctr[m] = 0
                              /\ base[m] <= ctr[m]
                              /\ snap[m].on => base[m] <= snap[m].v /\ snap[m].v <= ctr[m]
            BY <1>A, <1>T, <3>1 DEF Account
          <5> QED BY <1>T, <3>1, <3>2, <5>1, PendingForget
        <4> QED BY <2>0, <4>1 DEF PendingOf
      <3> QED BY <1>A, <1>T, <1>P, <2>0, <3>1, <3>3 DEF Account
    <2> QED BY <2>1, <2>2
  <1>6. ASSUME NEW n \in Nodes, setRemoteTrafficLocked(n) PROVE Account(m)'
    <2>0. /\ snap[n].on /\ ctr' = ctr
          /\ snap' = Merged(n) /\ snap' = [snap EXCEPT ![n] = NoSnap]
      BY <1>6 DEF setRemoteTrafficLocked, Merged
    <2>S. /\ m # n => snap'[m] = snap[m]
          /\ m = n => snap[m].on /\ ~snap'[m].on
      BY <2>0 DEF TypeOK, NoSnap
    <2>1. ASSUME MergeAdds(n, snap[n].v), snap[n].has PROVE Account(m)'
      <3>0. hasRow /\ UNCHANGED <<hasRow, owed, lossy>> BY <2>1 DEF MergeAdds
      <3>1. CASE m # n
        <4>1. seen'[m] = seen[m] /\ base'[m] = base[m] /\ credited'[m] = credited[m]
          BY <2>1, <3>1 DEF MergeAdds, upsertNodeBaseline, TypeOK
        <4> QED BY <1>A, <2>0, <2>S, <3>0, <3>1, <4>1 DEF Account, PendingOf
      <3>2. CASE m = n
        <4>1. /\ seen'[m] /\ base'[m] = snap[m].v
              /\ credited'[m] = credited[m] + (IF seen[m] THEN Delta(snap[m].v, base[m]) ELSE 0)
          BY <2>1, <3>2 DEF MergeAdds, upsertNodeBaseline, TypeOK
        <4>2. PendingOf(m)' = Delta(ctr[m], snap[m].v)
          BY <2>0, <2>S, <3>0, <3>2, <4>1 DEF PendingOf, Pending
        <4>3. PendingOf(m) = (IF seen[m] THEN Delta(snap[m].v, base[m]) ELSE 0)
                                + Delta(ctr[m], snap[m].v)
          BY <2>1, <2>S, <3>0, <3>2 DEF PendingOf, Pending
        <4>4. credited'[m] + PendingOf(m)' = credited[m] + PendingOf(m)
          <5>1. Delta(ctr[m], snap[m].v) \in Nat /\ Delta(snap[m].v, base[m]) \in Nat
            BY <1>T, DeltaType
          <5>2. CASE seen[m] BY <1>T, <4>1, <4>2, <4>3, <5>1, <5>2
          <5>3. CASE ~seen[m] BY <1>T, <4>1, <4>2, <4>3, <5>1, <5>3
          <5> QED BY <5>2, <5>3
        <4> QED BY <1>A, <2>0, <2>S, <3>0, <3>2, <4>1, <4>4 DEF Account
      <3> QED BY <3>1, <3>2
    <2>2. ASSUME MergeCreates(n, snap[n].v), snap[n].has PROVE Account(m)'
      <3>0. ~hasRow /\ hasRow' /\ owed' = owed BY <2>2 DEF MergeCreates
      <3>1. CASE m # n
        <4>1. /\ seen'[m] = seen[m] /\ base'[m] = base[m] /\ credited'[m] = credited[m]
              /\ ~lossy'[m] => ~lossy[m] /\ ~(PendingOf(m) > 0)
          BY <2>2, <3>1 DEF MergeCreates, upsertNodeBaseline, TypeOK
        <4>2. PendingOf(m)' <= PendingOf(m)
          BY <1>T, <2>0, <2>S, <3>0, <3>1, <4>1 DEF PendingOf, Pending, Delta
        <4> QED BY <1>A, <1>T, <1>P, <2>0, <2>S, <3>0, <3>1, <4>1, <4>2 DEF Account
      <3>2. CASE m = n
        <4>1. seen'[m] /\ base'[m] = snap[m].v /\ credited'[m] = snap[m].v
          BY <2>2, <3>2 DEF MergeCreates, upsertNodeBaseline, TypeOK
        <4>2. PendingOf(m)' = Delta(ctr[m], snap[m].v)
          BY <2>0, <2>S, <3>0, <3>2, <4>1 DEF PendingOf, Pending
        <4>3. PendingOf(m) = snap[m].v + Delta(ctr[m], snap[m].v)
          BY <2>2, <2>S, <3>0, <3>2 DEF PendingOf, Pending
        <4>4. credited'[m] + PendingOf(m)' = credited[m] + PendingOf(m)
          <5>1. Delta(ctr[m], snap[m].v) \in Nat BY <1>T, DeltaType
          <5>2. credited[m] = 0 BY <1>A, <3>0 DEF Account
          <5> QED BY <1>T, <4>1, <4>2, <4>3, <5>1, <5>2
        <4>5. ~lossy'[m] => ~lossy[m] BY <2>2, <3>2 DEF MergeCreates
        <4> QED BY <1>A, <2>0, <2>S, <3>0, <3>2, <4>1, <4>4, <4>5 DEF Account
      <3> QED BY <3>1, <3>2
    <2>K. ASSUME UNCHANGED <<hasRow, seen, base, credited, owed, lossy>>,
                 ~snap[n].has \/ ~hasRow
          PROVE  Account(m)'
      <3>1. CASE m # n BY <1>A, <2>0, <2>S, <2>K, <3>1 DEF Account, PendingOf
      <3>2. CASE m = n
        <4>1. snap'[m] \in Snaps BY DEF TypeOK, Snaps
        <4>2. PendingOf(m)' <= PendingOf(m)
          BY <1>T, <2>0, <2>S, <2>K, <3>2, <4>1, PendingForget DEF PendingOf
        <4>3. ~lossy[m] => PendingOf(m)' = PendingOf(m)
          BY <1>A, <1>T, <2>0, <2>S, <2>K, <3>2 DEF Account, PendingOf, Pending, Delta
        <4> QED BY <1>A, <1>T, <1>P, <2>0, <2>S, <2>K, <3>2, <4>2, <4>3 DEF Account
      <3> QED BY <3>1, <3>2
    <2>3. ASSUME NEW dirty \in BOOLEAN, MergePresent(n, dirty) PROVE Account(m)'
      BY <2>1, <2>2, <2>3, <2>K DEF MergePresent
    <2>4. ASSUME NEW dirty \in BOOLEAN, MergeAbsent(n, dirty) PROVE Account(m)'
      <3>0. /\ ~snap[n].has /\ lossy' = lossy
            /\ base'[m] = base[m] \/ base'[m] = 0
        BY <2>4 DEF MergeAbsent
      <3>1. CASE hasRow /\ ~hasRow'
        <4>1. StartOver(hasRow', seen', base', snap') BY <2>0, <2>4, <3>1 DEF MergeAbsent
        <4> QED BY <1>A, <2>0, <2>S, <3>0, <4>1, StartOverAccount
      <3>2. CASE hasRow /\ hasRow'
        <4>1. UNCHANGED <<hasRow, credited, owed, lossy>> BY <2>4, <3>2 DEF MergeAbsent, TypeOK
        <4>2. \A u \in Nodes : seen'[u] = seen[u] /\ base'[u] = base[u]
          BY <2>4, <3>2 DEF MergeAbsent, TypeOK
        <4>3. seen' = seen /\ base' = base BY <4>2 DEF TypeOK
        <4> QED BY <2>K, <3>0, <4>1, <4>3
      <3>3. CASE ~hasRow
        <4>1. ~hasRow' /\ UNCHANGED <<credited, owed>> BY <2>4, <3>3 DEF MergeAbsent
        <4>2. PendingOf(m)' = PendingOf(m)
          BY <2>0, <2>S, <3>0, <3>3, <4>1 DEF PendingOf, Pending
        <4> QED BY <1>A, <1>T, <2>0, <2>S, <3>0, <3>3, <4>1, <4>2 DEF Account
      <3> QED BY <3>1, <3>2, <3>3 DEF TypeOK
    <2>5. ASSUME NEW dirty \in BOOLEAN, MergeSkips(n, dirty) PROVE Account(m)'
      BY <2>5, <2>K DEF MergeSkips
    <2>6. ASSUME NEW dirty \in BOOLEAN, MergeDetaches(n, dirty) PROVE Account(m)'
      <3>1. StartOver(hasRow', seen', base', snap') /\ base'[m] = 0 /\ lossy' = lossy
        BY <2>0, <2>6 DEF MergeDetaches
      <3> QED BY <1>A, <2>0, <2>S, <3>1, StartOverAccount
    <2> QED BY <1>6, <2>3, <2>4, <2>5, <2>6 DEF setRemoteTrafficLocked
  <1>7. ASSUME NEW n \in Nodes, resetClientTraffic(n) PROVE Account(m)'
    <2>1. StartOver(hasRow', seen', base', snap') /\ snap' = snap /\ base' = base
      BY <1>7 DEF resetClientTraffic, TypeOK
    <2>2. \/ ctr'[m] = ctr[m] /\ (~lossy'[m] => ~lossy[m])
          \/ ctr'[m] = 0 /\ (~lossy'[m] => ~lossy[m] /\ ctr[m] = 0)
      BY <1>7 DEF resetClientTraffic, Drop, TypeOK
    <2> QED BY <1>A, <2>1, <2>2, StartOverAccount
  <1>8. ASSUME NEW n \in Nodes, AddClientStat(n) PROVE Account(m)'
    <2>1. CASE hasRow
      BY <1>8, <1>A, <1>T, <2>1 DEF AddClientStat, Account, PendingOf, TypeOK
    <2>2. CASE ~hasRow
      <3>1. StartOver(hasRow', seen', base', snap')
        BY <1>8, <2>2 DEF AddClientStat
      <3>2. UNCHANGED <<snap, base, ctr, lossy>> BY <1>8 DEF AddClientStat
      <3> QED BY <1>A, <3>1, <3>2, StartOverAccount
    <2> QED BY <2>1, <2>2
  <1>9. CASE DelClientStat
    <2>1. StartOver(hasRow', seen', base', snap') /\ snap' = snap /\ base'[m] = 0
      BY <1>9 DEF DelClientStat
    <2>2. \/ ctr'[m] = ctr[m] /\ (~lossy'[m] => ~lossy[m])
          \/ ctr'[m] = 0 /\ (~lossy'[m] => ~lossy[m] /\ ctr[m] = 0)
      BY <1>9, DropStep DEF DelClientStat
    <2> QED BY <1>A, <2>1, <2>2, StartOverAccount
  <1>10. CASE TombstoneExpires
    BY <1>10, <1>A DEF TombstoneExpires, Account, PendingOf
  <1>11. CASE UNCHANGED vars BY <1>11, <1>A DEF vars, Account, PendingOf
  <1> QED BY <1>1, <1>2, <1>3, <1>4, <1>5, <1>6, <1>7, <1>8, <1>9, <1>10, <1>11 DEF Next

-----------------------------------------------------------------------------
(* Theorems *)

\* IInv is an invariant.
THEOREM Invariance == Spec => []IInv
  <1>1. Init => IInv BY InitInv
  <1>2. IInv /\ [Next]_vars => IInv'
    <2> SUFFICES ASSUME IInv, [Next]_vars PROVE IInv' OBVIOUS
    <2>1. TypeOK' BY TypeStep DEF IInv
    <2>2. \A n \in Nodes : Account(n) BY DEF IInv, CreditInv, LossInv, Account
    <2>3. \A n \in Nodes : Account(n)' BY <2>1, <2>2, AccountStep DEF IInv
    <2>4. CreditInv' /\ LossInv' BY <2>3 DEF CreditInv, LossInv, Account
    <2> QED BY <2>1, <2>4 DEF IInv
  <1> QED BY <1>1, <1>2, PTL DEF Spec

\* Counters never leave the natural numbers, whatever the nodes report.
THEOREM TypeCorrect == Spec => []TypeOK
  <1>1. IInv => TypeOK BY DEF IInv
  <1> QED BY <1>1, Invariance, PTL

\* setRemoteTrafficLocked never counts a byte twice, for any number of nodes and
\* any interleaving of syncs, resets, removals and failed merges.
THEOREM NeverDoubleCounts == Spec => []NoDoubleCount
  <1>1. IInv => NoDoubleCount
    <2> SUFFICES ASSUME IInv, NEW n \in Nodes PROVE credited[n] <= owed[n]
      BY DEF NoDoubleCount
    <2>1. PendingOf(n) \in Nat
      <3>1. /\ hasRow \in BOOLEAN /\ seen[n] \in BOOLEAN /\ base[n] \in Nat
            /\ ctr[n] \in Nat /\ snap[n] \in [on : BOOLEAN, has : BOOLEAN, v : Nat]
        BY DEF IInv, TypeOK
      <3> QED BY <3>1, PendingType DEF PendingOf
    <2>2. credited[n] \in Nat /\ owed[n] \in Nat BY DEF IInv, TypeOK
    <2>3. credited[n] + PendingOf(n) <= owed[n] BY DEF IInv, CreditInv
    <2> QED BY <2>1, <2>2, <2>3
  <1> QED BY <1>1, Invariance, PTL

\* While no counter went back and no baseline was missing, the account of a node
\* is exact: its traffic is in the row or pending.
THEOREM AccountIsExact == Spec => []NothingLost
  <1>1. IInv => NothingLost BY DEF IInv, LossInv, NothingLost
  <1> QED BY <1>1, Invariance, PTL

-----------------------------------------------------------------------------
(* The sum of the credits *)

\* The sum of c over the nodes, as the run's invariant writes it.
Total(c) == FoldSet(LAMBDA n, total : total + c[n], 0, Nodes)

\* f is the sum of c over each set of D, taking the elements in some fixed order.
Pick(s) == CHOOSE x \in s : TRUE
Adds(f, c, D) == f = [s \in D |-> IF s = {} THEN 0 ELSE f[s \ {Pick(s)}] + c[Pick(s)]]

\* The sets of nodes not larger than t.
UpTo(t) == {s \in SUBSET Nodes : Cardinality(s) <= Cardinality(t)}

\* A non-empty collection of sets of nodes has a minimal one.
LEMMA LeastSet ==
    ASSUME NEW T, T \subseteq SUBSET Nodes, T # {}
    PROVE  \E t \in T : \A u \in SUBSET t : u # t => u \notin T
<1>1. IsWellFoundedOn(StrictSubsetOrdering(Nodes), SUBSET Nodes)
    BY NodesAreFinite, FS_StrictSubsetOrderingWellFounded, FS_FiniteSubsetsOfFinite
<1>2. PICK t \in T : \A u \in T : ~(<<u, t>> \in StrictSubsetOrdering(Nodes))
    BY <1>1, WFMin
<1>3. ASSUME NEW u \in SUBSET t, u # t, u \in T PROVE FALSE
    BY <1>2, <1>3 DEF StrictSubsetOrdering
<1> QED
    BY <1>2, <1>3

LEMMA Taken ==
    ASSUME NEW t \in SUBSET Nodes, t # {}
    PROVE  /\ Pick(t) \in t
           /\ t \ {Pick(t)} \in SUBSET Nodes /\ t \ {Pick(t)} # t
           /\ Cardinality(t) \in Nat
           /\ Cardinality(t \ {Pick(t)}) = Cardinality(t) - 1
<1>1. Pick(t) \in t
    BY DEF Pick
<1>2. IsFiniteSet(t)
    BY NodesAreFinite, FS_Subset
<1> QED
    BY <1>1, <1>2, FS_RemoveElement, FS_CardinalityType

LEMMA SumExists == ASSUME NEW c PROVE \E f : Adds(f, c, SUBSET Nodes)
<1> DEFINE T == {t \in SUBSET Nodes : ~\E f : Adds(f, c, UpTo(t))}
<1>1. T = {}
    <2> SUFFICES ASSUME T # {} PROVE FALSE
        OBVIOUS
    <2>1. PICK t \in T : \A u \in SUBSET t : u # t => u \notin T
        <3> HIDE DEF T
        <3> QED BY LeastSet DEF T
    <2>2. CASE t = {}
        <3> DEFINE f == [s \in UpTo(t) |-> 0]
        <3>1. \A s \in UpTo(t) : s = {}
            <4> SUFFICES ASSUME NEW s \in UpTo(t) PROVE s = {}
                OBVIOUS
            <4>1. IsFiniteSet(s) /\ Cardinality(s) <= Cardinality(t)
                BY NodesAreFinite, FS_Subset DEF UpTo
            <4>2. Cardinality(t) = 0 /\ Cardinality(s) \in Nat
                BY <2>2, <4>1, FS_EmptySet, FS_CardinalityType
            <4> QED BY <4>1, <4>2, FS_EmptySet
        <3>2. Adds(f, c, UpTo(t))
            BY <3>1 DEF Adds
        <3> QED BY <3>2, <2>1
    <2>3. CASE t # {}
        <3> DEFINE u == t \ {Pick(t)}
        <3>1. u \in SUBSET Nodes /\ u \in SUBSET t /\ u # t
            BY <2>3, Taken
        <3>2. PICK f : Adds(f, c, UpTo(u))
            BY <2>1, <3>1
        <3> DEFINE g == [s \in UpTo(t) |-> IF s = {} THEN 0 ELSE f[s \ {Pick(s)}] + c[Pick(s)]]
        <3>3. ASSUME NEW s \in UpTo(t), s # {}
              PROVE  f[s \ {Pick(s)}] = g[s \ {Pick(s)}]
            <4> DEFINE r == s \ {Pick(s)}
            <4>1. r \in UpTo(u) /\ r \in UpTo(t)
                <5>1. s \in SUBSET Nodes /\ t \in SUBSET Nodes
                    BY DEF UpTo
                <5>2. /\ r \in SUBSET Nodes /\ Cardinality(r) = Cardinality(s) - 1
                      /\ Cardinality(s) \in Nat
                    BY <5>1, <3>3, Taken
                <5>3. Cardinality(u) = Cardinality(t) - 1 /\ Cardinality(t) \in Nat
                    BY <5>1, <2>3, Taken
                <5>4. Cardinality(s) <= Cardinality(t)
                    BY DEF UpTo
                <5> HIDE DEF r, u
                <5>5. Cardinality(r) <= Cardinality(u) /\ Cardinality(r) <= Cardinality(t)
                    BY <5>2, <5>3, <5>4
                <5> QED BY <5>2, <5>5 DEF UpTo
            <4>2. f[r] = IF r = {} THEN 0 ELSE f[r \ {Pick(r)}] + c[Pick(r)]
                BY <3>2, <4>1 DEF Adds
            <4>3. g[r] = IF r = {} THEN 0 ELSE f[r \ {Pick(r)}] + c[Pick(r)]
                BY <4>1
            <4> QED BY <4>2, <4>3
        <3>4. g = [s \in UpTo(t) |-> IF s = {} THEN 0 ELSE g[s \ {Pick(s)}] + c[Pick(s)]]
            <4> DEFINE h == [s \in UpTo(t) |-> IF s = {} THEN 0 ELSE g[s \ {Pick(s)}] + c[Pick(s)]]
            <4>1. \A s \in UpTo(t) : g[s] = h[s]
                <5> SUFFICES ASSUME NEW s \in UpTo(t) PROVE g[s] = h[s]
                    OBVIOUS
                <5>1. CASE s = {}
                    BY <5>1
                <5>2. CASE s # {}
                    <6>1. f[s \ {Pick(s)}] = g[s \ {Pick(s)}]
                        BY <3>3, <5>2
                    <6>2. g[s] = f[s \ {Pick(s)}] + c[Pick(s)]
                        BY <5>2
                    <6>3. h[s] = g[s \ {Pick(s)}] + c[Pick(s)]
                        <7> HIDE DEF g
                        <7> QED BY <5>2
                    <6> HIDE DEF g, h
                    <6> QED BY <6>1, <6>2, <6>3
                <5> QED BY <5>1, <5>2
            <4>2. g = [s \in UpTo(t) |-> g[s]]
                OBVIOUS
            <4>3. h = [s \in UpTo(t) |-> h[s]]
                <5> HIDE DEF g
                <5> QED OBVIOUS
            <4>4. g = h
                <5> HIDE DEF g, h
                <5> QED BY <4>1, <4>2, <4>3
            <4> QED BY <4>4
        <3>5. Adds(g, c, UpTo(t))
            <4> HIDE DEF g
            <4> QED BY <3>4 DEF Adds
        <3> QED
            <4> HIDE DEF g
            <4> QED BY <3>5, <2>1
    <2> QED BY <2>2, <2>3
<1>2. UpTo(Nodes) = SUBSET Nodes
    BY NodesAreFinite, FS_Subset DEF UpTo
<1>3. Nodes \notin T
    <2> HIDE DEF T
    <2> QED BY <1>1
<1> QED BY <1>2, <1>3

LEMMA TotalSays ==
    ASSUME NEW c
    PROVE  \E f : Adds(f, c, SUBSET Nodes) /\ Total(c) = f[Nodes]
<1> DEFINE F == CHOOSE f : Adds(f, c, SUBSET Nodes)
<1>1. Adds(F, c, SUBSET Nodes)
    BY SumExists
<1>2. Total(c) = F[Nodes]
    BY DEF Total, FoldSet, MapThenFoldSet, Adds, Pick
<1> QED
    BY <1>1, <1>2

LEMMA TotalChanges ==
    ASSUME NEW c \in [Nodes -> Nat], NEW n \in Nodes, NEW k \in Int,
           NEW d \in [Nodes -> Nat], d[n] = c[n] + k, \A m \in Nodes : m # n => d[m] = c[m]
    PROVE  Total(d) = Total(c) + k
<1>1. PICK f : Adds(f, c, SUBSET Nodes) /\ Total(c) = f[Nodes]
    BY TotalSays
<1>2. PICK g : Adds(g, d, SUBSET Nodes) /\ Total(d) = g[Nodes]
    BY TotalSays
<1> DEFINE T == {t \in SUBSET Nodes : ~(f[t] \in Int /\ g[t] = f[t] + IF n \in t THEN k ELSE 0)}
<1>3. T = {}
    <2> SUFFICES ASSUME T # {} PROVE FALSE
        OBVIOUS
    <2>1. PICK t \in T : \A u \in SUBSET t : u # t => u \notin T
        <3> HIDE DEF T
        <3> QED BY LeastSet DEF T
    <2>2. CASE t = {}
        <3>1. f[t] = 0 /\ g[t] = 0
            BY <1>1, <1>2, <2>2 DEF Adds
        <3> QED BY <3>1, <2>1, <2>2
    <2>3. CASE t # {}
        <3> DEFINE x == Pick(t)
                   u == t \ {x}
        <3>1. x \in t /\ u \in SUBSET Nodes /\ u \in SUBSET t /\ u # t
            BY <2>3, Taken
        <3>2. f[u] \in Int /\ g[u] = f[u] + IF n \in u THEN k ELSE 0
            BY <3>1, <2>1
        <3>3. f[t] = f[u] + c[x]
            BY <1>1, <2>3 DEF Adds
        <3>4. g[t] = g[u] + d[x]
            BY <1>2, <2>3 DEF Adds
        <3>5. c[x] \in Int /\ d[x] = IF x = n THEN c[x] + k ELSE c[x]
            BY <3>1
        <3>6. n \in t <=> n \in u \/ x = n
            BY <3>1
        <3>7. n \in u => x # n
            OBVIOUS
        <3> HIDE DEF x, u
        <3>8. f[t] \in Int /\ g[t] = f[t] + IF n \in t THEN k ELSE 0
            BY <3>2, <3>3, <3>4, <3>5, <3>6, <3>7
        <3> QED BY <3>8, <2>1
    <2> QED BY <2>2, <2>3
<1>4. Nodes \notin T
    <2> HIDE DEF T
    <2> QED BY <1>3
<1> QED BY <1>1, <1>2, <1>4

LEMMA NothingIsZero ==
    ASSUME NEW c, c = [n \in Nodes |-> 0]
    PROVE  Total(c) = 0
<1>1. PICK f : Adds(f, c, SUBSET Nodes) /\ Total(c) = f[Nodes]
    BY TotalSays
<1> DEFINE T == {t \in SUBSET Nodes : f[t] # 0}
<1>2. T = {}
    <2> SUFFICES ASSUME T # {} PROVE FALSE
        OBVIOUS
    <2>1. PICK t \in T : \A u \in SUBSET t : u # t => u \notin T
        <3> HIDE DEF T
        <3> QED BY LeastSet DEF T
    <2>2. CASE t = {}
        BY <1>1, <2>1, <2>2 DEF Adds
    <2>3. CASE t # {}
        <3> DEFINE u == t \ {Pick(t)}
        <3>1. Pick(t) \in t /\ u \in SUBSET Nodes /\ u \in SUBSET t /\ u # t
            BY <2>3, Taken
        <3>2. f[u] = 0 /\ c[Pick(t)] = 0
            BY <3>1, <2>1
        <3>3. f[t] = f[u] + c[Pick(t)]
            BY <1>1, <2>3 DEF Adds
        <3> QED BY <3>2, <3>3, <2>1
    <2> QED BY <2>2, <2>3
<1>3. Nodes \notin T
    <2> HIDE DEF T
    <2> QED BY <1>2
<1> QED BY <1>1, <1>3

\* A merge adds to the row what it credits to its node; a row that is created takes
\* over a counter and credits it; nothing is credited to a row that is zeroed.
LEMMA SumStep ==
    ASSUME IInv, IInv', hasRow => row = Total(credited), [Next]_vars
    PROVE  hasRow' => row' = Total(credited')
<1>1. credited \in [Nodes -> Nat] /\ credited' \in [Nodes -> Nat] /\ row \in Nat /\ row' \in Nat
    BY DEF IInv, TypeOK
<1>2. ~hasRow => credited = [n \in Nodes |-> 0]
    BY <1>1 DEF IInv, LossInv
<1>3. hasRow \in BOOLEAN /\ hasRow' \in BOOLEAN
    BY DEF IInv, TypeOK
<1>B. ASSUME NEW n \in Nodes, NEW k \in Int, credited' = [credited EXCEPT ![n] = @ + k]
      PROVE  Total(credited') = Total(credited) + k
    <2>1. credited'[n] = credited[n] + k /\ \A m \in Nodes : m # n => credited'[m] = credited[m]
        BY <1>1, <1>B
    <2>2. credited \in [Nodes -> Nat] /\ credited' \in [Nodes -> Nat]
        BY <1>1
    <2> QED
        BY <2>1, <2>2, TotalChanges
<1>4. CASE UNCHANGED <<rowVars, credited>>
    BY <1>4 DEF rowVars
<1>5. ASSUME NEW n \in Nodes, setRemoteTrafficLocked(n) PROVE hasRow' => row' = Total(credited')
    <2>1. PICK dirty \in BOOLEAN : \/ MergePresent(n, dirty) \/ MergeDetaches(n, dirty)
                                  \/ MergeAbsent(n, dirty) \/ MergeSkips(n, dirty)
        BY <1>5 DEF setRemoteTrafficLocked
    <2>2. CASE MergeAdds(n, snap[n].v)
        <3> DEFINE d == IF seen[n] THEN Delta(snap[n].v, base[n]) ELSE 0
        <3>1. d \in Int
            BY DeltaType DEF IInv, TypeOK
        <3>2. /\ hasRow /\ row' = row + d /\ credited' = [credited EXCEPT ![n] = @ + d]
            BY <2>2 DEF MergeAdds, RowAdds
        <3> HIDE DEF d
        <3>3. Total(credited') = Total(credited) + d
            BY <1>B, <3>1, <3>2
        <3> QED BY <3>2, <3>3
    <2>3. CASE MergeCreates(n, snap[n].v)
        <3> DEFINE v == snap[n].v
        <3>1. v \in Int
            BY DEF IInv, TypeOK
        <3>2. ~hasRow /\ row' = v /\ credited' = [credited EXCEPT ![n] = v]
            BY <2>3 DEF MergeCreates
        <3> HIDE DEF v
        <3>3. credited' = [credited EXCEPT ![n] = @ + v]
            <4>1. credited[n] = 0
                BY <1>2, <3>2
            <4>2. credited[n] + v = v
                BY <3>1, <4>1
            <4> QED BY <3>2, <4>2, Zenon
        <3>4. Total(credited') = Total(credited) + v
            BY <1>B, <3>1, <3>3
        <3>5. Total(credited) = 0
            BY <1>2, <3>2, NothingIsZero
        <3> QED BY <3>1, <3>2, <3>4, <3>5
    <2>4. CASE ~hasRow /\ UNCHANGED <<rowVars, baseVars, histVars>>
        BY <2>4 DEF rowVars
    <2>5. CASE MergeDetaches(n, dirty)
        BY <2>5 DEF MergeDetaches
    <2>6. CASE MergeAbsent(n, dirty)
        <3>1. hasRow' => hasRow /\ row' = row /\ credited' = credited
            BY <2>6, <1>3 DEF MergeAbsent
        <3> QED BY <3>1
    <2>7. CASE MergeSkips(n, dirty)
        BY <2>7 DEF MergeSkips, rowVars, histVars
    <2> QED BY <2>1, <2>2, <2>3, <2>4, <2>5, <2>6, <2>7 DEF MergePresent
<1>6. ASSUME NEW n \in Nodes, resetClientTraffic(n) PROVE hasRow' => row' = Total(credited')
    <2>1. row' = 0 /\ credited' = [m \in Nodes |-> 0]
        BY <1>6 DEF resetClientTraffic, StartOver
    <2> QED BY <2>1, NothingIsZero
<1>7. ASSUME NEW n \in Nodes, AddClientStat(n) PROVE hasRow' => row' = Total(credited')
    <2>1. CASE hasRow
        BY <1>7, <2>1 DEF AddClientStat
    <2>2. CASE ~hasRow
        <3>1. row' = 0 /\ credited' = [m \in Nodes |-> 0]
            BY <1>7, <2>2 DEF AddClientStat, StartOver
        <3> QED BY <3>1, NothingIsZero
    <2> QED BY <2>1, <2>2
<1>8. CASE DelClientStat
    BY <1>8 DEF DelClientStat
<1>9. ASSUME NEW n \in Nodes, \/ Carry(n) \/ NodeResets(n) \/ NodeEdits(n)
                               \/ FetchTrafficSnapshot(n) \/ MergeFails(n)
      PROVE  UNCHANGED <<rowVars, credited>>
    BY <1>9 DEF Carry, NodeResets, NodeEdits, FetchTrafficSnapshot, MergeFails, histVars
<1>10. TombstoneExpires \/ UNCHANGED vars => UNCHANGED <<rowVars, credited>>
    BY DEF TombstoneExpires, vars, histVars
<1> QED
    BY <1>4, <1>5, <1>6, <1>7, <1>8, <1>9, <1>10 DEF Next

\* The row of a client is what the merges of its nodes credited, summed over any
\* number of nodes and whatever is reset, removed and merged in between.
THEOREM RowAddsUp == Spec => []RowIsSum
<1>1. RowIsSum <=> (hasRow => row = Total(credited))
    BY DEF RowIsSum, Total
<1>2. Init => (hasRow => row = Total(credited))
    BY DEF Init
<1>3. IInv /\ IInv' /\ (hasRow => row = Total(credited)) /\ [Next]_vars
        => (hasRow => row = Total(credited))'
    BY SumStep
<1> QED
    BY <1>1, <1>2, <1>3, Invariance, PTL DEF Spec
=============================================================================
