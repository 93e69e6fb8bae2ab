--------------------------- MODULE PanelDataProofs ---------------------------
(***************************************************************************)
(* The safety properties of MCPanelData for every value of its constants.  *)
(* The socket, the live feed, the session and the restore are proved on    *)
(* the instances, so that all of them hold in one theorem per property.    *)
(***************************************************************************)
EXTENDS MCPanelData, FiniteSetTheorems, TLAPS

-----------------------------------------------------------------------------
(* The live feed *)

Lists == Feed!Lists
Signals == [kind : {"invalidate", "inbounds"}, list : Lists, v : Nat]
Causes == {"none", "unsent", "dropped"}

\* A message is an invalidation, or a push of the list of inbounds.
IsPush(s) == s.kind = "inbounds"

FeedTypes ==
    /\ Feed!TypeOK
    /\ channel \in Seq(Signals)
    /\ cache \in [Lists -> [v : Nat, invalidated : BOOLEAN, fetch : Nat \cup {-1, -2}]]
    /\ lost \in [Lists -> Causes]

\* Pushes travel in the order they were made; the throttle timer holds an earlier one.
PushOrder ==
    /\ \A i \in 1..Len(channel) :
        IsPush(channel[i]) => /\ channel[i].list = "inbounds"
                              /\ emitTimer < channel[i].v /\ channel[i].v <= version["inbounds"]
    /\ \A i, j \in 1..Len(channel) :
        i < j /\ IsPush(channel[i]) /\ IsPush(channel[j]) => channel[i].v < channel[j].v
    /\ emitTimer <= version["inbounds"]

FeedInv == FeedTypes /\ PushOrder /\ Feed!StaleHasCause

\* What the invariant says of the variables' types.
LEMMA FeedSays ==
    ASSUME FeedTypes
    PROVE  /\ version \in [Lists -> Nat]
           /\ \A l \in Lists : version[l] \in 0..MaxVersion
           /\ channel \in Seq(Signals)
           /\ cache \in [Lists -> [v : Nat, invalidated : BOOLEAN, fetch : Nat \cup {-1, -2}]]
           /\ \A l \in Lists : cache[l].v <= version[l] /\ cache[l].fetch <= version[l]
           /\ lost \in [Lists -> Causes]
           /\ emitTimer \in Nat \cup {-2} /\ emitTimer <= MaxVersion
           /\ invalidateTimer \in Lists \cup {"none"}
           /\ mutation \in {"idle", "sent", "applied"}
           /\ MaxVersion \in Nat
<1>1. MaxVersion \in Nat
    BY InstanceBounds
<1>2. version \in [Lists -> 0..MaxVersion] /\ \A l \in Lists : version[l] \in 0..MaxVersion
    BY DEF FeedTypes, Feed!TypeOK, Lists
<1>3. version \in [Lists -> Nat]
    BY <1>1, <1>2
<1>4. \A l \in Lists : cache[l].v <= version[l] /\ cache[l].fetch <= version[l]
    <2>1. \A l \in Lists : /\ cache[l].v \in 0..version[l]
                           /\ cache[l].fetch \in {-2, -1} \cup 0..version[l]
        BY DEF FeedTypes, Feed!TypeOK, Lists, Feed!Idle, Feed!Unread
    <2> QED
        BY <1>3, <2>1
<1>5. emitTimer \in Nat \cup {-2} /\ emitTimer <= MaxVersion
    BY <1>1 DEF FeedTypes, Feed!TypeOK, Feed!Idle
<1>6. invalidateTimer \in Lists \cup {"none"} /\ mutation \in {"idle", "sent", "applied"}
    BY DEF FeedTypes, Feed!TypeOK, Lists, Feed!None
<1> QED
    BY <1>1, <1>2, <1>3, <1>4, <1>5, <1>6 DEF FeedTypes

\* And what a step has to establish of them, when the lists on the server stay.
LEMMA FeedTypesNext ==
    ASSUME FeedTypes, UNCHANGED version, channel' \in Seq(Signals),
           cache' \in [Lists -> [v : Nat, invalidated : BOOLEAN, fetch : Nat \cup {-1, -2}]],
           \A l \in Lists : cache'[l].v <= version[l] /\ cache'[l].fetch <= version[l],
           lost' \in [Lists -> Causes],
           emitTimer' \in Nat \cup {-2}, emitTimer' <= MaxVersion,
           invalidateTimer' \in Lists \cup {"none"}, mutation' \in {"idle", "sent", "applied"}
    PROVE  FeedTypes'
<1>1. MaxVersion \in Nat /\ version' \in [Lists -> 0..MaxVersion] /\ version \in [Lists -> Nat]
    BY FeedSays DEF FeedTypes, Feed!TypeOK, Lists
<1>2. emitTimer' \in {-2} \cup 0..MaxVersion
    BY <1>1
<1>3. \A l \in Lists : cache'[l].v \in 0..version[l] /\ cache'[l].fetch \in {-2, -1} \cup 0..version[l]
    BY <1>1
<1> QED
    BY <1>1, <1>2, <1>3 DEF FeedTypes, Feed!TypeOK, Lists, Feed!Idle, Feed!Unread, Feed!None

LEMMA InitFeed == ASSUME Feed!Init PROVE FeedInv
<1>1. MaxVersion \in Nat
    BY InstanceBounds
<1>2. channel = <<>> /\ Len(channel) = 0 /\ channel \in Seq(Signals)
    BY DEF Feed!Init
<1>3. FeedTypes
    BY <1>1, <1>2 DEF Feed!Init, FeedTypes, Causes, Feed!TypeOK, Lists, Feed!Lists, Feed!Idle, Feed!Unread, Feed!None
<1>4. PushOrder
    BY <1>2 DEF Feed!Init, PushOrder, Feed!Idle, Feed!Lists
<1>5. Feed!StaleHasCause
    <2>1. \A l \in Feed!Lists : version[l] = 0 /\ cache[l].v = 0
        BY DEF Feed!Init
    <2> QED
        BY <2>1 DEF Feed!StaleHasCause
<1> QED
    BY <1>3, <1>4, <1>5 DEF FeedInv

\* The elements of a channel to which messages were added, and of its tail.
LEMMA ChannelSays ==
    ASSUME NEW S, NEW p \in Seq(S), NEW q \in Seq(S)
    PROVE  /\ p \o q \in Seq(S) /\ Len(p \o q) = Len(p) + Len(q)
           /\ \A i \in 1..Len(p) : i \in 1..Len(p \o q) /\ (p \o q)[i] = p[i]
           /\ \A i \in 1..Len(q) : i + Len(p) \in 1..Len(p \o q) /\ (p \o q)[i + Len(p)] = q[i]
           /\ \A i \in 1..Len(p \o q) : i \notin 1..Len(p) =>
                i - Len(p) \in 1..Len(q) /\ (p \o q)[i] = q[i - Len(p)]
    OBVIOUS

LEMMA TailSays ==
    ASSUME NEW S, NEW q \in Seq(S), q # <<>>
    PROVE  /\ 1 \in 1..Len(q) /\ Head(q) = q[1] /\ Head(q) \in S /\ Tail(q) \in Seq(S)
           /\ \A i \in 1..Len(Tail(q)) : i + 1 \in 1..Len(q) /\ Tail(q)[i] = q[i + 1]
           /\ \A i \in 1..Len(q) : i # 1 => i - 1 \in 1..Len(Tail(q)) /\ Tail(q)[i - 1] = q[i]
    OBVIOUS

\* A message pushes the changed list of inbounds, alone.
PushesNew(touched, msgs) ==
    \A i \in 1..Len(msgs) :
        IsPush(msgs[i]) => /\ Len(msgs) = 1 /\ "inbounds" \in touched
                           /\ msgs[i].list = "inbounds" /\ msgs[i].v = version["inbounds"] + 1

\* A changed list is announced, or its silence noted.
Accounted(touched, msgs, cause) ==
    \A l \in touched :
        \/ cause[l] # "none"
        \/ \E i \in 1..Len(msgs) : msgs[i].list = l /\ (~IsPush(msgs[i]) \/ msgs[i].v = version[l] + 1)

\* A change of the server is announced, noted, or this tab's own.
LEMMA BroadcastStep ==
    ASSUME FeedInv, NEW touched \in SUBSET Lists, NEW msgs \in Seq(Signals),
           NEW cause \in [Lists -> Causes],
           Feed!Broadcast(touched, msgs, cause), PushesNew(touched, msgs),
           \/ Accounted(touched, msgs, cause)
           \/ mutation' = "applied" /\ Accounted(touched \ {"inbounds"}, msgs, cause),
           mutation' \in {mutation, "applied"},
           UNCHANGED <<emitTimer, invalidateTimer, cache>>
    PROVE  FeedInv'
<1>1. /\ FeedTypes /\ PushOrder /\ Feed!StaleHasCause
      /\ version \in [Lists -> Nat] /\ MaxVersion \in Nat
      /\ cache \in [Lists -> [v : Nat, invalidated : BOOLEAN, fetch : Nat \cup {-1, -2}]]
      /\ \A l \in Lists : cache[l].v <= version[l] /\ cache[l].fetch <= version[l]
      /\ channel \in Seq(Signals)
      /\ lost \in [Lists -> Causes]
      /\ emitTimer \in Nat \cup {-2} /\ emitTimer <= MaxVersion
    BY FeedSays DEF FeedInv
<1>2. /\ \A l \in touched : version[l] < MaxVersion
      /\ version' = [l \in Lists |-> IF l \in touched THEN version[l] + 1 ELSE version[l]]
      /\ channel' = IF online THEN channel \o msgs ELSE channel
      /\ lost' = [l \in Lists |-> IF l \notin touched THEN lost[l]
                                  ELSE Feed!First(l, IF online THEN cause[l] ELSE "unsent")]
    BY DEF Feed!Broadcast, Lists
<1>3. /\ version' \in [Lists -> Nat]
      /\ \A l \in Lists : version[l] <= version'[l] /\ version'[l] \in 0..MaxVersion
      /\ "inbounds" \in Lists
    BY <1>1, <1>2, FeedSays DEF Lists, Feed!Lists
<1>4. /\ \A i \in 1..Len(channel) : i \in 1..Len(channel') /\ channel'[i] = channel[i]
      /\ channel' \in Seq(Signals)
      /\ \A i \in 1..Len(channel') : i \notin 1..Len(channel) =>
            /\ online /\ i - Len(channel) \in 1..Len(msgs) /\ channel'[i] = msgs[i - Len(channel)]
            /\ Len(channel') = Len(channel) + Len(msgs)
      /\ online => \A i \in 1..Len(msgs) : i + Len(channel) \in 1..Len(channel') /\ channel'[i + Len(channel)] = msgs[i]
    BY <1>1, <1>2, ChannelSays
<1>5. FeedTypes'
    <2>1. lost' \in [Lists -> Causes]
        BY <1>1, <1>2 DEF Causes, Feed!First, Feed!None
    <2>2. \A l \in Lists : cache'[l].v \in 0..version'[l] /\ cache'[l].fetch \in {-2, -1} \cup 0..version'[l]
        BY <1>1, <1>3
    <2>3. version' \in [Lists -> 0..MaxVersion]
        BY <1>3
    <2>4. mutation' \in {"idle", "sent", "applied"} /\ invalidateTimer' \in Lists \cup {"none"}
        BY <1>1, FeedSays
    <2>5. emitTimer' \in {-2} \cup 0..MaxVersion
        BY <1>1
    <2>6. Feed!TypeOK'
        BY <2>2, <2>3, <2>4, <2>5 DEF Feed!TypeOK, Lists, Feed!Idle, Feed!Unread, Feed!None
    <2> QED
        BY <1>1, <1>4, <2>1, <2>6 DEF FeedTypes
<1>6. PushOrder'
    <2>1. ASSUME NEW i \in 1..Len(channel'), i \notin 1..Len(channel), IsPush(channel'[i])
          PROVE  /\ channel'[i].list = "inbounds" /\ channel'[i].v = version'["inbounds"]
                 /\ version'["inbounds"] = version["inbounds"] + 1 /\ i = Len(channel) + 1
                 /\ Len(channel') = Len(channel) + 1
        <3>1. /\ i - Len(channel) \in 1..Len(msgs) /\ channel'[i] = msgs[i - Len(channel)]
              /\ Len(channel') = Len(channel) + Len(msgs)
            BY <1>4, <2>1
        <3>2. IsPush(msgs[i - Len(channel)])
            BY <2>1, <3>1
        <3>3. /\ Len(msgs) = 1 /\ "inbounds" \in touched /\ channel'[i].list = "inbounds"
              /\ channel'[i].v = version["inbounds"] + 1
            BY <3>1, <3>2 DEF PushesNew
        <3>4. Len(channel) \in Nat
            BY <1>1
        <3> QED
            BY <1>2, <1>3, <2>1, <3>1, <3>3, <3>4
    <2>2. ASSUME NEW i \in 1..Len(channel), IsPush(channel[i])
          PROVE  /\ channel[i].list = "inbounds" /\ emitTimer < channel[i].v
                 /\ channel[i].v <= version["inbounds"] /\ channel[i].v \in Nat
        <3>1. channel[i] \in Signals
            BY <1>1
        <3> QED
            BY <1>1, <2>2, <3>1 DEF PushOrder, Signals
    <2>3. ASSUME NEW i \in 1..Len(channel'), IsPush(channel'[i])
          PROVE  /\ channel'[i].list = "inbounds"
                 /\ emitTimer' < channel'[i].v /\ channel'[i].v <= version'["inbounds"]
        <3>1. CASE i \in 1..Len(channel)
            <4>1. channel'[i] = channel[i] /\ IsPush(channel[i])
                BY <1>4, <2>3, <3>1
            <4>2. version["inbounds"] \in Nat /\ version'["inbounds"] \in Nat
                BY <1>1, <1>3
            <4> QED
                BY <1>3, <2>2, <3>1, <4>1, <4>2
        <3>2. CASE i \notin 1..Len(channel)
            <4>1. emitTimer <= version["inbounds"]
                BY <1>1 DEF PushOrder
            <4> QED
                BY <1>1, <1>3, <2>1, <2>3, <3>2, <4>1
        <3> QED
            BY <3>1, <3>2
    <2>4. ASSUME NEW i \in 1..Len(channel'), NEW j \in 1..Len(channel'), i < j,
                 IsPush(channel'[i]), IsPush(channel'[j])
          PROVE  channel'[i].v < channel'[j].v
        <3>0. Len(channel) \in Nat
            BY <1>1
        <3>1. CASE j \in 1..Len(channel)
            <4>1. i \in 1..Len(channel)
                BY <2>4, <3>0, <3>1
            <4> QED
                BY <1>1, <1>4, <2>4, <3>1, <4>1 DEF PushOrder
        <3>2. CASE j \notin 1..Len(channel)
            <4>1. /\ channel'[j].v = version["inbounds"] + 1
                  /\ j = Len(channel) + 1
                BY <2>1, <2>4, <3>2
            <4>2. i \in 1..Len(channel)
                BY <2>4, <3>0, <4>1
            <4>3. channel'[i].v <= version["inbounds"] /\ channel'[i].v \in Nat
                BY <1>4, <2>2, <2>4, <4>2
            <4> QED
                BY <1>1, <1>3, <4>1, <4>3
        <3> QED
            BY <3>1, <3>2
    <2>5. emitTimer' <= version'["inbounds"]
        BY <1>1, <1>3 DEF PushOrder
    <2> QED
        BY <2>3, <2>4, <2>5 DEF PushOrder
<1>7. Feed!StaleHasCause'
    <2> SUFFICES ASSUME NEW l \in Lists, cache'[l].v < version'[l]
                 PROVE  Feed!Pending(l)' \/ lost'[l] # "none"
        BY DEF Feed!StaleHasCause, Feed!None, Lists
    <2>1. CASE l \notin touched
        <3>1. version'[l] = version[l] /\ lost'[l] = lost[l]
            BY <1>2, <2>1
        <3>2. Feed!Pending(l) \/ lost[l] # "none"
            BY <1>1, <3>1 DEF Feed!StaleHasCause, Feed!None, Lists
        <3>3. Feed!Pending(l) => Feed!Pending(l)'
            BY <1>4, <3>1 DEF Feed!Pending
        <3> QED
            BY <3>1, <3>2, <3>3
    <2>2. CASE l \in touched
        <3>1. version'[l] = version[l] + 1
            BY <1>2, <2>2
        <3>2. CASE ~online \/ cause[l] # "none"
            BY <1>2, <2>2, <3>2 DEF Feed!First, Feed!None
        <3>3. CASE mutation' = "applied" /\ l = "inbounds"
            BY <3>3 DEF Feed!Pending
        <3>4. CASE online /\ \E i \in 1..Len(msgs) : /\ msgs[i].list = l
                                                     /\ ~IsPush(msgs[i]) \/ msgs[i].v = version[l] + 1
            <4>1. PICK i \in 1..Len(msgs) : /\ msgs[i].list = l
                                            /\ ~IsPush(msgs[i]) \/ msgs[i].v = version[l] + 1
                BY <3>4
            <4>2. i + Len(channel) \in 1..Len(channel') /\ channel'[i + Len(channel)] = msgs[i]
                BY <1>4, <3>4
            <4>3. msgs[i] \in Signals
                OBVIOUS
            <4>4. msgs[i].kind = "invalidate" \/ msgs[i].v = version'[l]
                BY <3>1, <4>1, <4>3 DEF IsPush, Signals
            <4> QED
                BY <4>1, <4>2, <4>4 DEF Feed!Pending
        <3>5. \/ cause[l] # "none"
              \/ \E i \in 1..Len(msgs) : msgs[i].list = l /\ (~IsPush(msgs[i]) \/ msgs[i].v = version[l] + 1)
              \/ mutation' = "applied" /\ l = "inbounds"
            BY <2>2 DEF Accounted
        <3> QED
            BY <3>2, <3>3, <3>4, <3>5
    <2> QED
        BY <2>1, <2>2
<1> QED
    BY <1>5, <1>6, <1>7 DEF FeedInv

\* What is noted of a list that is not the server's, and of one that is.
LEMMA NoteSays ==
    ASSUME FeedTypes, NEW l \in Lists, NEW cause \in Causes, NEW c
    PROVE  /\ Feed!Note(l, cause, c) \in Causes
           /\ c.v # version[l] /\ Feed!Note(l, cause, c) = "none" => lost[l] = "none" /\ cause = "none"
<1>1. lost[l] \in Causes
    BY DEF FeedTypes
<1> QED
    BY <1>1 DEF Feed!Note, Feed!First, Feed!None, Causes

\* Steps that touch neither the lists nor what is under way.
LEMMA FeedFrame ==
    ASSUME FeedInv, UNCHANGED <<version, channel, emitTimer, invalidateTimer, cache, lost>>,
           mutation' \in {"idle", "sent", "applied"}, mutation = "applied" => mutation' = "applied"
    PROVE  FeedInv'
<1>1. FeedTypes'
    BY DEF FeedInv, FeedTypes, Feed!TypeOK
<1>2. PushOrder'
    BY DEF FeedInv, PushOrder
<1>3. \A l \in Lists : Feed!Pending(l) => Feed!Pending(l)'
    BY DEF Feed!Pending
<1>4. Feed!StaleHasCause'
    BY <1>3 DEF FeedInv, Feed!StaleHasCause, Feed!None, Lists
<1> QED
    BY <1>1, <1>2, <1>4 DEF FeedInv

\* Steps that change the cache of one list, or of both, but not the messages.
LEMMA CacheStep ==
    ASSUME FeedInv, UNCHANGED <<version, channel, emitTimer>>,
           cache' \in [Lists -> [v : Nat, invalidated : BOOLEAN, fetch : Nat \cup {-1, -2}]],
           \A l \in Lists : cache'[l].v <= version[l] /\ cache'[l].fetch <= version[l],
           lost' \in [Lists -> Causes],
           invalidateTimer' \in Lists \cup {"none"},
           mutation' \in {"idle", "sent", "applied"},
           \A l \in Lists : cache'[l].v < version[l] =>
             \/ lost'[l] # "none" \/ Feed!Pending(l)'
             \/ cache[l].v < version[l] /\ lost[l] = "none" /\ (Feed!Pending(l) => Feed!Pending(l)')
    PROVE  FeedInv'
<1>1. FeedTypes'
    <2>1. FeedTypes /\ emitTimer' \in Nat \cup {-2} /\ emitTimer' <= MaxVersion /\ channel' \in Seq(Signals)
        BY FeedSays DEF FeedInv
    <2> QED
        BY <2>1, FeedTypesNext
<1>2. PushOrder'
    BY DEF FeedInv, PushOrder
<1>3. Feed!StaleHasCause'
    BY DEF FeedInv, Feed!StaleHasCause, Feed!None, Lists
<1> QED
    BY <1>1, <1>2, <1>3 DEF FeedInv

LEMMA FeedCalls ==
    ASSUME FeedInv, NEW l \in Lists,
           Feed!ServerAnswers(l) \/ Feed!FetchDone(l) \/ Feed!FetchFails(l) \/ Feed!Navigate(l)
    PROVE  FeedInv'
<1>1. /\ FeedTypes /\ Feed!StaleHasCause /\ version \in [Lists -> Nat]
      /\ cache \in [Lists -> [v : Nat, invalidated : BOOLEAN, fetch : Nat \cup {-1, -2}]]
      /\ \A k \in Lists : cache[k].v <= version[k] /\ cache[k].fetch <= version[k]
      /\ lost \in [Lists -> Causes]
      /\ invalidateTimer \in Lists \cup {"none"} /\ mutation \in {"idle", "sent", "applied"}
    BY FeedSays DEF FeedInv
<1>2. UNCHANGED <<version, channel, emitTimer, invalidateTimer, mutation>>
    BY DEF Feed!ServerAnswers, Feed!FetchDone, Feed!FetchFails, Feed!Navigate
<1>3. \A k \in Lists : k # l => cache'[k] = cache[k] /\ lost'[k] = lost[k]
    BY <1>1 DEF Feed!ServerAnswers, Feed!FetchDone, Feed!FetchFails, Feed!Navigate
<1>4. \A k \in Lists : k # l => (Feed!Pending(k) => Feed!Pending(k)')
    BY <1>2, <1>3 DEF Feed!Pending
<1>5. \A k \in Lists : k # l =>
        (cache'[k].v < version[k] =>
           \/ lost'[k] # "none"
           \/ cache[k].v < version[k] /\ lost[k] = "none" /\ (Feed!Pending(k) => Feed!Pending(k)'))
    BY <1>3, <1>4
<1>6. CASE Feed!ServerAnswers(l)
    <2>1. cache' = [cache EXCEPT ![l].fetch = version[l]] /\ lost' = lost
        BY <1>6 DEF Feed!ServerAnswers
    <2>2. cache'[l].fetch = version[l] /\ cache'[l].v = cache[l].v
        BY <1>1, <2>1
    <2>3. Feed!Pending(l)'
        BY <1>2, <2>2 DEF Feed!Pending
    <2>4. cache' \in [Lists -> [v : Nat, invalidated : BOOLEAN, fetch : Nat \cup {-1, -2}]]
        BY <1>1, <2>1
    <2>5. \A k \in Lists : cache'[k].v <= version[k] /\ cache'[k].fetch <= version[k]
        BY <1>1, <1>3, <2>2
    <2> QED
        BY <1>1, <1>2, <1>5, <2>1, <2>3, <2>4, <2>5, CacheStep
<1>7. CASE Feed!FetchDone(l)
    <2> DEFINE c == [v |-> cache[l].fetch, invalidated |-> FALSE, fetch |-> -2]
               cause == IF c.v < cache[l].v \/ cache[l].invalidated THEN "dropped" ELSE "none"
    <2>1. /\ cache[l].fetch \notin {-1, -2} /\ cache' = [cache EXCEPT ![l] = c]
          /\ lost' = [lost EXCEPT ![l] = Feed!Note(l, cause, c)]
        BY <1>7 DEF Feed!FetchDone, Feed!Idle, Feed!Unread, Feed!None
    <2>2. c.v \in Nat /\ c.v <= version[l] /\ c.fetch = -2 /\ c.v = cache[l].fetch
        BY <1>1, <2>1
    <2>3. c \in [v : Nat, invalidated : BOOLEAN, fetch : Nat \cup {-1, -2}]
        BY <2>2
    <2>4. cause \in Causes
        BY DEF Causes
    <2>7. c.v < cache[l].v \/ cache[l].invalidated => cause # "none"
        OBVIOUS
    <2> HIDE DEF c, cause
    <2>5. /\ Feed!Note(l, cause, c) \in Causes
          /\ c.v # version[l] /\ Feed!Note(l, cause, c) = "none" => lost[l] = "none" /\ cause = "none"
        BY <1>1, <2>4, NoteSays
    <2>6. cache'[l] = c /\ lost'[l] = Feed!Note(l, cause, c)
        BY <1>1, <2>1
    <2>8. cache' \in [Lists -> [v : Nat, invalidated : BOOLEAN, fetch : Nat \cup {-1, -2}]]
        BY <1>1, <2>1, <2>3
    <2>9. lost' \in [Lists -> Causes]
        BY <1>1, <2>1, <2>5
    <2>10. \A k \in Lists : cache'[k].v <= version[k] /\ cache'[k].fetch <= version[k]
        BY <1>1, <1>3, <2>2, <2>6
    <2>11. ASSUME cache'[l].v < version[l]
           PROVE  \/ lost'[l] # "none"
                  \/ cache[l].v < version[l] /\ lost[l] = "none" /\ (Feed!Pending(l) => Feed!Pending(l)')
        <3>1. c.v # version[l]
            BY <1>1, <2>2, <2>6, <2>11
        <3>2. CASE cause # "none" \/ lost[l] # "none"
            BY <2>5, <2>6, <3>1, <3>2
        <3>3. CASE cause = "none" /\ lost[l] = "none"
            <4>1. ~(c.v < cache[l].v) /\ ~cache[l].invalidated
                BY <2>7, <3>3
            <4>2. cache[l].v < version[l]
                BY <1>1, <2>2, <2>6, <2>11, <4>1
            <4>3. cache[l].fetch \notin {-1, version[l]}
                BY <1>1, <2>1, <2>2, <2>6, <2>11
            <4>4. Feed!Pending(l) => Feed!Pending(l)'
                BY <1>2, <4>1, <4>3 DEF Feed!Pending, Feed!Unread
            <4> QED
                BY <3>3, <4>2, <4>4
        <3> QED
            BY <3>2, <3>3
    <2> QED
        BY <1>1, <1>2, <1>5, <2>8, <2>9, <2>10, <2>11, CacheStep
<1>8. CASE Feed!FetchFails(l)
    <2>1. /\ cache' = [cache EXCEPT ![l].fetch = -2]
          /\ lost' = [lost EXCEPT ![l] = Feed!Note(l, "dropped", cache[l])]
        BY <1>8 DEF Feed!FetchFails, Feed!Idle
    <2>2. /\ Feed!Note(l, "dropped", cache[l]) \in Causes
          /\ cache[l].v # version[l] => Feed!Note(l, "dropped", cache[l]) # "none"
        BY <1>1, NoteSays DEF Causes
    <2>3. /\ cache'[l].fetch = -2 /\ cache'[l].v = cache[l].v
          /\ lost'[l] = Feed!Note(l, "dropped", cache[l])
        BY <1>1, <2>1
    <2>4. cache' \in [Lists -> [v : Nat, invalidated : BOOLEAN, fetch : Nat \cup {-1, -2}]]
        BY <1>1, <2>1
    <2>5. lost' \in [Lists -> Causes]
        BY <1>1, <2>1, <2>2
    <2>6. \A k \in Lists : cache'[k].v <= version[k] /\ cache'[k].fetch <= version[k]
        BY <1>1, <1>3, <2>3
    <2>7. cache'[l].v < version[l] => lost'[l] # "none"
        <3>1. version[l] \in Nat /\ cache[l].v \in Nat
            BY <1>1
        <3> QED
            BY <2>2, <2>3, <3>1
    <2> QED
        BY <1>1, <1>2, <1>5, <2>4, <2>5, <2>6, <2>7, CacheStep
<1>9. CASE Feed!Navigate(l)
    <2>1. /\ cache' = [cache EXCEPT ![l].fetch = IF cache[l].invalidated /\ cache[l].fetch = -2 THEN -1
                                                 ELSE cache[l].fetch]
          /\ lost' = lost
        BY <1>9 DEF Feed!Navigate, Feed!Idle, Feed!Unread
    <2>2. /\ cache'[l].fetch \in {-1, cache[l].fetch} /\ cache'[l].v = cache[l].v
          /\ cache'[l].invalidated = cache[l].invalidated
        BY <1>1, <2>1
    <2>3. Feed!Pending(l) => Feed!Pending(l)'
        BY <1>2, <2>2 DEF Feed!Pending, Feed!Unread
    <2>4. cache' \in [Lists -> [v : Nat, invalidated : BOOLEAN, fetch : Nat \cup {-1, -2}]]
        BY <1>1, <2>1
    <2>5. \A k \in Lists : cache'[k].v <= version[k] /\ cache'[k].fetch <= version[k]
        BY <1>1, <1>3, <2>2
    <2>6. cache'[l].v < version[l] =>
             lost'[l] # "none" \/ (cache[l].v < version[l] /\ lost[l] = "none" /\ (Feed!Pending(l) => Feed!Pending(l)'))
        BY <2>1, <2>2, <2>3
    <2> QED
        BY <1>1, <1>2, <1>5, <2>1, <2>4, <2>5, <2>6, CacheStep
<1> QED
    BY <1>6, <1>7, <1>8, <1>9

\* The end of a mutation invalidates both lists; the debounced invalidation one, unless
\* this tab has just done so.
LEMMA FeedInvalidates ==
    ASSUME FeedInv, Feed!MutationReturns \/ Feed!InvalidateTimerFires
    PROVE  FeedInv'
<1>1. /\ FeedTypes /\ Feed!StaleHasCause /\ version \in [Lists -> Nat]
      /\ cache \in [Lists -> [v : Nat, invalidated : BOOLEAN, fetch : Nat \cup {-1, -2}]]
      /\ \A k \in Lists : cache[k].v <= version[k] /\ cache[k].fetch <= version[k]
      /\ lost \in [Lists -> Causes]
      /\ invalidateTimer \in Lists \cup {"none"} /\ mutation \in {"idle", "sent", "applied"}
    BY FeedSays DEF FeedInv
<1>2. ASSUME NEW l \in Lists, NEW observed
      PROVE  /\ Feed!Invalidated(cache[l], observed) \in [v : Nat, invalidated : BOOLEAN, fetch : Nat \cup {-1, -2}]
             /\ Feed!Invalidated(cache[l], observed).v = cache[l].v
             /\ Feed!Invalidated(cache[l], observed).invalidated
             /\ Feed!Invalidated(cache[l], observed).fetch \in {-1, cache[l].fetch}
    <2>1. cache[l] \in [v : Nat, invalidated : BOOLEAN, fetch : Nat \cup {-1, -2}]
        BY <1>1
    <2> QED
        BY <2>1 DEF Feed!Invalidated, Feed!Unread
<1>3. CASE Feed!MutationReturns
    <2>1. /\ cache' = [l \in Lists |-> Feed!Invalidated(cache[l], feedPage = l)]
          /\ mutation' = "idle" /\ UNCHANGED <<version, channel, emitTimer, invalidateTimer, lost>>
        BY <1>3 DEF Feed!MutationReturns, Feed!InvalidateAll, Lists
    <2>2. cache' \in [Lists -> [v : Nat, invalidated : BOOLEAN, fetch : Nat \cup {-1, -2}]]
        BY <1>2, <2>1
    <2>3. \A l \in Lists : /\ cache'[l].v = cache[l].v /\ cache'[l].invalidated
                           /\ cache'[l].fetch \in {-1, cache[l].fetch}
        BY <1>2, <2>1
    <2>4. \A l \in Lists : Feed!Pending(l)'
        BY <2>3 DEF Feed!Pending
    <2>5. \A l \in Lists : cache'[l].v <= version[l] /\ cache'[l].fetch <= version[l]
        BY <1>1, <2>3
    <2> QED
        BY <1>1, <2>1, <2>2, <2>4, <2>5, CacheStep
<1>4. CASE Feed!InvalidateTimerFires
    <2>0. PICK t \in Lists : t = invalidateTimer
        BY <1>1, <1>4 DEF Feed!InvalidateTimerFires, Feed!None
    <2>1. /\ t \in Lists /\ invalidateTimer' = "none"
          /\ UNCHANGED <<version, channel, emitTimer, mutation>>
        BY <1>4 DEF Feed!InvalidateTimerFires, Feed!None
    <2>2. /\ recentLocal => cache' = cache /\ lost' = [lost EXCEPT ![t] = Feed!Note(t, "dropped", cache[t])]
          /\ ~recentLocal => lost' = lost /\ cache' = [cache EXCEPT ![t] = Feed!Invalidated(cache[t], feedPage = t)]
        BY <1>4, <2>0 DEF Feed!InvalidateTimerFires
    <2>3. t # "none" /\ (\A l \in Lists : l # "none")
        BY <2>1 DEF Lists, Feed!Lists
    <2>4. ASSUME NEW l \in Lists, l # t
          PROVE  /\ cache'[l] = cache[l] /\ lost'[l] = lost[l]
                 /\ Feed!Pending(l) => Feed!Pending(l)'
        <3>1. cache'[l] = cache[l] /\ lost'[l] = lost[l]
            BY <1>1, <2>2, <2>4
        <3> QED
            BY <2>0, <2>1, <2>4, <3>1 DEF Feed!Pending
    <2>5. CASE recentLocal
        <3>1. /\ Feed!Note(t, "dropped", cache[t]) \in Causes
              /\ cache[t].v # version[t] => Feed!Note(t, "dropped", cache[t]) # "none"
            BY <1>1, <2>1, NoteSays DEF Causes
        <3>2. lost' \in [Lists -> Causes] /\ lost'[t] = Feed!Note(t, "dropped", cache[t])
            BY <1>1, <2>1, <2>2, <2>5, <3>1
        <3>3. cache' = cache
            BY <2>2, <2>5
        <3>4. cache'[t].v < version[t] => lost'[t] # "none"
            <4>1. version[t] \in Nat /\ cache[t].v \in Nat
                BY <1>1
            <4> QED
                BY <3>1, <3>2, <3>3, <4>1
        <3>5. \A l \in Lists : cache'[l].v < version[l] =>
                 \/ lost'[l] # "none"
                 \/ cache[l].v < version[l] /\ lost[l] = "none" /\ (Feed!Pending(l) => Feed!Pending(l)')
            BY <2>4, <3>4
        <3> QED
            BY <1>1, <2>1, <3>2, <3>3, <3>5, CacheStep
    <2>6. CASE ~recentLocal
        <3>1. /\ lost' = lost /\ cache' \in [Lists -> [v : Nat, invalidated : BOOLEAN, fetch : Nat \cup {-1, -2}]]
              /\ cache'[t] = Feed!Invalidated(cache[t], feedPage = t)
            BY <1>1, <1>2, <2>1, <2>2, <2>6
        <3>2. cache'[t].v = cache[t].v /\ cache'[t].invalidated /\ cache'[t].fetch \in {-1, cache[t].fetch}
            BY <1>2, <2>1, <3>1
        <3>3. Feed!Pending(t)'
            BY <3>2 DEF Feed!Pending
        <3>4. \A l \in Lists : cache'[l].v <= version[l] /\ cache'[l].fetch <= version[l]
            BY <1>1, <2>1, <2>4, <3>2
        <3>5. \A l \in Lists : cache'[l].v < version[l] =>
                 \/ lost'[l] # "none" \/ Feed!Pending(l)'
                 \/ cache[l].v < version[l] /\ lost[l] = "none" /\ (Feed!Pending(l) => Feed!Pending(l)')
            BY <2>4, <3>1, <3>3
        <3> QED
            BY <1>1, <2>1, <3>1, <3>4, <3>5, CacheStep
    <2> QED
        BY <2>5, <2>6
<1> QED
    BY <1>3, <1>4

\* A push that is dispatched replaces the data; if it is late, that is noted.
LEMMA OnInboundsSays ==
    ASSUME FeedTypes, NEW v \in Nat, v <= version["inbounds"], Feed!OnInbounds(v)
    PROVE  /\ cache' \in [Lists -> [v : Nat, invalidated : BOOLEAN, fetch : Nat \cup {-1, -2}]]
           /\ lost' \in [Lists -> Causes]
           /\ \A l \in Lists : l # "inbounds" => cache'[l] = cache[l] /\ lost'[l] = lost[l]
           /\ "inbounds" \in Lists /\ cache'["inbounds"].v = v
           /\ cache'["inbounds"].fetch = cache["inbounds"].fetch
           /\ v < version["inbounds"] =>
                \/ lost'["inbounds"] # "none"
                \/ /\ cache["inbounds"].v <= v /\ ~cache["inbounds"].invalidated
                   /\ lost["inbounds"] = "none"
<1> DEFINE c == Feed!SetQueryData(cache["inbounds"], v)
           cause == IF v < cache["inbounds"].v \/ cache["inbounds"].invalidated THEN "dropped" ELSE "none"
<1>1. /\ version \in [Lists -> Nat] /\ "inbounds" \in Lists
      /\ cache \in [Lists -> [v : Nat, invalidated : BOOLEAN, fetch : Nat \cup {-1, -2}]]
      /\ lost \in [Lists -> Causes]
    BY FeedSays DEF Lists, Feed!Lists
<1>2. /\ cache' = [cache EXCEPT !["inbounds"] = c]
      /\ lost' = [lost EXCEPT !["inbounds"] = Feed!Note("inbounds", cause, c)]
    BY DEF Feed!OnInbounds, Feed!None
<1>3. cache["inbounds"] \in [v : Nat, invalidated : BOOLEAN, fetch : Nat \cup {-1, -2}]
    BY <1>1
<1>4. /\ c \in [v : Nat, invalidated : BOOLEAN, fetch : Nat \cup {-1, -2}]
      /\ c.v = v /\ c.fetch = cache["inbounds"].fetch
    BY <1>3 DEF Feed!SetQueryData
<1>5. cause \in Causes
    BY DEF Causes
<1>6. v < cache["inbounds"].v \/ cache["inbounds"].invalidated => cause # "none"
    OBVIOUS
<1> HIDE DEF c, cause
<1>7. /\ Feed!Note("inbounds", cause, c) \in Causes
      /\ c.v # version["inbounds"] /\ Feed!Note("inbounds", cause, c) = "none" =>
            lost["inbounds"] = "none" /\ cause = "none"
    BY <1>1, <1>5, NoteSays
<1>8. cache'["inbounds"] = c /\ lost'["inbounds"] = Feed!Note("inbounds", cause, c)
    BY <1>1, <1>2
<1>9. /\ cache' \in [Lists -> [v : Nat, invalidated : BOOLEAN, fetch : Nat \cup {-1, -2}]]
      /\ lost' \in [Lists -> Causes]
      /\ \A l \in Lists : l # "inbounds" => cache'[l] = cache[l] /\ lost'[l] = lost[l]
    BY <1>1, <1>2, <1>4, <1>7
<1>10. ASSUME v < version["inbounds"], lost'["inbounds"] = "none"
       PROVE  cache["inbounds"].v <= v /\ ~cache["inbounds"].invalidated /\ lost["inbounds"] = "none"
    <2>1. version["inbounds"] \in Nat /\ cache["inbounds"].v \in Nat
        BY <1>1, <1>3
    <2>3. lost["inbounds"] = "none" /\ cause = "none"
        BY <1>4, <1>7, <1>8, <1>10, <2>1
    <2> QED
        BY <1>6, <2>1, <2>3
<1> QED
    BY <1>1, <1>4, <1>8, <1>9, <1>10

\* The throttle timer repeats a push that newer signals may have overtaken.
LEMMA FeedEmits == ASSUME FeedInv, Feed!EmitTimerFires PROVE FeedInv'
<1>1. /\ FeedTypes /\ PushOrder /\ Feed!StaleHasCause /\ version \in [Lists -> Nat]
      /\ channel \in Seq(Signals) /\ MaxVersion \in Nat /\ "inbounds" \in Lists
      /\ cache \in [Lists -> [v : Nat, invalidated : BOOLEAN, fetch : Nat \cup {-1, -2}]]
      /\ \A k \in Lists : cache[k].v <= version[k] /\ cache[k].fetch <= version[k]
      /\ emitTimer \in Nat \cup {-2}
      /\ invalidateTimer \in Lists \cup {"none"} /\ mutation \in {"idle", "sent", "applied"}
    BY FeedSays DEF FeedInv, Lists, Feed!Lists
<1>2. /\ emitTimer # -2 /\ emitTimer' = -2 /\ Feed!OnInbounds(emitTimer)
      /\ UNCHANGED <<version, channel, invalidateTimer, mutation>>
    BY DEF Feed!EmitTimerFires, Feed!Idle
<1>3. emitTimer \in Nat /\ emitTimer <= version["inbounds"]
    BY <1>1, <1>2 DEF PushOrder
<1>4. /\ cache' \in [Lists -> [v : Nat, invalidated : BOOLEAN, fetch : Nat \cup {-1, -2}]]
      /\ lost' \in [Lists -> Causes]
      /\ \A l \in Lists : l # "inbounds" => cache'[l] = cache[l] /\ lost'[l] = lost[l]
      /\ cache'["inbounds"].v = emitTimer
      /\ cache'["inbounds"].fetch = cache["inbounds"].fetch
      /\ emitTimer < version["inbounds"] =>
            \/ lost'["inbounds"] # "none"
            \/ /\ cache["inbounds"].v <= emitTimer /\ ~cache["inbounds"].invalidated
               /\ lost["inbounds"] = "none"
    BY <1>1, <1>2, <1>3, OnInboundsSays
<1>5. FeedTypes'
    <2>1. \A l \in Lists : cache'[l].v <= version[l] /\ cache'[l].fetch <= version[l]
        BY <1>1, <1>3, <1>4
    <2>2. emitTimer' \in Nat \cup {-2} /\ emitTimer' <= MaxVersion
        BY <1>1, <1>2
    <2> QED
        BY <1>1, <1>2, <1>4, <2>1, <2>2, FeedTypesNext
<1>6. PushOrder'
    <2>1. \A i \in 1..Len(channel) : IsPush(channel[i]) =>
             /\ channel[i].list = "inbounds" /\ -2 < channel[i].v /\ channel[i].v <= version["inbounds"]
        <3> SUFFICES ASSUME NEW i \in 1..Len(channel), IsPush(channel[i])
                     PROVE  /\ channel[i].list = "inbounds" /\ -2 < channel[i].v
                            /\ channel[i].v <= version["inbounds"]
            OBVIOUS
        <3>1. channel[i] \in Signals
            BY <1>1
        <3> QED
            BY <1>1, <3>1 DEF PushOrder, Signals
    <2>2. \A i, j \in 1..Len(channel) :
            i < j /\ IsPush(channel[i]) /\ IsPush(channel[j]) => channel[i].v < channel[j].v
        BY <1>1 DEF PushOrder
    <2>3. emitTimer' <= version'["inbounds"]
        BY <1>1, <1>2
    <2> QED
        BY <1>2, <2>1, <2>2, <2>3 DEF PushOrder
<1>7. Feed!StaleHasCause'
    <2> SUFFICES ASSUME NEW l \in Lists, cache'[l].v < version[l]
                 PROVE  Feed!Pending(l)' \/ lost'[l] # "none"
        BY <1>2 DEF Feed!StaleHasCause, Feed!None, Lists
    <2>1. CASE l # "inbounds"
        <3>1. cache'[l] = cache[l] /\ lost'[l] = lost[l]
            BY <1>4, <2>1
        <3>2. Feed!Pending(l) \/ lost[l] # "none"
            BY <1>1, <3>1 DEF Feed!StaleHasCause, Feed!None, Lists
        <3>3. Feed!Pending(l) => Feed!Pending(l)'
            BY <1>2, <2>1, <3>1 DEF Feed!Pending
        <3> QED
            BY <3>1, <3>2, <3>3
    <2>2. CASE l = "inbounds" /\ lost'["inbounds"] = "none"
        <3>1. emitTimer < version["inbounds"]
            BY <1>4, <2>2
        <3>2. cache["inbounds"].v <= emitTimer /\ ~cache["inbounds"].invalidated /\ lost["inbounds"] = "none"
            BY <1>4, <2>2, <3>1
        <3>3. cache["inbounds"].v < version["inbounds"]
            BY <1>1, <1>3, <3>1, <3>2
        <3>4. Feed!Pending("inbounds")
            BY <1>1, <3>2, <3>3 DEF Feed!StaleHasCause, Feed!None, Lists
        <3>5. emitTimer # version["inbounds"]
            BY <1>1, <1>3, <3>1
        <3>6. Feed!Pending("inbounds")'
            BY <1>2, <1>4, <3>2, <3>4, <3>5 DEF Feed!Pending
        <3> QED
            BY <2>2, <3>6
    <2> QED
        BY <2>1, <2>2
<1> QED
    BY <1>5, <1>6, <1>7 DEF FeedInv

\* A message that is delivered leaves the channel and has its effect.
LEMMA FeedDelivers == ASSUME FeedInv, Feed!Deliver PROVE FeedInv'
<1>1. /\ FeedTypes /\ PushOrder /\ Feed!StaleHasCause /\ version \in [Lists -> Nat]
      /\ channel \in Seq(Signals) /\ MaxVersion \in Nat /\ "inbounds" \in Lists
      /\ cache \in [Lists -> [v : Nat, invalidated : BOOLEAN, fetch : Nat \cup {-1, -2}]]
      /\ \A k \in Lists : cache[k].v <= version[k] /\ cache[k].fetch <= version[k]
      /\ \A k \in Lists : version[k] \in 0..MaxVersion
      /\ lost \in [Lists -> Causes]
      /\ emitTimer \in Nat \cup {-2} /\ emitTimer <= MaxVersion
      /\ invalidateTimer \in Lists \cup {"none"} /\ mutation \in {"idle", "sent", "applied"}
      /\ \A k \in Lists : k # "none"
    BY FeedSays DEF FeedInv, Lists, Feed!Lists
<1>2. /\ channel # <<>> /\ channel' = Tail(channel)
      /\ UNCHANGED <<version, mutation>>
    BY DEF Feed!Deliver
<1>3. PICK m \in Signals : m = Head(channel)
    BY <1>1, <1>2, TailSays
<1>4. /\ 1 \in 1..Len(channel) /\ channel[1] = m /\ channel' \in Seq(Signals)
      /\ \A i \in 1..Len(channel') : i + 1 \in 1..Len(channel) /\ channel'[i] = channel[i + 1]
      /\ \A i \in 1..Len(channel) : i # 1 => i - 1 \in 1..Len(channel') /\ channel'[i - 1] = channel[i]
    BY <1>1, <1>2, <1>3, TailSays
<1>5. m.kind \in {"invalidate", "inbounds"} /\ m.list \in Lists /\ m.v \in Nat
    BY <1>3 DEF Signals
\* A message behind the head is still on its way.
<1>6. ASSUME NEW l \in Lists, NEW i \in 1..Len(channel), channel[i].list = l,
             channel[i].kind = "invalidate" \/ channel[i].v = version[l], i # 1
      PROVE  Feed!Pending(l)'
    BY <1>2, <1>4, <1>6 DEF Feed!Pending
<1>9. \A i, j \in 1..Len(channel') :
        i < j /\ IsPush(channel'[i]) /\ IsPush(channel'[j]) => channel'[i].v < channel'[j].v
    <2> SUFFICES ASSUME NEW i \in 1..Len(channel'), NEW j \in 1..Len(channel'), i < j,
                        IsPush(channel'[i]), IsPush(channel'[j])
                 PROVE  channel'[i].v < channel'[j].v
        OBVIOUS
    <2>1. /\ i + 1 \in 1..Len(channel) /\ j + 1 \in 1..Len(channel) /\ i + 1 < j + 1
          /\ channel'[i] = channel[i + 1] /\ channel'[j] = channel[j + 1]
        BY <1>4
    <2>2. IsPush(channel[i + 1]) /\ IsPush(channel[j + 1])
        BY <2>1
    <2>3. channel[i + 1].v < channel[j + 1].v
        BY <1>1, <2>1, <2>2 DEF PushOrder
    <2> QED
        BY <2>1, <2>3
<1>7. CASE m.kind = "invalidate"
    <2>1. /\ Feed!OnInvalidate(m.list) /\ UNCHANGED <<cache, emitTimer>>
        BY <1>3, <1>7 DEF Feed!Deliver
    <2>2. invalidateTimer' = m.list
        BY <2>1 DEF Feed!OnInvalidate
    <2>3. /\ lost' \in [Lists -> Causes]
          /\ \A l \in Lists : cache[l].v < version[l] =>
               lost'[l] # "none" \/ (lost'[l] = lost[l] /\ (invalidateTimer # l \/ m.list = l))
        <3>1. CASE invalidateTimer \in {"none", m.list}
            <4>1. lost' = lost
                BY <2>1, <3>1 DEF Feed!OnInvalidate, Feed!None
            <4> QED
                BY <1>1, <3>1, <4>1
        <3>2. CASE invalidateTimer \notin {"none", m.list}
            <4>1. PICK t \in Lists : t = invalidateTimer
                BY <1>1, <3>2
            <4>2. lost' = [lost EXCEPT ![t] = Feed!Note(t, "dropped", cache[t])]
                BY <2>1, <3>2, <4>1 DEF Feed!OnInvalidate, Feed!None
            <4>3. /\ Feed!Note(t, "dropped", cache[t]) \in Causes
                  /\ cache[t].v # version[t] => Feed!Note(t, "dropped", cache[t]) # "none"
                <5>1. "dropped" \in Causes /\ "dropped" # "none" /\ FeedTypes
                    BY <1>1 DEF Causes
                <5> QED
                    BY <5>1, NoteSays
            <4>4. lost' \in [Lists -> Causes] /\ lost'[t] = Feed!Note(t, "dropped", cache[t])
                BY <1>1, <4>2, <4>3
            <4>5. \A l \in Lists : l # t => lost'[l] = lost[l]
                BY <1>1, <4>2
            <4>6. cache[t].v < version[t] => lost'[t] # "none"
                <5>1. version[t] \in Nat /\ cache[t].v \in Nat
                    BY <1>1
                <5> QED
                    BY <4>3, <4>4, <5>1
            <4> QED
                BY <4>1, <4>4, <4>5, <4>6
        <3> QED
            BY <3>1, <3>2
    <2>4. FeedTypes'
        BY <1>1, <1>2, <1>4, <1>5, <2>1, <2>2, <2>3, FeedTypesNext
    <2>5. PushOrder'
        <3>1. \A i \in 1..Len(channel') : IsPush(channel'[i]) =>
                 /\ channel'[i].list = "inbounds"
                 /\ emitTimer < channel'[i].v /\ channel'[i].v <= version["inbounds"]
            <4> SUFFICES ASSUME NEW i \in 1..Len(channel'), IsPush(channel'[i])
                         PROVE  /\ channel'[i].list = "inbounds"
                                /\ emitTimer < channel'[i].v /\ channel'[i].v <= version["inbounds"]
                OBVIOUS
            <4>1. i + 1 \in 1..Len(channel) /\ channel'[i] = channel[i + 1]
                BY <1>4
            <4>2. \A k \in 1..Len(channel) : IsPush(channel[k]) =>
                     /\ channel[k].list = "inbounds"
                     /\ emitTimer < channel[k].v /\ channel[k].v <= version["inbounds"]
                BY <1>1 DEF PushOrder
            <4> QED
                BY <4>1, <4>2
        <3> QED
            BY <1>1, <1>2, <1>9, <2>1, <3>1 DEF PushOrder
    <2>6. Feed!StaleHasCause'
        <3> SUFFICES ASSUME NEW l \in Lists, cache[l].v < version[l], lost'[l] = "none"
                     PROVE  Feed!Pending(l)'
            BY <1>2, <2>1 DEF Feed!StaleHasCause, Feed!None, Lists
        <3>1. lost[l] = "none" /\ (invalidateTimer = l => m.list = l)
            BY <2>3
        <3>2. Feed!Pending(l)
            BY <1>1, <3>1 DEF Feed!StaleHasCause, Feed!None, Lists
        <3>3. CASE m.list = l
            BY <2>2, <3>3 DEF Feed!Pending
        <3>4. CASE m.list # l
            <4>1. CASE \E i \in 1..Len(channel) : /\ channel[i].list = l
                                                  /\ channel[i].kind = "invalidate" \/ channel[i].v = version[l]
                BY <1>4, <1>6, <3>4, <4>1
            <4>2. CASE \/ cache[l].fetch \in {-1, version[l]} \/ cache[l].invalidated
                       \/ (l = "inbounds" /\ mutation = "applied") \/ (l = "inbounds" /\ emitTimer = version[l])
                BY <1>2, <2>1, <4>2 DEF Feed!Pending, Feed!Unread
            <4> QED
                BY <3>1, <3>2, <3>4, <4>1, <4>2 DEF Feed!Pending, Feed!Unread
        <3> QED
            BY <3>3, <3>4
    <2> QED
        BY <2>4, <2>5, <2>6 DEF FeedInv
<1>8. CASE m.kind = "inbounds"
    <2>1. /\ emitTimer' = m.v /\ UNCHANGED invalidateTimer
          /\ IF emitTimer = -2 THEN Feed!OnInbounds(m.v) ELSE UNCHANGED <<cache, lost>>
        BY <1>3, <1>8 DEF Feed!Deliver, Feed!Idle
    <2>2. m.list = "inbounds" /\ emitTimer < m.v /\ m.v <= version["inbounds"]
        BY <1>1, <1>4, <1>8 DEF PushOrder, IsPush
    <2>3. PushOrder'
        <3>1. ASSUME NEW i \in 1..Len(channel'), IsPush(channel'[i])
              PROVE  /\ channel'[i].list = "inbounds"
                     /\ emitTimer' < channel'[i].v /\ channel'[i].v <= version'["inbounds"]
            <4>1. i + 1 \in 1..Len(channel) /\ channel'[i] = channel[i + 1] /\ 1 < i + 1
                BY <1>4
            <4>2. IsPush(channel[i + 1]) /\ IsPush(channel[1])
                BY <1>4, <1>8, <3>1, <4>1 DEF IsPush
            <4>3. channel[1].v < channel[i + 1].v
                BY <1>1, <1>4, <4>1, <4>2 DEF PushOrder
            <4> QED
                BY <1>1, <1>2, <1>4, <2>1, <4>1, <4>2, <4>3 DEF PushOrder
        <3> QED
            BY <1>2, <1>9, <2>1, <2>2, <3>1 DEF PushOrder
    <2>4. CASE emitTimer = -2
        <3>1. /\ cache' \in [Lists -> [v : Nat, invalidated : BOOLEAN, fetch : Nat \cup {-1, -2}]]
              /\ lost' \in [Lists -> Causes]
              /\ \A l \in Lists : l # "inbounds" => cache'[l] = cache[l] /\ lost'[l] = lost[l]
              /\ cache'["inbounds"].v = m.v
              /\ cache'["inbounds"].fetch = cache["inbounds"].fetch
              /\ m.v < version["inbounds"] =>
                    \/ lost'["inbounds"] # "none"
                    \/ /\ cache["inbounds"].v <= m.v /\ ~cache["inbounds"].invalidated
                       /\ lost["inbounds"] = "none"
            BY <1>1, <1>5, <2>1, <2>2, <2>4, OnInboundsSays
        <3>2. FeedTypes'
            <4>1. \A l \in Lists : cache'[l].v <= version[l] /\ cache'[l].fetch <= version[l]
                BY <1>1, <2>2, <3>1
            <4>2. emitTimer' \in Nat \cup {-2} /\ emitTimer' <= MaxVersion
                BY <1>1, <1>5, <2>1, <2>2
            <4> QED
                BY <1>1, <1>2, <1>4, <2>1, <3>1, <4>1, <4>2, FeedTypesNext
        <3>3. Feed!StaleHasCause'
            <4> SUFFICES ASSUME NEW l \in Lists, cache'[l].v < version[l], lost'[l] = "none"
                         PROVE  Feed!Pending(l)'
                BY <1>2 DEF Feed!StaleHasCause, Feed!None, Lists
            <4>1. CASE l # "inbounds"
                <5>1. cache'[l] = cache[l] /\ lost'[l] = lost[l]
                    BY <3>1, <4>1
                <5>2. Feed!Pending(l)
                    BY <1>1, <5>1 DEF Feed!StaleHasCause, Feed!None, Lists
                <5>3. CASE \E i \in 1..Len(channel) : /\ channel[i].list = l
                                                      /\ channel[i].kind = "invalidate" \/ channel[i].v = version[l]
                    BY <1>4, <1>6, <2>2, <4>1, <5>3
                <5>4. CASE \/ cache[l].fetch \in {-1, version[l]} \/ cache[l].invalidated
                           \/ (l = "inbounds" /\ mutation = "applied") \/ invalidateTimer = l
                    BY <1>2, <2>1, <5>1, <5>4 DEF Feed!Pending, Feed!Unread
                <5> QED
                    BY <4>1, <5>2, <5>3, <5>4 DEF Feed!Pending, Feed!Unread
            <4>2. CASE l = "inbounds"
                <5>1. m.v < version["inbounds"]
                    BY <3>1, <4>2
                <5>2. cache["inbounds"].v <= m.v /\ ~cache["inbounds"].invalidated /\ lost["inbounds"] = "none"
                    BY <3>1, <4>2, <5>1
                <5>3. cache["inbounds"].v < version["inbounds"]
                    BY <1>1, <1>5, <5>1, <5>2
                <5>4. Feed!Pending("inbounds")
                    BY <1>1, <5>2, <5>3 DEF Feed!StaleHasCause, Feed!None, Lists
                <5>5. m.v # version["inbounds"] /\ emitTimer # version["inbounds"]
                    BY <1>1, <1>5, <2>4, <5>1
                <5>6. CASE \E i \in 1..Len(channel) : /\ channel[i].list = "inbounds"
                                                      /\ \/ channel[i].kind = "invalidate"
                                                         \/ channel[i].v = version["inbounds"]
                    BY <1>1, <1>4, <1>6, <1>8, <4>2, <5>5, <5>6
                <5>7. CASE \/ cache["inbounds"].fetch \in {-1, version["inbounds"]}
                           \/ mutation = "applied" \/ invalidateTimer = "inbounds"
                    BY <1>2, <2>1, <3>1, <4>2, <5>7 DEF Feed!Pending, Feed!Unread
                <5> QED
                    BY <5>2, <5>4, <5>5, <5>6, <5>7, <4>2 DEF Feed!Pending, Feed!Unread
            <4> QED
                BY <4>1, <4>2
        <3> QED
            BY <2>3, <3>2, <3>3 DEF FeedInv
    <2>5. CASE emitTimer # -2
        <3>1. UNCHANGED <<cache, lost>> /\ emitTimer \in Nat
            BY <1>1, <2>1, <2>5
        <3>2. FeedTypes'
            <4>1. emitTimer' \in Nat \cup {-2} /\ emitTimer' <= MaxVersion
                BY <1>1, <1>5, <2>1, <2>2
            <4> QED
                BY <1>1, <1>2, <1>4, <2>1, <3>1, <4>1, FeedTypesNext
        <3>3. Feed!StaleHasCause'
            <4> SUFFICES ASSUME NEW l \in Lists, cache[l].v < version[l], lost[l] = "none"
                         PROVE  Feed!Pending(l)'
                BY <1>2, <3>1 DEF Feed!StaleHasCause, Feed!None, Lists
            <4>1. Feed!Pending(l)
                BY <1>1 DEF Feed!StaleHasCause, Feed!None, Lists
            <4>2. CASE \E i \in 1..Len(channel) : /\ channel[i].list = l
                                                  /\ channel[i].kind = "invalidate" \/ channel[i].v = version[l]
                <5>1. PICK i \in 1..Len(channel) : /\ channel[i].list = l
                                                   /\ channel[i].kind = "invalidate" \/ channel[i].v = version[l]
                    BY <4>2
                <5>2. CASE i # 1
                    BY <1>6, <5>1, <5>2
                <5>3. CASE i = 1
                    <6>1. l = "inbounds" /\ m.v = version[l]
                        BY <1>4, <1>8, <2>2, <5>1, <5>3
                    <6> QED
                        BY <1>2, <2>1, <6>1 DEF Feed!Pending
                <5> QED
                    BY <5>2, <5>3
            <4>3. CASE \/ cache[l].fetch \in {-1, version[l]} \/ cache[l].invalidated
                       \/ (l = "inbounds" /\ mutation = "applied") \/ invalidateTimer = l
                BY <1>2, <2>1, <3>1, <4>3 DEF Feed!Pending, Feed!Unread
            <4>4. ~(l = "inbounds" /\ emitTimer = version[l])
                BY <1>1, <1>5, <2>2, <3>1
            <4> QED
                BY <4>1, <4>2, <4>3, <4>4 DEF Feed!Pending, Feed!Unread
        <3> QED
            BY <2>3, <3>2, <3>3 DEF FeedInv
    <2> QED
        BY <2>4, <2>5
<1> QED
    BY <1>5, <1>7, <1>8

\* A lost socket takes what was in it along, which is noted.
LEMMA FeedLoses == ASSUME FeedInv, Feed!SocketLost PROVE FeedInv'
<1>1. /\ FeedTypes /\ Feed!StaleHasCause /\ version \in [Lists -> Nat]
      /\ cache \in [Lists -> [v : Nat, invalidated : BOOLEAN, fetch : Nat \cup {-1, -2}]]
      /\ \A k \in Lists : cache[k].v <= version[k] /\ cache[k].fetch <= version[k]
      /\ lost \in [Lists -> Causes]
      /\ emitTimer \in Nat \cup {-2} /\ emitTimer <= MaxVersion
      /\ invalidateTimer \in Lists \cup {"none"} /\ mutation \in {"idle", "sent", "applied"}
    BY FeedSays DEF FeedInv
<1>2. /\ channel' = <<>> /\ UNCHANGED <<version, emitTimer, invalidateTimer, cache, mutation>>
      /\ lost' = [l \in Lists |-> IF \E i \in 1..Len(channel) : channel[i].list = l
                                  THEN Feed!Note(l, "dropped", cache[l]) ELSE lost[l]]
    BY DEF Feed!SocketLost, Lists
<1>3. channel' \in Seq(Signals) /\ Len(channel') = 0
    BY <1>2
<1>4. "dropped" \in Causes /\ "dropped" # "none"
    BY DEF Causes
<1>5. \A l \in Lists : /\ Feed!Note(l, "dropped", cache[l]) \in Causes
                       /\ cache[l].v # version[l] =>
                            Feed!Note(l, "dropped", cache[l]) # "none"
    BY <1>1, <1>4, NoteSays
<1>6. FeedTypes'
    <2>1. lost' \in [Lists -> Causes]
        BY <1>1, <1>2, <1>5
    <2> QED
        BY <1>1, <1>2, <1>3, <2>1, FeedTypesNext
<1>7. PushOrder'
    <2>1. emitTimer' <= version'["inbounds"]
        BY <1>2 DEF FeedInv, PushOrder
    <2> QED
        BY <1>3, <2>1 DEF PushOrder
<1>8. Feed!StaleHasCause'
    <2> SUFFICES ASSUME NEW l \in Lists, cache[l].v < version[l], lost'[l] = "none"
                 PROVE  Feed!Pending(l)'
        BY <1>2 DEF Feed!StaleHasCause, Feed!None, Lists
    <2>1. cache[l].v # version[l]
        BY <1>1
    <2>3. ~(\E i \in 1..Len(channel) : channel[i].list = l) /\ lost[l] = "none"
        BY <1>2, <1>5, <2>1
    <2>4. Feed!Pending(l)
        BY <1>1, <2>3 DEF Feed!StaleHasCause, Feed!None, Lists
    <2> QED
        BY <1>2, <2>3, <2>4 DEF Feed!Pending
<1> QED
    BY <1>6, <1>7, <1>8 DEF FeedInv

\* A change of both lists that nobody is told of.
LEMMA UntoldStep ==
    ASSUME FeedInv, Feed!Broadcast(Lists, <<>>, Feed!AllUnsent),
           mutation' \in {"idle", "sent", "applied"}, mutation = "applied" => mutation' = "applied",
           UNCHANGED <<emitTimer, invalidateTimer, cache>>
    PROVE  FeedInv'
<1>1. /\ FeedTypes /\ PushOrder /\ version \in [Lists -> Nat] /\ MaxVersion \in Nat
      /\ cache \in [Lists -> [v : Nat, invalidated : BOOLEAN, fetch : Nat \cup {-1, -2}]]
      /\ \A l \in Lists : cache[l].v <= version[l] /\ cache[l].fetch <= version[l]
      /\ channel \in Seq(Signals) /\ lost \in [Lists -> Causes]
      /\ emitTimer \in Nat \cup {-2} /\ emitTimer <= MaxVersion
      /\ invalidateTimer \in Lists \cup {"none"}
    BY FeedSays DEF FeedInv
<1>2. /\ \A l \in Lists : version[l] < MaxVersion
      /\ version' = [l \in Lists |-> version[l] + 1]
      /\ channel' = channel
      /\ \A l \in Lists : lost'[l] # "none"
      /\ lost' \in [Lists -> Causes]
    <2>1. channel \o <<>> = channel
        BY <1>1
    <2>2. lost' = [l \in Lists |-> Feed!First(l, "unsent")]
        BY DEF Feed!Broadcast, Feed!AllUnsent, Lists
    <2> QED
        BY <1>1, <2>1, <2>2 DEF Feed!Broadcast, Feed!First, Feed!None, Causes, Lists
<1>3. FeedTypes'
    <2>1. version' \in [Lists -> 0..MaxVersion]
        BY <1>1, <1>2
    <2>2. \A l \in Lists : cache'[l].v \in 0..version'[l] /\ cache'[l].fetch \in {-2, -1} \cup 0..version'[l]
        BY <1>1, <1>2
    <2>3. emitTimer' \in {-2} \cup 0..MaxVersion
        BY <1>1
    <2>4. Feed!TypeOK'
        BY <1>1, <2>1, <2>2, <2>3 DEF Feed!TypeOK, Lists, Feed!Idle, Feed!Unread, Feed!None
    <2> QED
        BY <1>1, <1>2, <2>4 DEF FeedTypes
<1>4. PushOrder'
    <2>1. version'["inbounds"] = version["inbounds"] + 1 /\ version["inbounds"] \in Nat
        BY <1>1, <1>2 DEF Lists, Feed!Lists
    <2>2. ASSUME NEW i \in 1..Len(channel), IsPush(channel[i])
          PROVE  channel[i].v <= version'["inbounds"]
        <3>1. channel[i] \in Signals
            BY <1>1
        <3> QED
            BY <1>1, <2>1, <2>2, <3>1 DEF PushOrder, Signals
    <2>3. emitTimer' <= version'["inbounds"]
        BY <1>1, <2>1 DEF PushOrder
    <2> QED
        BY <1>1, <1>2, <2>2, <2>3 DEF PushOrder
<1>5. Feed!StaleHasCause'
    BY <1>2 DEF Feed!StaleHasCause, Feed!None, Lists
<1> QED
    BY <1>3, <1>4, <1>5 DEF FeedInv

\* Every change of the server is one of those BroadcastStep allows.
LEMMA FeedBroadcasts ==
    ASSUME FeedInv,
           \/ Feed!ClientEdit \/ Feed!ClientEditPartly \/ Feed!InboundEdit \/ Feed!InboundToggle
           \/ Feed!StructuralChange \/ Feed!MutationApplied
    PROVE  FeedInv'
<1>1. version \in [Lists -> Nat] /\ mutation \in {"idle", "sent", "applied"}
    BY FeedSays DEF FeedInv
<1>2. UNCHANGED <<emitTimer, invalidateTimer, cache>> /\ mutation' \in {mutation, "applied"}
    BY <1>1 DEF Feed!ClientEdit, Feed!ClientEditPartly, Feed!InboundEdit, Feed!InboundToggle, Feed!StructuralChange,
                Feed!MutationApplied
<1>3. Lists = {"inbounds", "clients"} /\ Lists = Feed!Lists
    BY DEF Lists, Feed!Lists
<1>4. /\ Feed!Inv("clients") \in Signals /\ ~IsPush(Feed!Inv("clients")) /\ Feed!Inv("clients").list = "clients"
      /\ Feed!Inv("inbounds") \in Signals /\ ~IsPush(Feed!Inv("inbounds")) /\ Feed!Inv("inbounds").list = "inbounds"
    BY <1>3 DEF Feed!Inv, Signals, IsPush
<1>5. /\ Feed!NoCause \in [Lists -> Causes]
      /\ Feed!AllUnsent \in [Lists -> Causes] /\ \A l \in Lists : Feed!AllUnsent[l] # "none"
    BY <1>3 DEF Feed!NoCause, Feed!AllUnsent, Feed!None, Causes
<1>6. [Feed!NoCause EXCEPT !["inbounds"] = "unsent"] \in [Lists -> Causes]
    BY <1>3, <1>5 DEF Causes
<1>7. CASE Feed!ClientEdit
    <2> DEFINE msgs == <<Feed!Inv("clients")>>
               cause == [Feed!NoCause EXCEPT !["inbounds"] = "unsent"]
    <2>1. Feed!Broadcast(Lists, msgs, cause)
        BY <1>3, <1>7 DEF Feed!ClientEdit
    <2>2. cause \in [Lists -> Causes] /\ cause["inbounds"] # "none"
        BY <1>3, <1>5, <1>6
    <2>3. msgs \in Seq(Signals) /\ Len(msgs) = 1 /\ msgs[1] = Feed!Inv("clients")
        BY <1>4
    <2> HIDE DEF msgs, cause
    <2>4. Accounted(Lists, msgs, cause)
        BY <1>3, <1>4, <2>2, <2>3 DEF Accounted
    <2>5. PushesNew(Lists, msgs)
        BY <1>4, <2>3 DEF PushesNew
    <2> QED
        BY <1>2, <2>1, <2>2, <2>3, <2>4, <2>5, BroadcastStep
<1>8. CASE Feed!InboundEdit
    <2>1. CASE hubInterval
        <3> DEFINE msgs == <<>>
                   cause == [Feed!NoCause EXCEPT !["inbounds"] = "unsent"]
        <3>1. Feed!Broadcast({"inbounds"}, msgs, cause)
            BY <1>8, <2>1 DEF Feed!InboundEdit
        <3>2. cause \in [Lists -> Causes] /\ cause["inbounds"] # "none"
            BY <1>3, <1>5, <1>6
        <3>3. msgs \in Seq(Signals) /\ Len(msgs) = 0 /\ {"inbounds"} \in SUBSET Lists
            BY <1>3
        <3> HIDE DEF msgs, cause
        <3>4. Accounted({"inbounds"}, msgs, cause)
            BY <3>2 DEF Accounted
        <3>5. PushesNew({"inbounds"}, msgs)
            BY <3>3 DEF PushesNew
        <3> QED
            BY <1>2, <3>1, <3>2, <3>3, <3>4, <3>5, BroadcastStep
    <2>2. CASE ~hubInterval
        <3> DEFINE msgs == <<Feed!Push(version["inbounds"] + 1)>>
        <3>1. Feed!Broadcast({"inbounds"}, msgs, Feed!NoCause)
            BY <1>8, <2>2 DEF Feed!InboundEdit
        <3>2. Feed!Push(version["inbounds"] + 1) \in Signals
            BY <1>1, <1>3 DEF Feed!Push, Signals
        <3>3. /\ msgs \in Seq(Signals) /\ Len(msgs) = 1 /\ {"inbounds"} \in SUBSET Lists
              /\ msgs[1] = Feed!Push(version["inbounds"] + 1)
            BY <1>3, <3>2
        <3>4. msgs[1].list = "inbounds" /\ msgs[1].v = version["inbounds"] + 1
            BY <3>3 DEF Feed!Push
        <3> HIDE DEF msgs
        <3>5. Accounted({"inbounds"}, msgs, Feed!NoCause)
            BY <3>3, <3>4 DEF Accounted
        <3>6. PushesNew({"inbounds"}, msgs)
            BY <3>3, <3>4 DEF PushesNew
        <3> QED
            BY <1>2, <1>5, <3>1, <3>3, <3>5, <3>6, BroadcastStep
    <2> QED
        BY <2>1, <2>2
<1>9. CASE Feed!InboundToggle
    <2> DEFINE msgs == <<Feed!Inv("inbounds")>>
    <2>1. Feed!Broadcast({"inbounds"}, msgs, Feed!NoCause)
        BY <1>9 DEF Feed!InboundToggle
    <2>2. msgs \in Seq(Signals) /\ Len(msgs) = 1 /\ msgs[1] = Feed!Inv("inbounds") /\ {"inbounds"} \in SUBSET Lists
        BY <1>3, <1>4
    <2> HIDE DEF msgs
    <2>3. Accounted({"inbounds"}, msgs, Feed!NoCause)
        BY <1>4, <2>2 DEF Accounted
    <2>4. PushesNew({"inbounds"}, msgs)
        BY <1>4, <2>2 DEF PushesNew
    <2> QED
        BY <1>2, <1>5, <2>1, <2>2, <2>3, <2>4, BroadcastStep
<1>10. CASE Feed!StructuralChange
    <2> DEFINE msgs == <<Feed!Inv("inbounds"), Feed!Inv("clients")>>
    <2>1. Feed!Broadcast(Lists, msgs, Feed!NoCause)
        BY <1>3, <1>10 DEF Feed!StructuralChange
    <2>2. /\ msgs \in Seq(Signals) /\ Len(msgs) = 2
          /\ msgs[1] = Feed!Inv("inbounds") /\ msgs[2] = Feed!Inv("clients")
        BY <1>4
    <2> HIDE DEF msgs
    <2>3. PushesNew(Lists, msgs)
        BY <1>4, <2>2 DEF PushesNew
    <2>4. Accounted(Lists, msgs, Feed!NoCause)
        BY <1>3, <1>4, <2>2 DEF Accounted
    <2> QED
        BY <1>2, <1>5, <2>1, <2>2, <2>3, <2>4, BroadcastStep
<1>11. CASE Feed!MutationApplied
    <2> DEFINE msgs == <<Feed!Inv("clients")>>
    <2>1. Feed!Broadcast(Lists, msgs, Feed!NoCause) /\ mutation' = "applied"
        BY <1>3, <1>11 DEF Feed!MutationApplied
    <2>2. msgs \in Seq(Signals) /\ Len(msgs) = 1 /\ msgs[1] = Feed!Inv("clients")
        BY <1>4
    <2> HIDE DEF msgs
    <2>3. PushesNew(Lists, msgs)
        BY <1>4, <2>2 DEF PushesNew
    <2>4. Accounted(Lists \ {"inbounds"}, msgs, Feed!NoCause)
        BY <1>3, <1>4, <2>2 DEF Accounted
    <2> QED
        BY <1>2, <1>5, <2>1, <2>2, <2>3, <2>4, BroadcastStep
<1>12. CASE Feed!ClientEditPartly
    <2>1. Feed!Broadcast(Lists, <<>>, Feed!AllUnsent)
        BY <1>3, <1>12 DEF Feed!ClientEditPartly
    <2> QED
        BY <1>1, <1>2, <1>5, <2>1, UntoldStep
<1> QED
    BY <1>7, <1>8, <1>9, <1>10, <1>11, <1>12

\* A mutation that is refused, and one whose answer is lost.
LEMMA FeedFails == ASSUME FeedInv, Feed!MutationRefused \/ Feed!AnswerLost PROVE FeedInv'
<1>1. /\ FeedTypes /\ Feed!StaleHasCause /\ version \in [Lists -> Nat]
      /\ cache \in [Lists -> [v : Nat, invalidated : BOOLEAN, fetch : Nat \cup {-1, -2}]]
      /\ \A k \in Lists : cache[k].v <= version[k] /\ cache[k].fetch <= version[k]
      /\ lost \in [Lists -> Causes]
      /\ invalidateTimer \in Lists \cup {"none"} /\ mutation \in {"idle", "sent", "applied"}
    BY FeedSays DEF FeedInv
<1>2. CASE Feed!MutationRefused
    <2>1. mutation = "sent" /\ mutation' = "idle" /\ UNCHANGED <<emitTimer, invalidateTimer, cache>>
        BY <1>2 DEF Feed!MutationRefused
    <2>2. CASE Feed!Broadcast(Lists, <<>>, Feed!AllUnsent)
        BY <2>1, <2>2, UntoldStep
    <2>3. CASE UNCHANGED <<version, channel, lost>>
        BY <2>1, <2>3, FeedFrame
    <2> QED
        BY <1>2, <2>2, <2>3 DEF Feed!MutationRefused, Lists
<1>3. CASE Feed!AnswerLost
    <2>1. /\ mutation' = "idle" /\ UNCHANGED <<version, channel, emitTimer, invalidateTimer, cache>>
          /\ lost' = [lost EXCEPT !["inbounds"] = Feed!Note("inbounds", "dropped", cache["inbounds"])]
        BY <1>3 DEF Feed!AnswerLost
    <2>2. "inbounds" \in Lists
        BY DEF Lists, Feed!Lists
    <2>3. /\ Feed!Note("inbounds", "dropped", cache["inbounds"]) \in Causes
          /\ cache["inbounds"].v # version["inbounds"] =>
                Feed!Note("inbounds", "dropped", cache["inbounds"]) # "none"
        BY <1>1, <2>2, NoteSays DEF Causes
    <2>4. lost' \in [Lists -> Causes] /\ lost'["inbounds"] = Feed!Note("inbounds", "dropped", cache["inbounds"])
        BY <1>1, <2>1, <2>2, <2>3
    <2>5. version["inbounds"] \in Nat /\ cache["inbounds"].v \in Nat
        BY <1>1, <2>2
    <2>6. \A l \in Lists : cache'[l].v < version[l] =>
             \/ lost'[l] # "none"
             \/ cache[l].v < version[l] /\ lost[l] = "none" /\ (Feed!Pending(l) => Feed!Pending(l)')
        <3> SUFFICES ASSUME NEW l \in Lists, cache[l].v < version[l], lost'[l] = "none"
                     PROVE  lost[l] = "none" /\ (Feed!Pending(l) => Feed!Pending(l)')
            BY <2>1
        <3>1. l # "inbounds"
            BY <2>3, <2>4, <2>5
        <3>2. lost[l] = "none"
            BY <1>1, <2>1, <3>1
        <3> QED
            BY <2>1, <3>1, <3>2 DEF Feed!Pending
    <2> QED
        BY <1>1, <2>1, <2>4, <2>6, CacheStep
<1> QED
    BY <1>2, <1>3

\* Every step of the feed keeps its invariant, and a stuttering step does.
LEMMA FeedStep == ASSUME FeedInv, Feed!Next PROVE FeedInv'
<1>1. mutation \in {"idle", "sent", "applied"}
    BY FeedSays DEF FeedInv
<1>2. CASE Feed!HubIntervalPasses \/ Feed!SocketReconnects \/ Feed!Mutate \/ Feed!LocalWindowPasses
    <2>1. /\ UNCHANGED <<version, channel, emitTimer, invalidateTimer, cache, lost>>
          /\ mutation' \in {"idle", "sent", "applied"} /\ (mutation = "applied" => mutation' = "applied")
        BY <1>1, <1>2 DEF Feed!HubIntervalPasses, Feed!SocketReconnects, Feed!Mutate, Feed!LocalWindowPasses
    <2> QED
        BY <2>1, FeedFrame
<1>3. CASE \E l \in Feed!Lists : Feed!ServerAnswers(l) \/ Feed!FetchDone(l) \/ Feed!FetchFails(l) \/ Feed!Navigate(l)
    BY <1>3, FeedCalls DEF Lists
<1> QED
    BY <1>2, <1>3, FeedEmits, FeedDelivers, FeedInvalidates, FeedLoses, FeedBroadcasts, FeedFails
    DEF Feed!Next, Feed!Deliveries

LEMMA FeedStutters == ASSUME FeedInv, UNCHANGED feedVars PROVE FeedInv'
<1>1. mutation \in {"idle", "sent", "applied"}
    BY FeedSays DEF FeedInv
<1> QED
    BY <1>1, FeedFrame DEF feedVars

-----------------------------------------------------------------------------
(* The session *)

Places == {"none", "awaitToken", "sent", "answered", "resolved", "rejected", "suspended"}
Calling == [pc : Places, unsafe : BOOLEAN, skipAuthRedirect : BOOLEAN, token : Nat, retried : BOOLEAN,
            status : {0, 200, 401, 403}]

\* No token, or one that was minted since the page was served.
Since(t) == t \in Nat /\ t <= serverToken /\ (t = 0 \/ served <= t)

\* The token in hand, on its way and in a request was minted by the server, and since
\* the page was served.
SessionTypes ==
    /\ serverToken \in Nat /\ served \in Nat \ {0} /\ served <= serverToken
    /\ metaToken \in {0, served} /\ sessionFaults \in Nat
    /\ Since(csrfToken)
    /\ csrfFetchPromise = -1 \/ Since(csrfFetchPromise)
    /\ req \in [Requests -> Calling]
    /\ \A r \in Requests : Since(req[r].token)

\* A page served without a token, its session replaced at most once, a network that works.
Gentle == metaToken = 0 /\ serverToken <= served + 1 /\ sessionFaults = 0

\* A call that was refused for its token carried the first one, is tried again with
\* the second, and is not refused for it again.
CallInv(q) ==
    /\ q.pc = "sent" /\ q.unsafe => q.token # 0
    /\ q.pc = "answered" /\ q.status = 403 => ~q.retried /\ serverToken = served + 1
    /\ q.retried => serverToken = served + 1 /\ (q.pc = "sent" => q.token = serverToken)
    /\ q.pc = "rejected" => q.status # 403

\* The call has not met a token yet.
Fresh(q) == q.token = 0 /\ ~q.retried /\ ~(q.pc = "answered" /\ q.status = 403)

\* The first token is fetched only while no call has met a token.
HealInv ==
    Gentle =>
        /\ \A r \in Requests : CallInv(req[r])
        /\ csrfFetchPromise # 0 => csrfToken = 0
        /\ (serverToken = served /\ csrfToken = 0) \/ csrfFetchPromise = served => \A r \in Requests : Fresh(req[r])

SessionInv == SessionTypes /\ HealInv

LEMMA InitSession == ASSUME Calls!Init PROVE SessionInv
<1>1. Calls!NoRequest \in Calling /\ Calls!NoRequest.token = 0
    BY DEF Calls!NoRequest, Calling, Places, Calls!NoToken
<1>2. \A r \in Requests : req[r] = Calls!NoRequest
    BY DEF Calls!Init
<1>3. SessionTypes
    BY <1>1, <1>2 DEF Calls!Init, SessionTypes, Since, Calls!NoToken
<1>4. CallInv(Calls!NoRequest) /\ Fresh(Calls!NoRequest)
    BY DEF Calls!NoRequest, CallInv, Fresh, Calls!NoToken
<1>5. HealInv
    BY <1>2, <1>4 DEF HealInv, Calls!Init, Calls!NoToken
<1> QED
    BY <1>3, <1>5 DEF SessionInv

LEMMA TokenAttachedSays ==
    ASSUME NEW q \in Calling, NEW t \in Nat
    PROVE  LET a == Calls!TokenAttached(q, t) IN
           /\ a \in Calling /\ a.pc = "sent" /\ a.unsafe = q.unsafe /\ a.retried = q.retried
           /\ a.status = q.status /\ a.token = IF t = 0 THEN q.token ELSE t
<1> DEFINE b == [q EXCEPT !.pc = "sent"]
<1>1. b \in Calling /\ b.pc = "sent" /\ b.unsafe = q.unsafe /\ b.retried = q.retried
      /\ b.status = q.status /\ b.token = q.token
    BY DEF Calling, Places
<1>2. CASE t = 0
    BY <1>1, <1>2 DEF Calls!TokenAttached, Calls!NoToken
<1>3. CASE t # 0
    BY <1>3 DEF Calls!TokenAttached, Calling, Places, Calls!NoToken
<1> QED
    BY <1>2, <1>3

\* The call q with its answer.
Answered(q, st) == [q EXCEPT !.pc = "answered", !.status = st]

LEMMA AnsweredSays ==
    ASSUME NEW q \in Calling, NEW st \in {200, 401, 403}
    PROVE  LET a == Answered(q, st) IN
           /\ a \in Calling /\ a.pc = "answered" /\ a.status = st /\ a.token = q.token
           /\ a.retried = q.retried
    BY ZenonT(40) DEF Answered, Calling, Places

LEMMA AfterTokenSays ==
    ASSUME NEW q \in Calling, NEW t \in Nat
    PROVE  LET a == Calls!AfterToken(q, t) IN
           /\ a \in Calling
           /\ q.pc # "awaitToken" => a = q
           /\ q.pc = "awaitToken" =>
                a.token \in {q.token, t}
           /\ q.pc = "awaitToken" /\ t # 0 =>
                /\ a.pc = "sent" /\ a.token = t /\ a.retried = q.retried
<1>1. CASE q.pc # "awaitToken"
    BY <1>1 DEF Calls!AfterToken
<1>2. CASE q.pc = "awaitToken" /\ q.retried /\ t = 0
    BY <1>2 DEF Calls!AfterToken, Calling, Places, Calls!NoToken
<1>3. CASE q.pc = "awaitToken" /\ ~(q.retried /\ t = 0)
    <2>1. Calls!AfterToken(q, t) = Calls!TokenAttached(q, t)
        BY <1>3 DEF Calls!AfterToken, Calls!NoToken
    <2> QED
        BY <1>3, <2>1, TokenAttachedSays
<1> QED
    BY <1>1, <1>2, <1>3

\* What a step that makes q of one call has to say of the token and its fetch.
Keeps(q) ==
    Gentle =>
        /\ CallInv(q)
        /\ csrfFetchPromise' # 0 => csrfToken' = 0
        /\ (serverToken = served /\ csrfToken' = 0) \/ csrfFetchPromise' = served =>
             /\ Fresh(q)
             /\ (serverToken = served /\ csrfToken = 0) \/ csrfFetchPromise = served

\* Steps that change one call, given what becomes of it, and the token or its fetch.
LEMMA OneCallStep ==
    ASSUME SessionInv, NEW r \in Requests, NEW q \in Calling,
           req' = [req EXCEPT ![r] = q],
           UNCHANGED <<serverToken, served, metaToken, sessionFaults>>,
           Since(csrfToken'), (csrfFetchPromise' = -1 \/ Since(csrfFetchPromise')),
           Since(q.token), Keeps(q)
    PROVE  SessionInv'
<1>1. req'[r] = q /\ \A s \in Requests : s # r => req'[s] = req[s]
    BY DEF SessionInv, SessionTypes
<1>2. SessionTypes'
    <2>1. req' \in [Requests -> Calling]
        BY DEF SessionInv, SessionTypes
    <2>2. \A s \in Requests : Since(req'[s].token)
        BY <1>1 DEF SessionInv, SessionTypes
    <2> QED
        BY <2>1, <2>2 DEF SessionInv, SessionTypes, Since
<1>3. HealInv'
    <2> SUFFICES ASSUME Gentle'
                 PROVE  /\ \A s \in Requests : CallInv(req[s])'
                        /\ csrfFetchPromise' # 0 => csrfToken' = 0
                        /\ (serverToken' = served' /\ csrfToken' = 0) \/ csrfFetchPromise' = served =>
                              \A s \in Requests : Fresh(req[s])'
        BY DEF HealInv, Fresh
    <2>1. Gentle
        BY DEF Gentle
    <2>2. \A s \in Requests : CallInv(req[s])'
        BY <1>1, <2>1 DEF SessionInv, HealInv, CallInv, Keeps
    <2>3. (serverToken' = served' /\ csrfToken' = 0) \/ csrfFetchPromise' = served => \A s \in Requests : Fresh(req[s])'
        BY <1>1, <2>1 DEF SessionInv, HealInv, Fresh, Keeps
    <2> QED
        BY <2>1, <2>2, <2>3 DEF Keeps
<1> QED
    BY <1>2, <1>3 DEF SessionInv

LEMMA SessionIssues ==
    ASSUME SessionInv, NEW r \in Requests, NEW unsafe \in BOOLEAN, NEW skip \in BOOLEAN,
           Calls!Issue(r, unsafe, skip)
    PROVE  SessionInv'
<1> DEFINE q == [Calls!NoRequest EXCEPT !.pc = "sent", !.unsafe = unsafe, !.skipAuthRedirect = skip]
<1>1. /\ q \in Calling /\ q.pc = "sent" /\ q.unsafe = unsafe /\ q.token = 0 /\ ~q.retried /\ q.status = 0
    BY DEF Calls!NoRequest, Calling, Places, Calls!NoToken
<1>2. /\ IF unsafe THEN Calls!EnsureCsrfToken(r, q)
         ELSE req' = [req EXCEPT ![r] = q] /\ UNCHANGED <<csrfToken, csrfFetchPromise>>
      /\ UNCHANGED <<serverToken, served, metaToken, sessionFaults>>
    BY DEF Calls!Issue
<1> HIDE DEF q
<1>3. SessionTypes /\ HealInv
    BY DEF SessionInv
<1>4. /\ serverToken \in Nat /\ served \in Nat \ {0} /\ served <= serverToken /\ metaToken \in {0, served} /\ Since(csrfToken)
      /\ (csrfFetchPromise = -1 \/ Since(csrfFetchPromise))
    BY <1>3 DEF SessionTypes
<1>5. CASE ~unsafe
    <2>1. CallInv(q) /\ Fresh(q)
        BY <1>1, <1>5 DEF CallInv, Fresh
    <2>2. Gentle => (csrfFetchPromise # 0 => csrfToken = 0)
        BY <1>3 DEF HealInv
    <2>3. Keeps(q)
        BY <1>2, <1>5, <2>1, <2>2 DEF Keeps
    <2>4. Since(q.token)
        BY <1>1, <1>4 DEF Since
    <2> QED
        BY <1>1, <1>2, <1>4, <1>5, <2>3, <2>4, OneCallStep
<1>6. ASSUME unsafe, NEW t \in Nat \ {0}, Since(t), req' = [req EXCEPT ![r] = Calls!TokenAttached(q, t)],
             csrfToken' = t, UNCHANGED csrfFetchPromise, Gentle => csrfToken = t
      PROVE  SessionInv'
    <2> DEFINE a == Calls!TokenAttached(q, t)
    <2>1. a \in Calling /\ a.pc = "sent" /\ ~a.retried /\ a.token = t
        BY <1>1, TokenAttachedSays
    <2> HIDE DEF a
    <2>2. CallInv(a)
        BY <2>1 DEF CallInv
    <2>3. req' = [req EXCEPT ![r] = a]
        BY <1>6 DEF a
    <2>4. Gentle => csrfToken' # 0 /\ csrfFetchPromise' = 0
        BY <1>3, <1>6 DEF HealInv
    <2>5. Since(csrfToken')
        BY <1>4, <1>6
    <2>6. Keeps(a)
        BY <1>4, <2>2, <2>4 DEF Keeps
    <2> QED
        BY <1>2, <1>4, <1>6, <2>1, <2>3, <2>5, <2>6, OneCallStep
<1>7. CASE unsafe /\ csrfToken # 0
    <2>1. req' = [req EXCEPT ![r] = Calls!TokenAttached(q, csrfToken)] /\ UNCHANGED <<csrfToken, csrfFetchPromise>>
        BY <1>2, <1>7 DEF Calls!EnsureCsrfToken, Calls!NoToken
    <2>2. csrfToken \in Nat \ {0} /\ Since(csrfToken)
        BY <1>4, <1>7 DEF Since
    <2> QED
        BY <1>6, <1>7, <2>1, <2>2
<1>8. CASE unsafe /\ csrfToken = 0 /\ metaToken # 0
    <2>1. /\ req' = [req EXCEPT ![r] = Calls!TokenAttached(q, metaToken)] /\ csrfToken' = metaToken
          /\ UNCHANGED csrfFetchPromise
        BY <1>2, <1>8 DEF Calls!EnsureCsrfToken, Calls!NoToken
    <2>2. metaToken \in Nat \ {0} /\ Since(metaToken) /\ ~Gentle
        BY <1>4, <1>8 DEF Gentle, Since
    <2> QED
        BY <1>6, <1>8, <2>1, <2>2
<1>9. CASE unsafe /\ csrfToken = 0 /\ metaToken = 0
    <2> DEFINE w == [q EXCEPT !.pc = "awaitToken"]
    <2>1. /\ req' = [req EXCEPT ![r] = w] /\ UNCHANGED csrfToken
          /\ csrfFetchPromise' = IF csrfFetchPromise = 0 THEN -1 ELSE csrfFetchPromise
        BY <1>2, <1>9 DEF Calls!EnsureCsrfToken, Calls!NoToken, Calls!Unread
    <2>2. w \in Calling /\ w.pc = "awaitToken" /\ ~w.retried /\ w.token = 0
        BY <1>1 DEF Calling, Places
    <2> HIDE DEF w
    <2>3. CallInv(w) /\ Fresh(w)
        BY <2>2 DEF CallInv, Fresh
    <2>4. (csrfFetchPromise' = -1 \/ Since(csrfFetchPromise')) /\ (csrfFetchPromise' = served => csrfFetchPromise = served)
        BY <1>4, <2>1
    <2>5. Keeps(w)
        BY <1>9, <2>1, <2>3, <2>4 DEF Keeps
    <2>6. Since(csrfToken') /\ Since(w.token)
        BY <1>4, <2>1, <2>2 DEF Since
    <2> QED
        BY <1>2, <2>1, <2>2, <2>4, <2>5, <2>6, OneCallStep
<1> QED
    BY <1>5, <1>7, <1>8, <1>9

\* A request on its way is answered or fails, and an answer reaches the caller.
LEMMA SessionAnswers ==
    ASSUME SessionInv, NEW r \in Requests,
           \/ Calls!ServerResponds(r) \/ Calls!OnSuccess(r) \/ Calls!OnUnauthorized(r) \/ Calls!OnOtherError(r)
    PROVE  SessionInv'
<1>1. SessionTypes /\ HealInv /\ req[r] \in Calling /\ Since(req[r].token)
    BY DEF SessionInv, SessionTypes
<1>2. /\ UNCHANGED <<serverToken, served, metaToken, sessionFaults, csrfToken, csrfFetchPromise>>
      /\ Since(csrfToken') /\ (csrfFetchPromise' = -1 \/ Since(csrfFetchPromise'))
    BY <1>1 DEF Calls!ServerResponds, Calls!OnSuccess, Calls!OnUnauthorized, Calls!OnOtherError, SessionTypes
<1>3. Gentle => /\ CallInv(req[r])
                /\ csrfFetchPromise' # 0 => csrfToken' = 0
                /\ (serverToken = served /\ csrfToken' = 0) \/ csrfFetchPromise' = served =>
                     /\ Fresh(req[r])
                     /\ (serverToken = served /\ csrfToken = 0) \/ csrfFetchPromise = served
    BY <1>1, <1>2 DEF HealInv
<1>4. CASE Calls!ServerResponds(r)
    <2> DEFINE st == Calls!ServerStatus(req[r])
    <2>1. st \in {200, 401, 403} /\ (st = 403 => req[r].unsafe /\ req[r].token # serverToken)
        BY DEF Calls!ServerStatus
    <2> DEFINE q == Answered(req[r], st)
    <2>2. req[r].pc = "sent" /\ req' = [req EXCEPT ![r] = q]
        BY <1>4 DEF Calls!ServerResponds, Answered
    <2> HIDE DEF st
    <2>3. /\ q \in Calling /\ q.pc = "answered" /\ q.status = st /\ q.token = req[r].token
          /\ q.retried = req[r].retried
        <3>1. st \in {200, 401, 403} /\ req[r] \in Calling
            BY <1>1, <2>1
        <3> QED
            BY <3>1, AnsweredSays
    <2> HIDE DEF q
    <2>4. ASSUME Gentle, st = 403 PROVE serverToken = served + 1 /\ ~req[r].retried /\ req[r].token # 0
        <3>1. req[r].token # 0 /\ req[r].token # serverToken
            BY <1>3, <2>1, <2>2, <2>4 DEF CallInv
        <3>2. /\ req[r].token \in Nat /\ serverToken \in Nat /\ served \in Nat
              /\ served <= req[r].token /\ req[r].token <= serverToken /\ serverToken <= served + 1
            BY <1>1, <2>4, <3>1 DEF Since, SessionTypes, Gentle
        <3>3. serverToken = served + 1
            BY <3>1, <3>2
        <3> QED
            BY <1>3, <2>2, <2>4, <3>1, <3>3 DEF CallInv
    <2>5. Gentle => CallInv(q)
        <3>1. Gentle => (req[r].retried => serverToken = served + 1)
            BY <1>3 DEF CallInv
        <3> QED
            BY <2>3, <2>4, <3>1 DEF CallInv
    <2>6. Gentle /\ Fresh(req[r]) => Fresh(q)
        BY <2>3, <2>4 DEF Fresh
    <2>7. Keeps(q)
        BY <1>2, <1>3, <2>5, <2>6 DEF Keeps
    <2> QED
        BY <1>1, <1>2, <2>2, <2>3, <2>7, OneCallStep
<1>5. CASE Calls!OnSuccess(r) \/ Calls!OnUnauthorized(r) \/ Calls!OnOtherError(r)
    <2>1. PICK where \in {"resolved", "suspended", "rejected"} :
              /\ req' = [req EXCEPT ![r].pc = where] /\ req[r].pc = "answered"
              /\ where = "rejected" => (req[r].status = 403 => req[r].retried)
        <3>1. CASE Calls!OnSuccess(r)
            BY <3>1 DEF Calls!OnSuccess
        <3>2. CASE Calls!OnUnauthorized(r)
            BY <3>2 DEF Calls!OnUnauthorized
        <3>3. CASE Calls!OnOtherError(r)
            BY <3>3 DEF Calls!OnOtherError
        <3> QED
            BY <1>5, <3>1, <3>2, <3>3
    <2> DEFINE q == [req[r] EXCEPT !.pc = where]
    <2>2. req' = [req EXCEPT ![r] = q]
        BY <2>1
    <2>3. /\ q \in Calling /\ q.pc = where /\ q.status = req[r].status /\ q.token = req[r].token
          /\ q.retried = req[r].retried /\ q.unsafe = req[r].unsafe
        BY <1>1 DEF Calling, Places
    <2> HIDE DEF q
    <2>4. Gentle => CallInv(q)
        BY <1>3, <2>1, <2>3 DEF CallInv
    <2>5. Fresh(req[r]) => Fresh(q)
        BY <2>1, <2>3 DEF Fresh
    <2>6. Keeps(q)
        BY <1>2, <1>3, <2>4, <2>5 DEF Keeps
    <2> QED
        BY <1>1, <1>2, <2>2, <2>3, <2>6, OneCallStep
<1> QED
    BY <1>4, <1>5

\* A refusal for the token forgets it and sends the call once more.
LEMMA SessionRetries ==
    ASSUME SessionInv, NEW r \in Requests, Calls!OnForbidden(r)
    PROVE  SessionInv'
<1> DEFINE q == [req[r] EXCEPT !.retried = TRUE]
<1>1. SessionTypes /\ HealInv /\ req[r] \in Calling /\ Since(req[r].token)
    BY DEF SessionInv, SessionTypes
<1>2. /\ serverToken \in Nat /\ served \in Nat \ {0} /\ served <= serverToken /\ metaToken \in {0, served} /\ Since(csrfToken)
      /\ (csrfFetchPromise = -1 \/ Since(csrfFetchPromise))
    BY <1>1 DEF SessionTypes
<1>3. /\ req[r].pc = "answered" /\ req[r].status = 403 /\ ~req[r].retried
      /\ UNCHANGED <<serverToken, served, metaToken, sessionFaults>>
      /\ IF metaToken # 0
         THEN /\ csrfToken' = metaToken
              /\ req' = [req EXCEPT ![r] = Calls!TokenAttached(q, metaToken)]
              /\ UNCHANGED csrfFetchPromise
         ELSE /\ csrfToken' = 0
              /\ csrfFetchPromise' = IF csrfFetchPromise = 0 THEN -1 ELSE csrfFetchPromise
              /\ req' = [req EXCEPT ![r] = [q EXCEPT !.pc = "awaitToken"]]
    BY DEF Calls!OnForbidden, Calls!NoToken, Calls!Unread
<1>4. q \in Calling /\ q.token = req[r].token /\ q.retried
    BY <1>1 DEF Calling
<1> HIDE DEF q
<1>5. CASE metaToken # 0
    <2> DEFINE a == Calls!TokenAttached(q, metaToken)
    <2>1. a \in Calling /\ a.token = metaToken
        BY <1>2, <1>4, <1>5, TokenAttachedSays
    <2> HIDE DEF a
    <2>2. req' = [req EXCEPT ![r] = a] /\ csrfToken' = metaToken /\ UNCHANGED csrfFetchPromise
        BY <1>3, <1>5 DEF a
    <2>3. ~Gentle /\ Since(metaToken) /\ Since(csrfToken')
        BY <1>2, <1>5, <2>2 DEF Gentle, Since
    <2>4. Keeps(a) /\ Since(a.token)
        BY <2>1, <2>3 DEF Keeps
    <2>5. (csrfFetchPromise' = -1 \/ Since(csrfFetchPromise'))
        BY <1>2, <2>2
    <2> QED
        BY <1>3, <2>1, <2>2, <2>3, <2>4, <2>5, OneCallStep
<1>6. CASE metaToken = 0
    <2> DEFINE w == [q EXCEPT !.pc = "awaitToken"]
    <2>1. w \in Calling /\ w.pc = "awaitToken" /\ w.token = req[r].token
        BY <1>4 DEF Calling, Places
    <2>2. req' = [req EXCEPT ![r] = w] /\ csrfToken' = 0
        BY <1>3, <1>6
    <2> HIDE DEF w
    <2>3. (csrfFetchPromise' = -1 \/ Since(csrfFetchPromise')) /\ (csrfFetchPromise' = served => csrfFetchPromise = served)
        BY <1>2, <1>3, <1>6
    <2>4. Gentle => serverToken = served + 1 /\ csrfFetchPromise # served
        BY <1>1, <1>3 DEF HealInv, CallInv, Fresh
    <2>5. Gentle => CallInv(w)
        BY <2>1, <2>4 DEF CallInv
    <2>6. Since(csrfToken') /\ Since(w.token)
        BY <1>1, <1>2, <2>1, <2>2 DEF Since
    <2>7. Keeps(w)
        BY <1>2, <2>2, <2>3, <2>4, <2>5 DEF Keeps
    <2> QED
        BY <1>3, <2>1, <2>2, <2>3, <2>6, <2>7, OneCallStep
<1> QED
    BY <1>5, <1>6

\* The shared fetch of the token ends.
LEMMA SessionTokens ==
    ASSUME SessionInv, Calls!TokenArrives \/ Calls!TokenFetchFails \/ Calls!ServerGivesToken
    PROVE  SessionInv'
<1>1. SessionTypes /\ HealInv
    BY DEF SessionInv
<1>2. /\ serverToken \in Nat /\ served \in Nat \ {0} /\ served <= serverToken /\ metaToken \in {0, served} /\ Since(csrfToken)
      /\ (csrfFetchPromise = -1 \/ Since(csrfFetchPromise)) /\ sessionFaults \in Nat
      /\ \A r \in Requests : req[r] \in Calling /\ req[r].token \in Nat /\ Since(req[r].token)
      /\ req \in [Requests -> Calling]
    BY <1>1 DEF SessionTypes, Calling
<1>3. ASSUME NEW t \in Nat, Since(t), req' = [r \in Requests |-> Calls!AfterToken(req[r], t)]
      PROVE  req' \in [Requests -> Calling] /\ \A r \in Requests : Since(req'[r].token)
    <2>1. t \in Nat /\ Since(t)
        BY <1>3
    <2>2. \A r \in Requests : /\ Calls!AfterToken(req[r], t) \in Calling
                              /\ Calls!AfterToken(req[r], t).token \in {req[r].token, t}
        BY <1>2, <2>1, AfterTokenSays
    <2> QED
        BY <1>2, <1>3, <2>1, <2>2
<1>4. CASE Calls!TokenArrives
    <2>1. /\ csrfFetchPromise > 0 /\ csrfToken' = csrfFetchPromise /\ csrfFetchPromise' = 0
          /\ req' = [r \in Requests |-> Calls!AfterToken(req[r], csrfFetchPromise)]
          /\ UNCHANGED <<serverToken, served, metaToken, sessionFaults>>
        BY <1>4 DEF Calls!TokenArrives, Calls!NoToken
    <2>2. csrfFetchPromise \in Nat \ {0} /\ Since(csrfFetchPromise) /\ served <= csrfFetchPromise
        BY <1>2, <2>1 DEF Since
    <2>3. SessionTypes'
        BY <1>2, <1>3, <2>1, <2>2 DEF SessionTypes, Since
    <2>4. HealInv'
        <3> SUFFICES ASSUME Gentle', NEW r \in Requests PROVE CallInv(req[r])'
            BY <1>2, <2>1, <2>2 DEF HealInv
        <3>1. Gentle
            BY <2>1 DEF Gentle
        <3>2. /\ req'[r] = Calls!AfterToken(req[r], csrfFetchPromise) /\ req[r] \in Calling
              /\ csrfFetchPromise \in Nat /\ csrfFetchPromise # 0
            BY <1>2, <2>1, <2>2
        <3>3. /\ req[r].pc # "awaitToken" => req'[r] = req[r]
              /\ req[r].pc = "awaitToken" =>
                   /\ req'[r].pc = "sent" /\ req'[r].token = csrfFetchPromise
                   /\ req'[r].retried = req[r].retried
            BY <3>2, AfterTokenSays
        <3>4. CallInv(req[r]) /\ (csrfFetchPromise = served => Fresh(req[r]))
            BY <1>1, <3>1 DEF HealInv
        <3>5. CASE req[r].pc # "awaitToken"
            BY <2>1, <3>3, <3>4, <3>5 DEF CallInv
        <3>6. CASE req[r].pc = "awaitToken"
            <4>1. req[r].retried => serverToken = served + 1 /\ csrfFetchPromise # served
                BY <3>4 DEF CallInv, Fresh
            <4>2. req[r].retried => csrfFetchPromise = serverToken
                BY <1>2, <2>2, <4>1 DEF Since
            <4> QED
                BY <2>1, <3>2, <3>3, <3>6, <4>1, <4>2 DEF CallInv
        <3> QED
            BY <3>5, <3>6
    <2> QED
        BY <2>3, <2>4 DEF SessionInv
<1>5. CASE Calls!TokenFetchFails
    <2>1. /\ csrfFetchPromise' = 0 /\ sessionFaults' = sessionFaults + 1
          /\ req' = [r \in Requests |-> Calls!AfterToken(req[r], csrfToken)]
          /\ UNCHANGED <<serverToken, served, metaToken, csrfToken>>
        BY <1>5 DEF Calls!TokenFetchFails, Calls!NoToken
    <2>2. SessionTypes'
        BY <1>2, <1>3, <2>1 DEF SessionTypes, Since
    <2>3. ~Gentle'
        BY <1>2, <2>1 DEF Gentle
    <2> QED
        BY <2>2, <2>3 DEF SessionInv, HealInv
<1>6. CASE Calls!ServerGivesToken
    <2>1. /\ csrfFetchPromise = -1 /\ csrfFetchPromise' = serverToken
          /\ UNCHANGED <<serverToken, served, metaToken, csrfToken, req, sessionFaults>>
        BY <1>6 DEF Calls!ServerGivesToken, Calls!Unread
    <2>2. SessionTypes'
        BY <1>2, <2>1 DEF SessionTypes, Since
    <2>3. HealInv'
        <3> SUFFICES ASSUME Gentle'
                     PROVE  /\ \A r \in Requests : CallInv(req[r])'
                            /\ csrfFetchPromise' # 0 => csrfToken' = 0
                            /\ (serverToken' = served' /\ csrfToken' = 0) \/ csrfFetchPromise' = served' =>
                                  \A r \in Requests : Fresh(req[r])'
            BY DEF HealInv, Fresh
        <3>1. Gentle
            BY <2>1 DEF Gentle
        <3>2. \A r \in Requests : CallInv(req[r])'
            BY <1>1, <2>1, <3>1 DEF HealInv, CallInv
        <3>3. csrfToken = 0
            BY <1>1, <2>1, <3>1 DEF HealInv
        <3>4. serverToken = served => \A r \in Requests : Fresh(req[r])'
            BY <1>1, <2>1, <3>1, <3>3 DEF HealInv, Fresh
        <3> QED
            BY <2>1, <3>2, <3>3, <3>4
    <2> QED
        BY <2>2, <2>3 DEF SessionInv
<1> QED
    BY <1>4, <1>5, <1>6

\* A lost request, a session that is replaced, and steps that touch no call.
LEMMA SessionFails ==
    ASSUME SessionInv, NEW r \in Requests, Calls!RequestFails(r)
    PROVE  SessionInv'
<1>1. /\ req' = [req EXCEPT ![r].pc = "rejected"] /\ sessionFaults' = sessionFaults + 1
      /\ UNCHANGED <<serverToken, served, metaToken, csrfToken, csrfFetchPromise>>
    BY DEF Calls!RequestFails
<1>2. SessionTypes
    BY DEF SessionInv
<1>3. req' \in [Requests -> Calling] /\ \A s \in Requests : req'[s].token = req[s].token
    BY <1>1, <1>2 DEF SessionTypes, Calling, Places
<1>4. SessionTypes'
    BY <1>1, <1>2, <1>3 DEF SessionTypes, Since
<1>5. ~Gentle'
    BY <1>1, <1>2 DEF Gentle, SessionTypes
<1> QED
    BY <1>4, <1>5 DEF SessionInv, HealInv

LEMMA SessionReplaced == ASSUME SessionInv, Calls!OtherTabLogsIn PROVE SessionInv'
<1>1. /\ serverToken' = serverToken + 1
      /\ UNCHANGED <<served, metaToken, csrfToken, csrfFetchPromise, req, sessionFaults>>
    BY DEF Calls!OtherTabLogsIn
<1>2. /\ SessionTypes /\ HealInv /\ serverToken \in Nat /\ served \in Nat \ {0} /\ served <= serverToken
      /\ serverToken' \in Nat /\ serverToken <= serverToken' /\ served <= serverToken'
    BY <1>1 DEF SessionInv, SessionTypes
<1>3. SessionTypes'
    <2>1. ASSUME NEW t, Since(t) PROVE t \in Nat /\ t <= serverToken' /\ (t = 0 \/ served <= t)
        BY <1>2, <2>1 DEF Since
    <2>2. Since(csrfToken)' /\ (csrfFetchPromise' = -1 \/ Since(csrfFetchPromise)')
        BY <1>1, <1>2, <2>1 DEF SessionTypes, Since
    <2>3. \A r \in Requests : Since(req[r].token)'
        BY <1>1, <1>2, <2>1 DEF SessionTypes, Since
    <2> QED
        BY <1>1, <1>2, <2>2, <2>3 DEF SessionTypes
<1>4. HealInv'
    <2> SUFFICES ASSUME Gentle'
                 PROVE  /\ \A r \in Requests : CallInv(req[r])'
                        /\ csrfFetchPromise' # 0 => csrfToken' = 0
                        /\ csrfFetchPromise' = served' => \A r \in Requests : Fresh(req[r])'
        BY <1>1, <1>2 DEF HealInv, Fresh
    <2>1. Gentle /\ serverToken = served
        BY <1>1, <1>2 DEF Gentle
    <2>2. \A r \in Requests : CallInv(req[r])'
        <3>1. ASSUME NEW r \in Requests PROVE ~req[r].retried /\ ~(req[r].pc = "answered" /\ req[r].status = 403)
            BY <1>2, <2>1 DEF HealInv, CallInv
        <3> QED
            BY <1>1, <1>2, <2>1, <3>1 DEF HealInv, CallInv
    <2>3. csrfFetchPromise = served => \A r \in Requests : Fresh(req[r])'
        BY <1>1, <1>2, <2>1 DEF HealInv, Fresh
    <2> QED
        BY <1>1, <1>2, <2>1, <2>2, <2>3 DEF HealInv
<1> QED
    BY <1>3, <1>4 DEF SessionInv

\* A reload starts over, with the session's token or with none.
LEMMA SessionReloads == ASSUME SessionInv, Calls!Reload PROVE SessionInv'
<1>1. /\ served' = serverToken /\ metaToken' \in {0, serverToken} /\ csrfToken' = metaToken'
      /\ csrfFetchPromise' = 0 /\ req' = [r \in Requests |-> Calls!NoRequest]
      /\ UNCHANGED <<serverToken, sessionFaults>>
    BY DEF Calls!Reload, Calls!NoToken
<1>2. serverToken \in Nat \ {0} /\ sessionFaults \in Nat
    BY DEF SessionInv, SessionTypes
<1>3. /\ Calls!NoRequest \in Calling /\ Calls!NoRequest.token = 0
      /\ CallInv(Calls!NoRequest)' /\ Fresh(Calls!NoRequest)'
    BY DEF Calls!NoRequest, Calling, Places, Calls!NoToken, CallInv, Fresh
<1>4. SessionTypes'
    BY <1>1, <1>2, <1>3 DEF SessionTypes, Since
<1>5. HealInv'
    <2>1. \A r \in Requests : req'[r] = Calls!NoRequest
        BY <1>1
    <2>2. \A r \in Requests : CallInv(req[r])' /\ Fresh(req[r])'
        BY <1>3, <2>1 DEF CallInv, Fresh
    <2> QED
        BY <1>1, <2>2 DEF HealInv, Fresh
<1> QED
    BY <1>4, <1>5 DEF SessionInv

LEMMA SessionFrame ==
    ASSUME SessionInv, UNCHANGED <<serverToken, served, metaToken, csrfToken, csrfFetchPromise, req, sessionFaults>>
    PROVE  SessionInv'
<1>1. SessionTypes'
    BY DEF SessionInv, SessionTypes, Since
<1>2. HealInv'
    BY DEF SessionInv, HealInv, Gentle, CallInv, Fresh
<1> QED
    BY <1>1, <1>2 DEF SessionInv

LEMMA SessionStep == ASSUME SessionInv, Calls!Next PROVE SessionInv'
<1>1. CASE \E r \in Requests, unsafe, skip \in BOOLEAN : Calls!Issue(r, unsafe, skip)
    BY <1>1, SessionIssues
<1>2. CASE \E r \in Requests : \/ Calls!ServerResponds(r) \/ Calls!OnSuccess(r)
                               \/ Calls!OnUnauthorized(r) \/ Calls!OnOtherError(r)
    BY <1>2, SessionAnswers
<1>3. CASE \E r \in Requests : Calls!OnForbidden(r)
    BY <1>3, SessionRetries
<1>4. CASE \E r \in Requests : Calls!RequestFails(r)
    BY <1>4, SessionFails
<1>5. CASE Calls!SessionEnds \/ Calls!Submit \/ Calls!TwoFactorProbed \/ \E b \in BOOLEAN : Calls!LoginReturns(b)
    BY <1>5, SessionFrame DEF Calls!SessionEnds, Calls!Submit, Calls!TwoFactorProbed, Calls!LoginReturns
<1> QED
    BY <1>1, <1>2, <1>3, <1>4, <1>5, SessionTokens, SessionReplaced, SessionReloads DEF Calls!Next, Calls!Progress

\* A page that has its token in a meta tag sends that one with every call, so a call
\* is refused for it only after the session was replaced.
MetaOk(q) ==
    /\ q.pc # "awaitToken"
    /\ q.pc = "sent" /\ q.unsafe => q.token = metaToken
    /\ q.status = 403 => served < serverToken

MetaInv ==
    metaToken # 0 =>
        /\ csrfToken = metaToken /\ csrfFetchPromise = 0
        /\ \A r \in Requests : MetaOk(req[r])

LEMMA InitMeta == ASSUME Calls!Init PROVE MetaInv
<1>1. MetaOk(Calls!NoRequest)
    BY DEF Calls!NoRequest, MetaOk, Calls!NoToken
<1> QED
    BY <1>1 DEF Calls!Init, MetaInv, Calls!NoToken

\* Such a page never asks for a token.
LEMMA MetaAttached ==
    ASSUME NEW q \in Calling, metaToken # 0, metaToken \in Nat, q.status = 403 => served < serverToken
    PROVE  MetaOk(Calls!TokenAttached(q, metaToken))
<1>1. /\ Calls!TokenAttached(q, metaToken).pc = "sent" /\ Calls!TokenAttached(q, metaToken).status = q.status
      /\ Calls!TokenAttached(q, metaToken).token = metaToken
    BY TokenAttachedSays
<1> QED
    BY <1>1 DEF MetaOk

\* A step that changes one call of such a page, to one that says the same.
LEMMA MetaCallStep ==
    ASSUME SessionInv, MetaInv, NEW r \in Requests, NEW q, req' = [req EXCEPT ![r] = q],
           UNCHANGED <<serverToken, served, metaToken>>,
           metaToken # 0 => csrfToken' = metaToken /\ csrfFetchPromise' = 0 /\ MetaOk(q)
    PROVE  MetaInv'
<1>1. req'[r] = q /\ \A s \in Requests : s # r => req'[s] = req[s]
    BY DEF SessionInv, SessionTypes
<1> QED
    BY <1>1 DEF MetaInv, MetaOk

LEMMA MetaFrame ==
    ASSUME MetaInv, UNCHANGED <<serverToken, served, metaToken, csrfToken, csrfFetchPromise, req>>
    PROVE  MetaInv'
    BY DEF MetaInv, MetaOk

LEMMA MetaStep == ASSUME SessionInv, MetaInv, Calls!Next PROVE MetaInv'
<1>1. /\ serverToken \in Nat /\ served \in Nat /\ metaToken \in {0, served} /\ metaToken \in Nat
      /\ served <= serverToken
      /\ \A r \in Requests : req[r] \in Calling
      /\ metaToken # 0 => csrfToken = metaToken /\ csrfFetchPromise = 0 /\ \A r \in Requests : MetaOk(req[r])
    BY DEF SessionInv, SessionTypes, MetaInv
<1>2. ASSUME NEW r \in Requests, NEW unsafe \in BOOLEAN, NEW skip \in BOOLEAN, Calls!Issue(r, unsafe, skip)
      PROVE  MetaInv'
    <2> DEFINE q == [Calls!NoRequest EXCEPT !.pc = "sent", !.unsafe = unsafe, !.skipAuthRedirect = skip]
    <2>1. q \in Calling /\ q.pc = "sent" /\ q.unsafe = unsafe /\ q.status = 0
        BY DEF Calls!NoRequest, Calling, Places, Calls!NoToken
    <2>2. /\ IF unsafe THEN Calls!EnsureCsrfToken(r, q)
             ELSE req' = [req EXCEPT ![r] = q] /\ UNCHANGED <<csrfToken, csrfFetchPromise>>
          /\ UNCHANGED <<serverToken, served, metaToken>>
        BY <1>2 DEF Calls!Issue
    <2> HIDE DEF q
    <2>3. CASE metaToken = 0
        BY <2>2, <2>3 DEF MetaInv
    <2>4. CASE metaToken # 0 /\ unsafe
        <3>1. req' = [req EXCEPT ![r] = Calls!TokenAttached(q, metaToken)] /\ UNCHANGED <<csrfToken, csrfFetchPromise>>
            BY <1>1, <2>2, <2>4 DEF Calls!EnsureCsrfToken, Calls!NoToken
        <3>2. MetaOk(Calls!TokenAttached(q, metaToken))
            BY <1>1, <2>1, <2>4, MetaAttached
        <3> QED
            BY <1>1, <2>2, <3>1, <3>2, MetaCallStep
    <2>5. CASE metaToken # 0 /\ ~unsafe
        <3>1. MetaOk(q)
            BY <2>1, <2>5 DEF MetaOk
        <3> QED
            BY <1>1, <2>2, <2>5, <3>1, MetaCallStep
    <2> QED
        BY <2>3, <2>4, <2>5
<1>3. ASSUME NEW r \in Requests, Calls!ServerResponds(r)
      PROVE  MetaInv'
    <2> DEFINE st == Calls!ServerStatus(req[r])
    <2>1. st \in {200, 401, 403} /\ (st = 403 => req[r].unsafe /\ req[r].token # serverToken)
        BY DEF Calls!ServerStatus
    <2>2. /\ req[r].pc = "sent" /\ req' = [req EXCEPT ![r] = Answered(req[r], st)]
          /\ UNCHANGED <<serverToken, served, metaToken, csrfToken, csrfFetchPromise>>
        BY <1>3 DEF Calls!ServerResponds, Answered
    <2> HIDE DEF st
    <2>3. Answered(req[r], st).pc = "answered" /\ Answered(req[r], st).status = st
        BY <1>1, <2>1, AnsweredSays
    <2>4. metaToken # 0 => MetaOk(Answered(req[r], st))
        <3> SUFFICES ASSUME metaToken # 0, st = 403 PROVE served < serverToken
            BY <2>3 DEF MetaOk
        <3>1. req[r].token = served /\ served # serverToken
            BY <1>1, <2>1, <2>2 DEF MetaOk
        <3> QED
            BY <1>1, <3>1
    <2> QED
        BY <1>1, <2>2, <2>4, MetaCallStep
<1>4. ASSUME NEW r \in Requests, Calls!OnForbidden(r)
      PROVE  MetaInv'
    <2> DEFINE q == [req[r] EXCEPT !.retried = TRUE]
    <2>1. q \in Calling /\ q.status = req[r].status
        <3>1. req[r] \in Calling
            BY <1>1
        <3> QED
            BY <3>1 DEF Calling
    <2>2. /\ metaToken # 0 => /\ csrfToken' = metaToken /\ UNCHANGED csrfFetchPromise
                              /\ req' = [req EXCEPT ![r] = Calls!TokenAttached(q, metaToken)]
          /\ UNCHANGED <<serverToken, served, metaToken>>
        BY <1>4 DEF Calls!OnForbidden, Calls!NoToken
    <2> HIDE DEF q
    <2>3. CASE metaToken = 0
        BY <2>2, <2>3 DEF MetaInv
    <2>4. CASE metaToken # 0
        <3>1. MetaOk(Calls!TokenAttached(q, metaToken))
            <4>0. MetaOk(req[r])
                BY <1>1, <2>4, Zenon
            <4>1. q.status = 403 => served < serverToken
                BY <2>1, <4>0 DEF MetaOk
            <4> QED
                BY <1>1, <2>1, <2>4, <4>1, MetaAttached
        <3> QED
            BY <1>1, <2>2, <2>4, <3>1, MetaCallStep
    <2> QED
        BY <2>3, <2>4
<1>5. ASSUME NEW r \in Requests,
             Calls!OnSuccess(r) \/ Calls!OnUnauthorized(r) \/ Calls!OnOtherError(r) \/ Calls!RequestFails(r)
      PROVE  MetaInv'
    <2>1. PICK where \in {"resolved", "suspended", "rejected"} :
              /\ req' = [req EXCEPT ![r].pc = where]
              /\ UNCHANGED <<serverToken, served, metaToken, csrfToken, csrfFetchPromise>>
        BY <1>5 DEF Calls!OnSuccess, Calls!OnUnauthorized, Calls!OnOtherError, Calls!RequestFails
    <2> DEFINE q == [req[r] EXCEPT !.pc = where]
    <2>2. req' = [req EXCEPT ![r] = q]
        BY <2>1
    <2>3. q.pc = where /\ q.status = req[r].status
        BY <1>1 DEF Calling
    <2> HIDE DEF q
    <2>4. metaToken # 0 => MetaOk(q)
        BY <1>1, <2>3 DEF MetaOk
    <2> QED
        BY <1>1, <2>1, <2>2, <2>4, MetaCallStep
<1>6. CASE Calls!TokenArrives \/ Calls!TokenFetchFails \/ Calls!ServerGivesToken
    <2>1. metaToken' = metaToken /\ csrfFetchPromise # 0
        BY <1>6 DEF Calls!TokenArrives, Calls!TokenFetchFails, Calls!ServerGivesToken, Calls!NoToken, Calls!Unread
    <2> QED
        BY <2>1 DEF MetaInv
<1>7. CASE Calls!OtherTabLogsIn
    <2>1. serverToken' = serverToken + 1 /\ UNCHANGED <<served, metaToken, csrfToken, csrfFetchPromise, req>>
        BY <1>7 DEF Calls!OtherTabLogsIn
    <2>2. served < serverToken'
        BY <1>1, <2>1
    <2> QED
        BY <2>1, <2>2 DEF MetaInv, MetaOk
<1>8. CASE Calls!Reload
    <2>1. csrfToken' = metaToken' /\ csrfFetchPromise' = 0 /\ req' = [r \in Requests |-> Calls!NoRequest]
        BY <1>8 DEF Calls!Reload, Calls!NoToken
    <2>2. MetaOk(Calls!NoRequest)'
        BY DEF Calls!NoRequest, MetaOk, Calls!NoToken
    <2> QED
        BY <2>1, <2>2 DEF MetaInv, MetaOk
<1>9. CASE Calls!SessionEnds \/ Calls!Submit \/ Calls!TwoFactorProbed \/ \E b \in BOOLEAN : Calls!LoginReturns(b)
    BY <1>9, MetaFrame DEF Calls!SessionEnds, Calls!Submit, Calls!TwoFactorProbed, Calls!LoginReturns
<1> QED
    BY <1>2, <1>3, <1>4, <1>5, <1>6, <1>7, <1>8, <1>9 DEF Calls!Next, Calls!Progress

\* What the invariants are for.
LEMMA SessionSays == ASSUME SessionInv, MetaInv PROVE Calls!TypeOK /\ Calls!OnlyReplacedIsRefused
<1>1. Calls!TypeOK
    <2>1. \A r \in Requests : req[r].pc \in Places /\ req[r].token \in 0..serverToken
        BY DEF SessionInv, SessionTypes, Calling, Since
    <2> QED
        BY <2>1 DEF SessionInv, SessionTypes, Calls!TypeOK, Places, Calls!NoToken, Calls!Unread, Since
<1>2. CASE metaToken = 0
    <2>1. sessionFaults = 0 /\ serverToken <= served + 1 =>
            \A r \in Requests : ~(req[r].pc = "rejected" /\ req[r].status = 403)
        BY <1>2 DEF SessionInv, HealInv, Gentle, CallInv
    <2>2. Calls!Heals = 1
        BY <1>2 DEF Calls!Heals, Calls!NoToken
    <2> QED
        BY <1>1, <1>2, <2>1, <2>2 DEF Calls!OnlyReplacedIsRefused, Calls!NoToken
<1>3. CASE metaToken # 0
    <2>1. serverToken <= served => \A r \in Requests : req[r].status # 403
        BY <1>3 DEF SessionInv, SessionTypes, MetaInv, MetaOk
    <2>2. served + 0 = served
        BY DEF SessionInv, SessionTypes
    <2>3. Calls!Heals = 0
        BY <1>3 DEF Calls!Heals, Calls!NoToken
    <2> QED
        BY <1>1, <2>1, <2>2, <2>3 DEF Calls!OnlyReplacedIsRefused
<1> QED
    BY <1>1, <1>2, <1>3

-----------------------------------------------------------------------------
(* The socket *)

\* The bounds are natural numbers.
SocketBounded == MaxSockets \in Nat /\ MaxMessages \in Nat /\ maxReconnectAttempts \in Nat

SocketMessage == [type : Socket!Events, serial : 1..MaxMessages, form : {"ok", "malformed", "tooLarge"}]

\* What TypeOK leaves out.
SocketTypes ==
    /\ Socket!TypeOK
    /\ sent \in [Socket!Sockets -> Seq(SocketMessage)]
    /\ serial \in 0..MaxMessages
    /\ shouldReconnect \in BOOLEAN /\ isConnected \in BOOLEAN

\* Sockets are made one after the other, and nothing is sent to one before.
MadeInv ==
    /\ \E n \in 0..MaxSockets : Socket!Made = 1..n
    /\ \A s \in Socket!Sockets \ Socket!Made : sent[s] = <<>>
    /\ ws # Socket!NoSocket => ws \in Socket!Made

\* The object holds the only live socket; while the reconnect timer is armed there
\* is none, so the socket it opens stays alone.
AloneInv ==
    /\ Socket!OneLiveSocket
    /\ reconnectTimer # 0 => Socket!Live = {}
    /\ Socket!NeverStranded

\* What is on its way to the socket held is newer than what was handed on, in the
\* order it was sent.
OrderInv ==
    /\ \A e \in Socket!Events : received[e] <= serial
    /\ ws # Socket!NoSocket =>
        /\ \A i \in 1..Len(sent[ws]) :
            /\ sent[ws][i].serial <= serial
            /\ \A e \in Socket!Events : received[e] < sent[ws][i].serial
        /\ \A i, j \in 1..Len(sent[ws]) : i < j => sent[ws][i].serial < sent[ws][j].serial

\* The timer keeps the newest message; without one it has been dispatched.
EmitInv ==
    /\ \A e \in Socket!Events : dispatched[e] <= received[e]
    /\ \A e \in Socket!ThrottledEvents :
        throttledEmits[e].timer => /\ throttledEmits[e].lastArgs = received[e]
                                   /\ received[e] > 0
    /\ Socket!LatestDispatched

SocketInv == SocketTypes /\ MadeInv /\ AloneInv /\ OrderInv /\ EmitInv

-----------------------------------------------------------------------------
(* The sockets *)

\* A delay is never zero, so an armed timer is seen as armed.
LEMMA DelayIsPositive ==
    ASSUME SocketBounded, NEW a \in 0..maxReconnectAttempts
    PROVE  Socket!BaseDelay(a) # 0
<1>1. a = 0 \/ a = 1 \/ a = 2 \/ a = 3 \/ a = 4 \/ a >= 5
    BY DEF SocketBounded
<1> QED
    BY <1>1 DEF Socket!BaseDelay

\* Scheduling a reconnect arms the timer.
LEMMA ScheduleSays ==
    ASSUME SocketBounded, reconnectAttempts \in 0..maxReconnectAttempts, Socket!ScheduleReconnect
    PROVE  /\ reconnectTimer' # 0
           /\ reconnectTimer' \in {0, 60000} \cup {Socket!BaseDelay(a) : a \in 0..maxReconnectAttempts}
           /\ reconnectAttempts' \in 0..maxReconnectAttempts
<1>1. Socket!BaseDelay(reconnectAttempts) # 0
    BY DelayIsPositive
<1> QED
    BY <1>1 DEF Socket!ScheduleReconnect, SocketBounded

\* Cardinality is the same operator in the instance.
LEMMA SameCardinality == \A S : Socket!Cardinality(S) = Cardinality(S)
    BY DEF Socket!Cardinality, Cardinality

\* The socket that is opened is a new one, and nothing has been sent to it.
LEMMA OpenSays ==
    ASSUME SocketBounded, SocketTypes, MadeInv, Socket!OpenSocket
    PROVE  /\ ws' \in Socket!Sockets \ Socket!Made
           /\ readyState' = [readyState EXCEPT ![ws'] = "connecting"]
           /\ \E n \in 0..MaxSockets : Socket!Made' = 1..n
           /\ Socket!Made' = Socket!Made \cup {ws'}
           /\ sent[ws'] = <<>>
<1>1. PICK n \in 0..MaxSockets : Socket!Made = 1..n
    BY DEF MadeInv
<1>2. Socket!Cardinality(1..n) = n
    <2>1. n \in Int /\ 1 \in Int /\ n \in Nat
        BY DEF SocketBounded
    <2> QED
        BY <2>1, FS_Interval, SameCardinality
<1>3. PICK s \in Socket!Sockets : s = n + 1 /\ ws' = s /\ readyState' = [readyState EXCEPT ![s] = "connecting"]
    BY <1>1, <1>2 DEF Socket!OpenSocket
<1>4. s \notin Socket!Made
    BY <1>1, <1>3 DEF SocketBounded
<1>5. Socket!Made' = Socket!Made \cup {s}
    BY <1>3 DEF Socket!Made, SocketTypes, Socket!TypeOK
<1>6. Socket!Made' = 1..(n + 1) /\ n + 1 \in 0..MaxSockets
    BY <1>1, <1>3, <1>5 DEF SocketBounded, Socket!Sockets
<1> QED
    BY <1>3, <1>4, <1>5, <1>6 DEF MadeInv

-----------------------------------------------------------------------------
LEMMA InitSocket == ASSUME SocketBounded, Socket!Init PROVE SocketInv
<1>1. SocketTypes
    <2>1. sent \in [Socket!Sockets -> Seq(SocketMessage)]
        BY DEF Socket!Init
    <2>2. /\ ws \in Socket!Sockets \cup {Socket!NoSocket}
          /\ readyState \in [Socket!Sockets -> {"none", "connecting", "open", "closing", "closed"}]
          /\ reconnectTimer \in {0, 60000} \cup {Socket!BaseDelay(a) : a \in 0..maxReconnectAttempts}
          /\ reconnectAttempts \in 0..maxReconnectAttempts
        BY DEF Socket!Init, SocketBounded
    <2>3. /\ throttledEmits \in [Socket!ThrottledEvents -> [timer : BOOLEAN, lastArgs : 0..MaxMessages]]
          /\ received \in [Socket!Events -> 0..MaxMessages]
          /\ dispatched \in [Socket!Events -> 0..MaxMessages]
          /\ serial \in 0..MaxMessages
        BY DEF Socket!Init, SocketBounded
    <2>4. shouldReconnect \in BOOLEAN /\ isConnected \in BOOLEAN
        BY DEF Socket!Init
    <2> QED
        BY <2>1, <2>2, <2>3, <2>4 DEF SocketTypes, Socket!TypeOK
<1>2. Socket!Made = {} /\ Socket!Live = {}
    BY DEF Socket!Init, Socket!Made, Socket!Live
<1>3. MadeInv
    <2>1. Socket!Made = 1..0 /\ 0 \in 0..MaxSockets
        BY <1>2 DEF SocketBounded
    <2> QED
        BY <1>2, <2>1 DEF MadeInv, Socket!Init
<1>4. AloneInv
    BY <1>2 DEF AloneInv, Socket!OneLiveSocket, Socket!NeverStranded
<1>5. OrderInv /\ EmitInv
    BY DEF Socket!Init, OrderInv, EmitInv, Socket!LatestDispatched, Socket!Events
<1> QED
    BY <1>1, <1>3, <1>4, <1>5 DEF SocketInv

\* A step that leaves the sockets' states alone leaves them numbered as they were.
LEMMA SameSockets ==
    ASSUME UNCHANGED readyState
    PROVE  Socket!Made' = Socket!Made /\ Socket!Live' = Socket!Live
    BY DEF Socket!Made, Socket!Live

\* connect() and the reconnect timer make a socket while none is live.
LEMMA OpenStep ==
    ASSUME SocketBounded, SocketInv, Socket!Connect \/ Socket!ReconnectTimerFires
    PROVE  SocketInv'
<1>1. /\ Socket!OpenSocket /\ reconnectTimer' = 0
      /\ shouldReconnect' \in {shouldReconnect, TRUE}
      /\ UNCHANGED <<sent, reconnectAttempts, isConnected, Socket!emitVars, Socket!srvVars>>
    BY DEF Socket!Connect, Socket!ReconnectTimerFires, Socket!CancelReconnect
<1>2. SocketTypes /\ MadeInv /\ AloneInv /\ OrderInv /\ EmitInv
    BY DEF SocketInv
<1>3. /\ ws' \in Socket!Sockets \ Socket!Made
      /\ readyState' = [readyState EXCEPT ![ws'] = "connecting"]
      /\ \E n \in 0..MaxSockets : Socket!Made' = 1..n
      /\ Socket!Made' = Socket!Made \cup {ws'}
      /\ sent[ws'] = <<>>
    BY <1>1, <1>2, OpenSays
<1>4. Socket!Live = {}
    <2>1. CASE Socket!Connect
        BY <1>2, <2>1
        DEF Socket!Connect, AloneInv, Socket!OneLiveSocket, Socket!Live, Socket!Sockets, Socket!NoSocket
    <2>2. CASE Socket!ReconnectTimerFires
        BY <1>2, <2>2 DEF Socket!ReconnectTimerFires, AloneInv
    <2> QED
        BY <2>1, <2>2
<1>5. SocketTypes'
    <2>1. UNCHANGED <<sent, reconnectAttempts, isConnected, throttledEmits, received, dispatched, serial>>
        BY <1>1 DEF Socket!emitVars, Socket!srvVars
    <2>2. readyState' \in [Socket!Sockets -> {"none", "connecting", "open", "closing", "closed"}]
        BY <1>2, <1>3 DEF SocketTypes, Socket!TypeOK
    <2>3. reconnectTimer' \in {0, 60000} \cup {Socket!BaseDelay(a) : a \in 0..maxReconnectAttempts}
        BY <1>1
    <2>4. ws' \in Socket!Sockets \cup {Socket!NoSocket} /\ shouldReconnect' \in BOOLEAN
        BY <1>1, <1>2, <1>3 DEF SocketTypes
    <2>5. Socket!TypeOK'
        BY <1>2, <2>1, <2>2, <2>3, <2>4 DEF SocketTypes, Socket!TypeOK
    <2> QED
        BY <1>2, <2>1, <2>4, <2>5 DEF SocketTypes
<1>6. MadeInv'
    BY <1>1, <1>2, <1>3 DEF MadeInv
<1>7. Socket!Live' = {ws'} /\ readyState'[ws'] = "connecting" /\ ws' # Socket!NoSocket
    <2>1. ws' \in Socket!Sockets /\ ws' # Socket!NoSocket
        BY <1>3 DEF Socket!Sockets, Socket!NoSocket, SocketBounded
    <2>2. /\ readyState'[ws'] = "connecting"
          /\ \A s \in Socket!Sockets \ {ws'} : readyState'[s] = readyState[s]
        BY <1>2, <1>3, <2>1 DEF SocketTypes, Socket!TypeOK
    <2> QED
        BY <1>4, <2>1, <2>2 DEF Socket!Live
<1>8. AloneInv'
    BY <1>1, <1>7 DEF AloneInv, Socket!OneLiveSocket, Socket!NeverStranded
<1>9. OrderInv'
    BY <1>1, <1>2, <1>3 DEF OrderInv, Socket!emitVars, Socket!srvVars
<1>10. EmitInv'
    BY <1>1, <1>2 DEF EmitInv, Socket!LatestDispatched, Socket!emitVars
<1> QED
    BY <1>5, <1>6, <1>8, <1>9, <1>10 DEF SocketInv

\* A socket that cannot be constructed: the timer is armed, none is live.
LEMMA ThrowStep ==
    ASSUME SocketBounded, SocketInv, Socket!ConnectThrows \/ Socket!ReconnectThrows
    PROVE  SocketInv'
<1>1. /\ Socket!ScheduleReconnect
      /\ shouldReconnect' \in {shouldReconnect, TRUE}
      /\ UNCHANGED <<ws, readyState, sent, isConnected, Socket!emitVars, Socket!srvVars>>
    BY DEF Socket!ConnectThrows, Socket!ReconnectThrows
<1>2. SocketTypes /\ MadeInv /\ AloneInv /\ OrderInv /\ EmitInv
    BY DEF SocketInv
<1>3. /\ reconnectTimer' # 0
      /\ reconnectTimer' \in {0, 60000} \cup {Socket!BaseDelay(a) : a \in 0..maxReconnectAttempts}
      /\ reconnectAttempts' \in 0..maxReconnectAttempts
    BY <1>1, <1>2, ScheduleSays DEF SocketTypes, Socket!TypeOK
<1>4. Socket!Live = {}
    <2>1. CASE Socket!ConnectThrows
        BY <1>2, <2>1
        DEF Socket!ConnectThrows, AloneInv, Socket!OneLiveSocket, Socket!Live, Socket!Sockets, Socket!NoSocket
    <2>2. CASE Socket!ReconnectThrows
        BY <1>2, <2>2 DEF Socket!ReconnectThrows, AloneInv
    <2> QED
        BY <2>1, <2>2
<1>5. Socket!Made' = Socket!Made /\ Socket!Live' = Socket!Live
    BY <1>1, SameSockets
<1>6. SocketTypes'
    <2>1. UNCHANGED <<ws, readyState, sent, isConnected, throttledEmits, received, dispatched, serial>>
        BY <1>1 DEF Socket!emitVars, Socket!srvVars
    <2>2. Socket!TypeOK'
        BY <1>2, <1>3, <2>1 DEF SocketTypes, Socket!TypeOK
    <2> QED
        BY <1>1, <1>2, <2>1, <2>2 DEF SocketTypes
<1>7. MadeInv'
    BY <1>1, <1>2, <1>5 DEF MadeInv
<1>8. AloneInv'
    BY <1>1, <1>3, <1>4, <1>5 DEF AloneInv, Socket!OneLiveSocket, Socket!NeverStranded
<1>9. OrderInv' /\ EmitInv'
    BY <1>1, <1>2 DEF OrderInv, EmitInv, Socket!LatestDispatched, Socket!emitVars, Socket!srvVars
<1> QED
    BY <1>6, <1>7, <1>8, <1>9 DEF SocketInv

\* disconnect() lets go of the socket, the timers and what they held.
LEMMA DisconnectStep ==
    ASSUME SocketBounded, SocketInv, Socket!Disconnect
    PROVE  SocketInv'
<1>1. /\ reconnectTimer' = 0 /\ reconnectAttempts' = 0
      /\ readyState' = IF ws = Socket!NoSocket THEN readyState
                       ELSE [readyState EXCEPT ![ws] = "closing"]
      /\ ws' = Socket!NoSocket /\ isConnected' = FALSE /\ shouldReconnect' = FALSE
      /\ throttledEmits' = [e \in Socket!ThrottledEvents |-> [timer |-> FALSE, lastArgs |-> 0]]
      /\ received' = dispatched
      /\ UNCHANGED <<sent, dispatched, Socket!srvVars>>
    BY DEF Socket!Disconnect, Socket!CancelReconnect
<1>2. SocketTypes /\ MadeInv /\ AloneInv /\ OrderInv /\ EmitInv
    BY DEF SocketInv
<1>3. SocketTypes'
    <2>1. throttledEmits' \in [Socket!ThrottledEvents -> [timer : BOOLEAN, lastArgs : 0..MaxMessages]]
        BY <1>1 DEF SocketBounded
    <2>2. readyState' \in [Socket!Sockets -> {"none", "connecting", "open", "closing", "closed"}]
        BY <1>1, <1>2 DEF SocketTypes, Socket!TypeOK
    <2>3. reconnectAttempts' \in 0..maxReconnectAttempts
        BY <1>1 DEF SocketBounded
    <2>4. /\ UNCHANGED <<sent, dispatched, serial>> /\ received' = dispatched
        BY <1>1 DEF Socket!srvVars
    <2>5. ws' \in Socket!Sockets \cup {Socket!NoSocket} /\ isConnected' \in BOOLEAN /\ shouldReconnect' \in BOOLEAN
        BY <1>1
    <2>6. reconnectTimer' \in {0, 60000} \cup {Socket!BaseDelay(a) : a \in 0..maxReconnectAttempts}
        BY <1>1
    <2>7. Socket!TypeOK'
        BY <1>2, <2>1, <2>2, <2>3, <2>4, <2>5, <2>6 DEF SocketTypes, Socket!TypeOK
    <2> QED
        BY <1>2, <2>4, <2>5, <2>7 DEF SocketTypes
<1>4. Socket!Made' = Socket!Made /\ Socket!Live' = {}
    BY <1>1, <1>2
    DEF Socket!Made, MadeInv, Socket!Live, AloneInv, Socket!OneLiveSocket, SocketTypes, Socket!TypeOK, Socket!Sockets, Socket!NoSocket
<1>8. MadeInv'
    BY <1>1, <1>2, <1>4 DEF MadeInv
<1>5. AloneInv'
    BY <1>1, <1>4 DEF AloneInv, Socket!OneLiveSocket, Socket!NeverStranded
<1>6. OrderInv'
    <2>1. \A e \in Socket!Events : dispatched[e] \in Nat /\ received[e] \in Nat /\ serial \in Nat
        BY <1>2 DEF SocketTypes, Socket!TypeOK, SocketBounded
    <2> QED
        BY <1>1, <1>2, <2>1 DEF OrderInv, EmitInv, Socket!srvVars
<1>7. EmitInv'
    BY <1>1, <1>2
    DEF EmitInv, Socket!LatestDispatched, SocketTypes, Socket!TypeOK, Socket!ThrottledEvents, Socket!Events
<1> QED
    BY <1>3, <1>5, <1>6, <1>7, <1>8 DEF SocketInv

-----------------------------------------------------------------------------
(* The messages *)

LEMMA QueueTailSays ==
    ASSUME NEW S, NEW q \in Seq(S), q # <<>>
    PROVE  /\ 1 \in 1..Len(q) /\ Head(q) = q[1] /\ Head(q) \in S
           /\ Tail(q) \in Seq(S) /\ Len(Tail(q)) = Len(q) - 1
           /\ \A i \in 1..Len(Tail(q)) : Tail(q)[i] = q[i + 1] /\ i + 1 \in 1..Len(q)
    OBVIOUS

LEMMA AppendSays ==
    ASSUME NEW S, NEW q \in Seq(S), NEW m \in S
    PROVE  /\ Append(q, m) \in Seq(S) /\ Len(Append(q, m)) = Len(q) + 1
           /\ \A i \in 1..Len(q) : Append(q, m)[i] = q[i]
           /\ Append(q, m)[Len(q) + 1] = m
    OBVIOUS

\* A socket opens, or closes and, if it is the one held and wanted, is followed by
\* the reconnect timer.
LEMMA OnOpenStep ==
    ASSUME SocketBounded, SocketInv, NEW s \in Socket!Sockets, Socket!OnOpen(s)
    PROVE  SocketInv'
<1>1. /\ readyState[s] = "connecting"
      /\ readyState' = [readyState EXCEPT ![s] = "open"]
      /\ isConnected' = IF ws = s THEN TRUE ELSE isConnected
      /\ reconnectAttempts' = IF ws = s THEN 0 ELSE reconnectAttempts
      /\ UNCHANGED <<ws, sent, shouldReconnect, reconnectTimer, throttledEmits, received,
                     dispatched, serial>>
    BY DEF Socket!OnOpen, Socket!emitVars, Socket!srvVars
<1>2. SocketTypes /\ MadeInv /\ AloneInv /\ OrderInv /\ EmitInv
    BY DEF SocketInv
<1>3. SocketTypes'
    <2>1. isConnected' \in BOOLEAN
        BY <1>1, <1>2 DEF SocketTypes
    <2>2. readyState' \in [Socket!Sockets -> {"none", "connecting", "open", "closing", "closed"}]
        BY <1>1, <1>2 DEF SocketTypes, Socket!TypeOK
    <2>3. reconnectAttempts' \in 0..maxReconnectAttempts
        BY <1>1, <1>2 DEF SocketTypes, Socket!TypeOK, SocketBounded
    <2>4. Socket!TypeOK'
        BY <1>1, <1>2, <2>2, <2>3 DEF SocketTypes, Socket!TypeOK
    <2> QED
        BY <1>1, <1>2, <2>1, <2>4 DEF SocketTypes
<1>4. Socket!Made' = Socket!Made /\ Socket!Live' = Socket!Live
    BY <1>1, <1>2 DEF Socket!Made, Socket!Live, SocketTypes, Socket!TypeOK
<1>5. MadeInv'
    BY <1>1, <1>2, <1>4 DEF MadeInv
<1>6. AloneInv'
    BY <1>1, <1>2, <1>4 DEF AloneInv, Socket!OneLiveSocket, Socket!NeverStranded, SocketTypes, Socket!TypeOK
<1>7. OrderInv' /\ EmitInv'
    BY <1>1, <1>2 DEF OrderInv, EmitInv, Socket!LatestDispatched
<1> QED
    BY <1>3, <1>5, <1>6, <1>7 DEF SocketInv

LEMMA OnCloseStep ==
    ASSUME SocketBounded, SocketInv, NEW s \in Socket!Sockets, Socket!OnClose(s)
    PROVE  SocketInv'
<1>1. /\ readyState[s] \in {"closing", "connecting", "open"}
      /\ readyState' = [readyState EXCEPT ![s] = "closed"]
      /\ sent' = [sent EXCEPT ![s] = <<>>]
      /\ UNCHANGED <<shouldReconnect, throttledEmits, received, dispatched, serial>>
    BY DEF Socket!OnClose, Socket!emitVars, Socket!srvVars
<1>2. SocketTypes /\ MadeInv /\ AloneInv /\ OrderInv /\ EmitInv
    BY DEF SocketInv
<1>3. /\ ws = s => ws' = Socket!NoSocket
      /\ ws # s => ws' = ws /\ reconnectTimer' = reconnectTimer
      /\ ws = s /\ shouldReconnect => reconnectTimer' # 0
      /\ reconnectTimer' \in {0, 60000} \cup {Socket!BaseDelay(a) : a \in 0..maxReconnectAttempts}
      /\ reconnectAttempts' \in 0..maxReconnectAttempts
      /\ isConnected' \in BOOLEAN
    <2> DEFINE Delays == {0, 60000} \cup {Socket!BaseDelay(a) : a \in 0..maxReconnectAttempts}
    <2>1. reconnectTimer \in Delays /\ reconnectAttempts \in 0..maxReconnectAttempts
        BY <1>2 DEF SocketTypes, Socket!TypeOK
    <2>2. Socket!ScheduleReconnect => /\ reconnectTimer' # 0 /\ reconnectTimer' \in Delays
                                      /\ reconnectAttempts' \in 0..maxReconnectAttempts
        BY <2>1, ScheduleSays
    <2>3. isConnected' \in BOOLEAN
        BY <1>2 DEF Socket!OnClose, SocketTypes
    <2> HIDE DEF Delays
    <2>4. /\ ws = s => ws' = Socket!NoSocket
          /\ ws # s => ws' = ws /\ reconnectTimer' = reconnectTimer
          /\ ws = s /\ shouldReconnect => reconnectTimer' # 0
        BY <2>2 DEF Socket!OnClose
    <2>5. reconnectAttempts' \in 0..maxReconnectAttempts
        BY <2>1, <2>2 DEF Socket!OnClose
    <2>6. reconnectTimer' \in Delays
        BY <2>1, <2>2 DEF Socket!OnClose
    <2>7. reconnectTimer' \in {0, 60000} \cup {Socket!BaseDelay(a) : a \in 0..maxReconnectAttempts}
        BY <2>6 DEF Delays
    <2> QED
        BY <2>3, <2>4, <2>5, <2>7
<1>4. SocketTypes'
    <2>1. readyState' \in [Socket!Sockets -> {"none", "connecting", "open", "closing", "closed"}]
        BY <1>1, <1>2 DEF SocketTypes, Socket!TypeOK
    <2>2. sent' \in [Socket!Sockets -> Seq(SocketMessage)]
        BY <1>1, <1>2 DEF SocketTypes
    <2>3. ws' \in Socket!Sockets \cup {Socket!NoSocket}
        BY <1>2, <1>3 DEF SocketTypes, Socket!TypeOK
    <2>4. Socket!TypeOK'
        BY <1>1, <1>2, <1>3, <2>1, <2>3 DEF SocketTypes, Socket!TypeOK
    <2> QED
        BY <1>1, <1>2, <1>3, <2>2, <2>4 DEF SocketTypes
<1>5. Socket!Made' = Socket!Made /\ Socket!Live' = Socket!Live \ {s}
    BY <1>1, <1>2 DEF Socket!Made, Socket!Live, SocketTypes, Socket!TypeOK
<1>6. MadeInv'
    BY <1>1, <1>2, <1>3, <1>5 DEF MadeInv, SocketTypes
<1>7. AloneInv'
    <2>1. CASE ws = s
        <3>1. Socket!Live' = {} /\ ws' = Socket!NoSocket
            BY <1>2, <1>3, <1>5, <2>1 DEF AloneInv, Socket!OneLiveSocket
        <3> QED
            BY <1>1, <1>3, <2>1, <3>1 DEF AloneInv, Socket!OneLiveSocket, Socket!NeverStranded
    <2>2. CASE ws # s
        <3>1. ws' = ws /\ reconnectTimer' = reconnectTimer
            BY <1>3, <2>2
        <3>2. ws # Socket!NoSocket => readyState'[ws] = readyState[ws]
            BY <1>1, <1>2, <2>2 DEF SocketTypes, Socket!TypeOK
        <3> QED
            BY <1>1, <1>2, <1>5, <3>1, <3>2 DEF AloneInv, Socket!OneLiveSocket, Socket!NeverStranded
    <2> QED
        BY <2>1, <2>2
<1>8. OrderInv'
    <2>1. CASE ws = s
        BY <1>1, <1>2, <1>3, <2>1 DEF OrderInv
    <2>2. CASE ws # s
        <3>1. ws' = ws /\ (ws # Socket!NoSocket => sent'[ws] = sent[ws])
            BY <1>1, <1>2, <1>3, <2>2 DEF SocketTypes, Socket!TypeOK
        <3> QED
            BY <1>1, <1>2, <3>1 DEF OrderInv
    <2> QED
        BY <2>1, <2>2
<1>9. EmitInv'
    BY <1>1, <1>2 DEF EmitInv, Socket!LatestDispatched
<1> QED
    BY <1>4, <1>6, <1>7, <1>8, <1>9 DEF SocketInv

\* A message of the socket held is newer than all that was handed on; a throttled
\* one is dispatched now or kept for the timer.
LEMMA OnMessageStep ==
    ASSUME SocketBounded, SocketInv, NEW s \in Socket!Sockets, Socket!OnMessage(s)
    PROVE  SocketInv'
<1> DEFINE m == Head(sent[s])
<1>1. /\ readyState[s] = "open" /\ sent[s] # <<>>
      /\ sent' = [sent EXCEPT ![s] = Tail(sent[s])]
      /\ UNCHANGED <<ws, shouldReconnect, reconnectTimer, reconnectAttempts, isConnected, serial>>
    BY DEF Socket!OnMessage, Socket!srvVars
<1>2. SocketTypes /\ MadeInv /\ AloneInv /\ OrderInv /\ EmitInv
    BY DEF SocketInv
<1>3. /\ 1 \in 1..Len(sent[s]) /\ m = sent[s][1] /\ m \in SocketMessage
      /\ Tail(sent[s]) \in Seq(SocketMessage) /\ Len(Tail(sent[s])) = Len(sent[s]) - 1
      /\ \A i \in 1..Len(Tail(sent[s])) : /\ Tail(sent[s])[i] = sent[s][i + 1]
                                          /\ i + 1 \in 1..Len(sent[s])
    <2>1. sent[s] \in Seq(SocketMessage)
        BY <1>2 DEF SocketTypes
    <2> DEFINE q == sent[s]
    <2>2. q \in Seq(SocketMessage) /\ q # <<>>
        BY <1>1, <2>1
    <2> HIDE DEF q
    <2>3. /\ 1 \in 1..Len(q) /\ Head(q) = q[1] /\ Head(q) \in SocketMessage
          /\ Tail(q) \in Seq(SocketMessage) /\ Len(Tail(q)) = Len(q) - 1
          /\ \A i \in 1..Len(Tail(q)) : Tail(q)[i] = q[i + 1] /\ i + 1 \in 1..Len(q)
        BY <2>2, QueueTailSays
    <2> QED
        BY <2>3 DEF q
<1>4. m.type \in Socket!Events /\ m.serial \in 1..MaxMessages /\ m.form \in {"ok", "malformed", "tooLarge"}
    BY <1>3 DEF SocketMessage
<1> HIDE DEF m
<1>5. \/ UNCHANGED <<throttledEmits, received, dispatched, readyState>>
      \/ /\ readyState' = [readyState EXCEPT ![s] = "closing"]
         /\ UNCHANGED <<throttledEmits, received, dispatched>>
      \/ ws = s /\ Socket!Emit(m) /\ UNCHANGED readyState
    BY <1>4, Zenon DEF Socket!OnMessage, m, Socket!emitVars
<1>6. sent'[s] = Tail(sent[s]) /\ sent' \in [Socket!Sockets -> Seq(SocketMessage)]
    BY <1>1, <1>2, <1>3 DEF SocketTypes
<1>7. /\ Socket!Made' = Socket!Made
      /\ Socket!Live' \subseteq Socket!Live
      /\ readyState' \in [Socket!Sockets -> {"none", "connecting", "open", "closing", "closed"}]
      /\ \A t \in Socket!Sockets : readyState'[t] = "closed" => readyState[t] = "closed"
    <2>1. readyState \in [Socket!Sockets -> {"none", "connecting", "open", "closing", "closed"}]
        BY <1>2 DEF SocketTypes, Socket!TypeOK
    <2>2. readyState' = readyState \/ readyState' = [readyState EXCEPT ![s] = "closing"]
        BY <1>5
    <2> QED
        BY <1>1, <2>1, <2>2 DEF Socket!Made, Socket!Live
<1>8. MadeInv'
    <2>1. \A t \in Socket!Sockets \ Socket!Made : t # s /\ sent'[t] = sent[t]
        BY <1>1, <1>2 DEF Socket!Made, SocketTypes
    <2> QED
        BY <1>1, <1>2, <1>7, <2>1 DEF MadeInv
<1>9. AloneInv'
    BY <1>1, <1>2, <1>7
    DEF AloneInv, Socket!OneLiveSocket, Socket!NeverStranded, SocketTypes, Socket!TypeOK, Socket!Sockets, Socket!NoSocket
<1>10. \A e \in Socket!Events : dispatched[e] \in Nat /\ received[e] \in Nat /\ serial \in Nat
    BY <1>2 DEF SocketTypes, Socket!TypeOK, SocketBounded
<1>11. CASE UNCHANGED <<throttledEmits, received, dispatched>>
    <2>1. Socket!TypeOK'
        BY <1>1, <1>2, <1>7, <1>11 DEF SocketTypes, Socket!TypeOK
    <2>2. SocketTypes'
        BY <1>1, <1>2, <1>6, <2>1 DEF SocketTypes
    <2>3. OrderInv'
        <3>1. CASE ws = s
            <4>1. /\ sent'[ws'] = Tail(sent[s])
                  /\ UNCHANGED <<received, serial>>
                BY <1>1, <1>6, <1>11, <3>1
            <4>2. ASSUME ws # Socket!NoSocket, NEW i \in 1..Len(sent'[ws'])
                  PROVE  /\ sent'[ws'][i].serial <= serial
                         /\ \A e \in Socket!Events : received[e] < sent'[ws'][i].serial
                BY <1>2, <1>3, <3>1, <4>1, <4>2 DEF OrderInv
            <4>3. ASSUME ws # Socket!NoSocket, NEW i \in 1..Len(sent'[ws']),
                NEW j \in 1..Len(sent'[ws']), i < j
                  PROVE  sent'[ws'][i].serial < sent'[ws'][j].serial
                BY <1>2, <1>3, <3>1, <4>1, <4>3 DEF OrderInv
            <4> QED
                BY <1>1, <1>2, <4>1, <4>2, <4>3 DEF OrderInv
        <3>2. CASE ws # s
            <4>1. ws # Socket!NoSocket => sent'[ws] = sent[ws]
                BY <1>1, <1>2, <3>2 DEF SocketTypes, Socket!TypeOK
            <4> QED
                BY <1>1, <1>2, <1>11, <4>1 DEF OrderInv
        <3> QED
            BY <3>1, <3>2
    <2>4. EmitInv'
        BY <1>2, <1>11 DEF EmitInv, Socket!LatestDispatched
    <2> QED
        BY <1>8, <1>9, <2>2, <2>3, <2>4 DEF SocketInv
<1>12. CASE ws = s /\ Socket!Emit(m) /\ UNCHANGED readyState
    <2> DEFINE e == m.type
    <2>1. /\ received' = [received EXCEPT ![e] = m.serial]
          /\ e \in Socket!Events /\ m.serial \in 1..MaxMessages
          /\ s # Socket!NoSocket
        BY <1>4, <1>12 DEF Socket!Emit, Socket!Sockets, Socket!NoSocket
    <2>2. \/ /\ e \in Socket!ThrottledEvents
             /\ throttledEmits' = [throttledEmits EXCEPT ![e] = [timer |-> TRUE, lastArgs |-> m.serial]]
             /\ \/ throttledEmits[e].timer /\ dispatched' = dispatched
                \/ dispatched' = [dispatched EXCEPT ![e] = m.serial]
          \/ /\ e \notin Socket!ThrottledEvents
             /\ dispatched' = [dispatched EXCEPT ![e] = m.serial]
             /\ throttledEmits' = throttledEmits
        BY <1>12 DEF Socket!Emit
    <2> HIDE DEF e
    <2>7. /\ received \in [Socket!Events -> 0..MaxMessages]
          /\ dispatched \in [Socket!Events -> 0..MaxMessages]
          /\ throttledEmits \in [Socket!ThrottledEvents -> [timer : BOOLEAN, lastArgs : 0..MaxMessages]]
        BY <1>2 DEF SocketTypes, Socket!TypeOK
    <2>8. m.serial \in 0..MaxMessages
        BY <2>1
    <2>9. dispatched' = dispatched \/ dispatched' = [dispatched EXCEPT ![e] = m.serial]
        BY <2>2
    <2>10. \/ throttledEmits' = throttledEmits
           \/ /\ e \in Socket!ThrottledEvents
              /\ throttledEmits' = [throttledEmits EXCEPT ![e] = [timer |-> TRUE, lastArgs |-> m.serial]]
        BY <2>2
    <2>3. /\ m.serial <= serial
          /\ \A f \in Socket!Events : received[f] < m.serial
          /\ \A i \in 1..Len(sent'[s]) : /\ m.serial < sent'[s][i].serial
                                         /\ sent'[s][i].serial <= serial
                                         /\ \A f \in Socket!Events : received[f] < sent'[s][i].serial
          /\ \A i, j \in 1..Len(sent'[s]) : i < j => sent'[s][i].serial < sent'[s][j].serial
        <3>1. /\ \A i \in 1..Len(sent[s]) :
                    /\ sent[s][i].serial <= serial
                    /\ \A f \in Socket!Events : received[f] < sent[s][i].serial
              /\ \A i, j \in 1..Len(sent[s]) : i < j => sent[s][i].serial < sent[s][j].serial
            BY <1>2, <1>12, <2>1 DEF OrderInv
        <3>2. ASSUME NEW i \in 1..Len(sent'[s])
              PROVE  /\ i + 1 \in 1..Len(sent[s]) /\ 1 < i + 1
                     /\ sent'[s][i] = sent[s][i + 1]
            BY <1>3, <1>6
        <3>3. m = sent[s][1] /\ 1 \in 1..Len(sent[s])
            BY <1>3
        <3>4. ASSUME NEW i \in 1..Len(sent'[s])
              PROVE  /\ m.serial < sent'[s][i].serial
                     /\ sent'[s][i].serial <= serial
                     /\ \A f \in Socket!Events : received[f] < sent'[s][i].serial
            BY <3>1, <3>2, <3>3
        <3>5. ASSUME NEW i \in 1..Len(sent'[s]), NEW j \in 1..Len(sent'[s]), i < j
              PROVE  sent'[s][i].serial < sent'[s][j].serial
            <4>1. i + 1 < j + 1
                BY <3>5, <3>2
            <4> QED
                BY <3>1, <3>2, <4>1
        <3> QED
            BY <3>1, <3>3, <3>4, <3>5
    <2>4. SocketTypes'
        <3>1. received' \in [Socket!Events -> 0..MaxMessages]
            BY <2>1, <2>7, <2>8
        <3>2. dispatched' \in [Socket!Events -> 0..MaxMessages]
            BY <2>7, <2>8, <2>9
        <3>3. throttledEmits' \in [Socket!ThrottledEvents -> [timer : BOOLEAN, lastArgs : 0..MaxMessages]]
            <4>1. [timer |-> TRUE, lastArgs |-> m.serial] \in [timer : BOOLEAN, lastArgs : 0..MaxMessages]
                BY <2>8
            <4> QED
                BY <2>7, <2>10, <4>1
        <3>4. Socket!TypeOK'
            BY <1>1, <1>2, <1>7, <3>1, <3>2, <3>3 DEF SocketTypes, Socket!TypeOK
        <3> QED
            BY <1>1, <1>2, <1>6, <3>4 DEF SocketTypes
    <2>5. OrderInv'
        <3>1. \A f \in Socket!Events : received'[f] \in {received[f], m.serial}
            BY <1>2, <2>1 DEF SocketTypes, Socket!TypeOK
        <3>2. \A f \in Socket!Events : received'[f] <= serial
            BY <1>2, <2>3, <3>1 DEF OrderInv
        <3>3. \A i \in 1..Len(sent'[s]) : \A f \in Socket!Events : received'[f] < sent'[s][i].serial
            BY <2>3, <3>1
        <3> QED
            BY <1>1, <1>12, <2>3, <3>2, <3>3 DEF OrderInv
    <2>6. EmitInv'
        <3>1. \A f \in Socket!Events : /\ f = e => received'[f] = m.serial
                                       /\ f # e => received'[f] = received[f]
            BY <1>2, <2>1 DEF SocketTypes, Socket!TypeOK
        <3>2. \A f \in Socket!Events : \/ dispatched'[f] = dispatched[f]
                                       \/ f = e /\ dispatched'[f] = m.serial
            BY <2>7, <2>9
        <3>3. \A f \in Socket!Events : dispatched'[f] <= received'[f]
            <4>1. \A f \in Socket!Events : dispatched[f] <= received[f] /\ received[f] < m.serial
                BY <1>2, <2>3 DEF EmitInv
            <4>2. m.serial \in Int
                BY <2>8
            <4> QED
                BY <1>10, <3>1, <3>2, <4>1, <4>2
        <3>4. ASSUME NEW f \in Socket!ThrottledEvents, f # e
              PROVE  /\ throttledEmits'[f] = throttledEmits[f]
                     /\ dispatched'[f] = dispatched[f] /\ received'[f] = received[f]
            BY <2>1, <2>7, <2>9, <2>10, <3>4 DEF Socket!Events
        <3>5. ASSUME NEW f \in Socket!ThrottledEvents, f = e
              PROVE  /\ throttledEmits'[f].timer /\ throttledEmits'[f].lastArgs = m.serial
                     /\ received'[f] = m.serial /\ m.serial > 0
            BY <2>1, <2>2, <2>7, <3>1, <3>5 DEF Socket!Events
        <3> QED
            BY <1>2, <3>3, <3>4, <3>5 DEF EmitInv, Socket!LatestDispatched
    <2> QED
        BY <1>8, <1>9, <2>4, <2>5, <2>6 DEF SocketInv
<1> QED
    BY <1>5, <1>11, <1>12

\* The timer of a throttled event dispatches the newest message again.
LEMMA ThrottleTimerStep ==
    ASSUME SocketBounded, SocketInv, NEW e \in Socket!ThrottledEvents, Socket!ThrottleTimerFires(e)
    PROVE  SocketInv' /\ \A f \in Socket!Events : dispatched'[f] >= dispatched[f]
<1>1. SocketTypes /\ MadeInv /\ AloneInv /\ OrderInv /\ EmitInv
    BY DEF SocketInv
<1>2. /\ throttledEmits[e].timer
      /\ dispatched' = IF throttledEmits[e].lastArgs # 0
                       THEN [dispatched EXCEPT ![e] = throttledEmits[e].lastArgs] ELSE dispatched
      /\ throttledEmits' = [throttledEmits EXCEPT ![e] = [timer |-> FALSE, lastArgs |-> 0]]
      /\ UNCHANGED <<ws, readyState, sent, shouldReconnect, reconnectTimer, reconnectAttempts,
                     isConnected, received, serial>>
    BY DEF Socket!ThrottleTimerFires, Socket!sockVars, Socket!srvVars
<1>3. \A f \in Socket!Events : dispatched[f] \in Nat /\ received[f] \in Nat
    BY <1>1 DEF SocketTypes, Socket!TypeOK, SocketBounded
<1>4. e \in Socket!Events /\ throttledEmits[e].lastArgs = received[e] /\ received[e] > 0
    BY <1>1, <1>2 DEF EmitInv, Socket!Events
<1>5. dispatched' = [dispatched EXCEPT ![e] = received[e]]
    BY <1>2, <1>3, <1>4
<1>6. \A f \in Socket!Events : /\ f = e => dispatched'[f] = received[f]
                               /\ f # e => dispatched'[f] = dispatched[f]
    BY <1>1, <1>5 DEF SocketTypes, Socket!TypeOK
<1>7. SocketTypes'
    <2>1. dispatched' \in [Socket!Events -> 0..MaxMessages]
        BY <1>1, <1>4, <1>5 DEF SocketTypes, Socket!TypeOK
    <2>2. throttledEmits' \in [Socket!ThrottledEvents -> [timer : BOOLEAN, lastArgs : 0..MaxMessages]]
        BY <1>1, <1>2 DEF SocketTypes, Socket!TypeOK, SocketBounded
    <2>3. Socket!TypeOK'
        BY <1>1, <1>2, <2>1, <2>2 DEF SocketTypes, Socket!TypeOK
    <2> QED
        BY <1>1, <1>2, <2>3 DEF SocketTypes
<1>8. Socket!Made' = Socket!Made /\ Socket!Live' = Socket!Live
    BY <1>2, SameSockets
<1>9. MadeInv' /\ AloneInv' /\ OrderInv'
    BY <1>1, <1>2, <1>8 DEF MadeInv, AloneInv, Socket!OneLiveSocket, Socket!NeverStranded, OrderInv
<1>10. EmitInv'
    <2>1. \A f \in Socket!ThrottledEvents : /\ f # e => throttledEmits'[f] = throttledEmits[f]
                                            /\ f = e => ~throttledEmits'[f].timer
        BY <1>1, <1>2 DEF SocketTypes, Socket!TypeOK
    <2>2. \A f \in Socket!Events : dispatched'[f] <= received'[f]
        BY <1>1, <1>2, <1>3, <1>6 DEF EmitInv
    <2>3. \A f \in Socket!ThrottledEvents :
            /\ throttledEmits[f].timer => throttledEmits[f].lastArgs = received[f] /\ received[f] > 0
            /\ ~throttledEmits[f].timer => dispatched[f] = received[f]
        BY <1>1 DEF EmitInv, Socket!LatestDispatched
    <2>4. \A f \in Socket!ThrottledEvents : f \in Socket!Events
        BY DEF Socket!Events
    <2> QED
        BY <1>2, <1>6, <2>1, <2>2, <2>3, <2>4 DEF EmitInv, Socket!LatestDispatched
<1>11. \A f \in Socket!Events : dispatched'[f] >= dispatched[f]
    <2>1. \A f \in Socket!Events : dispatched[f] <= received[f]
        BY <1>1 DEF EmitInv
    <2> QED
        BY <1>3, <1>6, <2>1
<1> QED
    BY <1>7, <1>9, <1>10, <1>11 DEF SocketInv

\* What the server sends is newer than all it has sent.
LEMMA ServerSendsStep ==
    ASSUME SocketBounded, SocketInv, NEW e \in Socket!Events, NEW kind \in {"ok", "malformed", "tooLarge"},
           Socket!ServerSends(e, kind)
    PROVE  SocketInv'
<1> DEFINE m == [type |-> e, serial |-> serial + 1, form |-> kind]
<1>1. SocketTypes /\ MadeInv /\ AloneInv /\ OrderInv /\ EmitInv
    BY DEF SocketInv
<1>2. /\ serial < MaxMessages /\ serial' = serial + 1
      /\ sent' = [s \in Socket!Sockets |-> IF readyState[s] = "open" THEN Append(sent[s], m) ELSE sent[s]]
      /\ UNCHANGED <<ws, readyState, shouldReconnect, reconnectTimer, reconnectAttempts, isConnected,
                     throttledEmits, received, dispatched>>
    BY DEF Socket!ServerSends, Socket!emitVars
<1>3. serial \in Nat /\ serial' \in 1..MaxMessages /\ serial' > serial
    BY <1>1, <1>2 DEF SocketTypes, SocketBounded
<1>4. m \in SocketMessage /\ m.serial = serial'
    BY <1>2, <1>3 DEF SocketMessage
<1> HIDE DEF m
<1>5. ASSUME NEW s \in Socket!Sockets
      PROVE  /\ sent'[s] \in Seq(SocketMessage)
             /\ \A i \in 1..Len(sent'[s]) :
                  \/ i \in 1..Len(sent[s]) /\ sent'[s][i] = sent[s][i]
                  \/ /\ sent'[s][i] = m
                     /\ \A j \in 1..Len(sent'[s]) : j <= i
    <2> DEFINE q == sent[s]
    <2>1. q \in Seq(SocketMessage)
        BY <1>1 DEF SocketTypes
    <2>2. sent'[s] = Append(q, m) \/ sent'[s] = q
        BY <1>2
    <2> HIDE DEF q
    <2>3. Append(q, m) \in Seq(SocketMessage) /\ Len(Append(q, m)) = Len(q) + 1
        BY <1>4, <2>1, AppendSays
    <2>4. /\ \A i \in 1..Len(q) : Append(q, m)[i] = q[i]
          /\ Append(q, m)[Len(q) + 1] = m
        BY <1>4, <2>1, AppendSays
    <2>5. Len(q) \in Nat
        BY <2>1
    <2>6. sent'[s] \in Seq(SocketMessage)
        BY <2>1, <2>2, <2>3
    <2>7. ASSUME NEW i \in 1..Len(sent'[s])
          PROVE  \/ i \in 1..Len(q) /\ sent'[s][i] = q[i]
                 \/ /\ sent'[s][i] = m
                    /\ \A j \in 1..Len(sent'[s]) : j <= i
        <3>1. CASE sent'[s] = q
            BY <3>1
        <3>2. CASE sent'[s] = Append(q, m)
            <4>1. i \in 1..(Len(q) + 1) /\ Len(sent'[s]) = Len(q) + 1
                BY <2>3, <3>2
            <4>2. CASE i \in 1..Len(q)
                BY <2>4, <3>2, <4>2
            <4>3. CASE i = Len(q) + 1
                BY <2>4, <2>5, <3>2, <4>1, <4>3
            <4> QED
                BY <2>5, <4>1, <4>2, <4>3
        <3> QED
            BY <2>2, <3>1, <3>2
    <2> QED
        BY <2>6, <2>7 DEF q
<1>6. SocketTypes'
    <2>1. sent' \in [Socket!Sockets -> Seq(SocketMessage)]
        BY <1>2, <1>5
    <2>2. Socket!TypeOK'
        BY <1>1, <1>2 DEF SocketTypes, Socket!TypeOK
    <2> QED
        BY <1>1, <1>2, <1>3, <2>1, <2>2 DEF SocketTypes
<1>7. Socket!Made' = Socket!Made /\ Socket!Live' = Socket!Live
    BY <1>2, SameSockets
<1>8. MadeInv'
    <2>1. \A s \in Socket!Sockets \ Socket!Made : sent'[s] = sent[s]
        BY <1>2 DEF Socket!Made
    <2> QED
        BY <1>1, <1>2, <1>7, <2>1 DEF MadeInv
<1>9. AloneInv' /\ EmitInv'
    BY <1>1, <1>2, <1>7
    DEF AloneInv, Socket!OneLiveSocket, Socket!NeverStranded, EmitInv, Socket!LatestDispatched
<1>10. OrderInv'
    <2>1. \A f \in Socket!Events : received[f] \in Nat /\ received[f] <= serial
        BY <1>1 DEF OrderInv, SocketTypes, Socket!TypeOK, SocketBounded
    <2>2. \A f \in Socket!Events : received'[f] <= serial' /\ received'[f] < serial'
        BY <1>2, <1>3, <2>1
    <2>3. ASSUME ws # Socket!NoSocket, NEW i \in 1..Len(sent'[ws])
          PROVE  /\ sent'[ws][i].serial <= serial'
                 /\ \A f \in Socket!Events : received'[f] < sent'[ws][i].serial
        <3>1. ws \in Socket!Sockets
            BY <1>1, <2>3 DEF SocketTypes, Socket!TypeOK
        <3>2. CASE sent'[ws][i] = m
            BY <1>3, <1>4, <2>2, <3>2
        <3>3. CASE i \in 1..Len(sent[ws]) /\ sent'[ws][i] = sent[ws][i]
            <4>1. /\ sent[ws][i].serial <= serial
                  /\ \A f \in Socket!Events : received[f] < sent[ws][i].serial
                BY <1>1, <2>3, <3>3 DEF OrderInv
            <4>2. sent[ws][i].serial \in Nat
                <5>1. sent[ws] \in Seq(SocketMessage)
                    BY <1>1, <3>1 DEF SocketTypes
                <5>2. sent[ws][i] \in SocketMessage
                    BY <3>3, <5>1
                <5> QED
                    BY <5>2 DEF SocketMessage, SocketBounded
            <4>3. sent[ws][i].serial <= serial' /\ sent'[ws][i].serial = sent[ws][i].serial
                BY <1>3, <3>3, <4>1, <4>2
            <4> QED
                BY <1>2, <4>1, <4>3
        <3> QED
            BY <1>5, <3>1, <3>2, <3>3
    <2>4. ASSUME ws # Socket!NoSocket, NEW i \in 1..Len(sent'[ws]), NEW j \in 1..Len(sent'[ws]), i < j
          PROVE  sent'[ws][i].serial < sent'[ws][j].serial
        <3>1. ws \in Socket!Sockets
            BY <1>1, <2>4 DEF SocketTypes, Socket!TypeOK
        <3>2. i \in 1..Len(sent[ws]) /\ sent'[ws][i] = sent[ws][i]
            BY <1>5, <2>4, <3>1
        <3>3. CASE sent'[ws][j] = m
            <4>1. sent[ws][i].serial <= serial
                BY <1>1, <2>4, <3>2 DEF OrderInv
            <4>2. sent[ws][i].serial \in Nat
                <5>1. sent[ws] \in Seq(SocketMessage)
                    BY <1>1, <3>1 DEF SocketTypes
                <5>2. sent[ws][i] \in SocketMessage
                    BY <3>2, <5>1
                <5> QED
                    BY <5>2 DEF SocketMessage, SocketBounded
            <4> QED
                BY <1>3, <1>4, <3>2, <3>3, <4>1, <4>2
        <3>4. CASE j \in 1..Len(sent[ws]) /\ sent'[ws][j] = sent[ws][j]
            BY <1>1, <2>4, <3>2, <3>4 DEF OrderInv
        <3> QED
            BY <1>5, <3>1, <3>3, <3>4
    <2> QED
        BY <1>2, <2>2, <2>3, <2>4 DEF OrderInv
<1> QED
    BY <1>6, <1>8, <1>9, <1>10 DEF SocketInv

\* An outage changes nothing of the client by itself.
LEMMA OutageStep ==
    ASSUME SocketInv, Socket!ServerGoesDown \/ Socket!ServerComesUp \/ UNCHANGED socketVars
    PROVE  SocketInv'
<1>1. UNCHANGED <<ws, readyState, sent, shouldReconnect, reconnectTimer, reconnectAttempts,
                  isConnected, throttledEmits, received, dispatched, serial>>
    BY DEF Socket!ServerGoesDown, Socket!ServerComesUp, socketVars, Socket!sockVars, Socket!emitVars,
        Socket!srvVars
<1>2. Socket!Made' = Socket!Made /\ Socket!Live' = Socket!Live
    BY <1>1, SameSockets
<1>3. SocketTypes' /\ MadeInv'
    BY <1>1, <1>2 DEF SocketInv, SocketTypes, Socket!TypeOK, MadeInv
<1>4. AloneInv' /\ OrderInv' /\ EmitInv'
    BY <1>1, <1>2
    DEF SocketInv, AloneInv, Socket!OneLiveSocket, Socket!NeverStranded, OrderInv, EmitInv, Socket!LatestDispatched
<1> QED
    BY <1>3, <1>4 DEF SocketInv

-----------------------------------------------------------------------------
LEMMA SocketNextInv == ASSUME SocketBounded, SocketInv, [Socket!Next]_socketVars PROVE SocketInv'
<1>1. CASE Socket!Connect \/ Socket!ReconnectTimerFires
    BY <1>1, OpenStep
<1>2. CASE Socket!ConnectThrows \/ Socket!ReconnectThrows
    BY <1>2, ThrowStep
<1>3. CASE Socket!Disconnect
    BY <1>3, DisconnectStep
<1>4. CASE \E s \in Socket!Sockets : Socket!OnOpen(s) \/ Socket!OnClose(s) \/ Socket!OnMessage(s)
    BY <1>4, OnOpenStep, OnCloseStep, OnMessageStep
<1>5. CASE \E e \in Socket!ThrottledEvents : Socket!ThrottleTimerFires(e)
    BY <1>5, ThrottleTimerStep
<1>6. CASE \E e \in Socket!Events, kind \in {"ok", "malformed", "tooLarge"} : Socket!ServerSends(e, kind)
    BY <1>6, ServerSendsStep
<1>7. CASE Socket!ServerGoesDown \/ Socket!ServerComesUp \/ UNCHANGED socketVars
    BY <1>7, OutageStep
<1> QED
    BY <1>1, <1>2, <1>3, <1>4, <1>5, <1>6, <1>7 DEF Socket!Next, Socket!Step

\* No step hands an older message to the listeners of an event than they have seen.
LEMMA DispatchStep ==
    ASSUME SocketBounded, SocketInv, [Socket!Next]_socketVars
    PROVE  \A e \in Socket!Events : dispatched'[e] >= dispatched[e]
<1>1. \A e \in Socket!Events : dispatched[e] \in Nat /\ received[e] \in Nat
    BY DEF SocketInv, SocketTypes, Socket!TypeOK, SocketBounded
<1>2. CASE \E s \in Socket!Sockets : Socket!OnMessage(s)
    <2>1. PICK s \in Socket!Sockets : Socket!OnMessage(s)
        BY <1>2
    <2> DEFINE m == Head(sent[s])
    <2>2. \/ UNCHANGED dispatched
          \/ ws = s /\ Socket!Emit(m) /\ sent[s] # <<>>
        <3>1. sent[s] # <<>>
            BY <2>1 DEF Socket!OnMessage
        <3>2. sent[s] \in Seq(SocketMessage)
            BY DEF SocketInv, SocketTypes
        <3>3. m \in SocketMessage
            BY <3>1, <3>2, QueueTailSays
        <3>4. m.form \in {"ok", "malformed", "tooLarge"}
            BY <3>3 DEF SocketMessage
        <3> HIDE DEF m
        <3> QED
            BY <2>1, <3>1, <3>4, Zenon DEF Socket!OnMessage, m, Socket!emitVars
    <2>3. CASE ws = s /\ Socket!Emit(m) /\ sent[s] # <<>>
        <3>1. sent[s] \in Seq(SocketMessage)
            BY DEF SocketInv, SocketTypes
        <3>2. m \in SocketMessage /\ m = sent[s][1] /\ 1 \in 1..Len(sent[s])
            BY <2>3, <3>1, QueueTailSays
        <3>3. m.serial \in Nat /\ \A f \in Socket!Events : received[f] < m.serial
            BY <2>3, <3>2
            DEF SocketInv, OrderInv, SocketMessage, Socket!Sockets, Socket!NoSocket, SocketBounded
        <3>4. dispatched' = dispatched \/ dispatched' = [dispatched EXCEPT ![m.type] = m.serial]
            BY <2>3 DEF Socket!Emit
        <3>5. \A f \in Socket!Events : dispatched'[f] = dispatched[f] \/ dispatched'[f] = m.serial
            BY <3>4 DEF SocketInv, SocketTypes, Socket!TypeOK
        <3>6. \A f \in Socket!Events : dispatched[f] <= received[f]
            BY DEF SocketInv, EmitInv
        <3> QED
            BY <1>1, <3>3, <3>5, <3>6
    <2> QED
        BY <1>1, <2>2, <2>3
<1>3. CASE \E e \in Socket!ThrottledEvents : Socket!ThrottleTimerFires(e)
    BY <1>3, ThrottleTimerStep
<1>4. CASE UNCHANGED dispatched
    BY <1>1, <1>4
<1>5. \/ \E s \in Socket!Sockets : Socket!OnMessage(s)
      \/ \E e \in Socket!ThrottledEvents : Socket!ThrottleTimerFires(e)
      \/ UNCHANGED dispatched
    BY DEF Socket!Next, Socket!Step, Socket!Connect, Socket!ReconnectTimerFires, Socket!ConnectThrows,
        Socket!ReconnectThrows, Socket!Disconnect,
                Socket!OnOpen, Socket!OnClose, Socket!ServerSends, Socket!ServerGoesDown,
                    Socket!ServerComesUp, socketVars, Socket!sockVars,
                Socket!emitVars, Socket!srvVars
<1> QED
    BY <1>2, <1>3, <1>4, <1>5

LEMMA SocketBounds == SocketBounded
    BY InstanceBounds DEF SocketBounded

-----------------------------------------------------------------------------
(* The restore: one import of any kind, and several usable ones.  The takeover of *)
(* the page stands up to any number of imports; the files do so for one import at *)
(* a time, since two of them share their names.                                   *)

\* The bounds are natural numbers, files and databases are of the kinds known.
RestoreBounded ==
    /\ MaxPolls \in Nat /\ MaxFileFaults \in Nat
    /\ Kinds \subseteq Restore!AllKinds /\ Epochs \subseteq Restore!AllEpochs

LEMMA RestoreBounds == RestoreBounded /\ Import \in Imports
    BY InstanceBounds DEF RestoreBounded, Restore!AllKinds, Restore!AllEpochs

\* A login page waits for nothing.
PageInv ==
    /\ Restore!TakeoverStands
    /\ restorePage.where = "login" => restorePage.pc = "idle"

\* The database is where it was, and open, with no sidecar left.
Untouched == path = Restore!Old /\ backup = Restore!NoFile /\ handle = Restore!Old /\ wal = Restore!NoFile

\* The database is closed, or that has failed: only then its sidecar stays.
CloseTried ==
    /\ handle \in {Restore!NoFile, Restore!Old} /\ wal \in {Restore!NoFile, Restore!Old}
    /\ wal # Restore!NoFile => "close" \in warned

\* The upload i has taken its place, and is open; with the sidecar of a database that
\* could not be closed it is another file.
Replaced(i) ==
    /\ handle = path /\ wal = Restore!NoFile
    /\ \/ path = Restore!Upload(i) /\ upload[i].kind = "good"
       \/ path = Restore!Mixed /\ "close" \in warned

\* The upload's copy, as it is written and after its validation.
CopyInv(i) ==
    /\ Restore!AtStage(i, "copying") => temp = Restore!Partial(i)
    /\ Restore!AtStage(i, "copied") => temp = Restore!Upload(i)
    /\ upload[i].pc \in {"validated", "stopped", "closed", "cleared", "kept"} =>
        temp = Restore!Upload(i) /\ upload[i].kind \in {"good", "foreign"}

\* Where database and fallback are while import i goes on.
SwapInv(i) ==
    /\ upload[i].pc \in {"none", "sending", "copying", "copied", "validated", "stopped"} => Untouched
    /\ upload[i].pc \in {"closed", "cleared", "leaving"} => path = Restore!Old /\ backup = Restore!NoFile /\ CloseTried
    /\ Restore!AtStage(i, "kept") => path = Restore!NoFile /\ backup = Restore!Old /\ CloseTried
    /\ Restore!AtStage(i, "moved") => path = Restore!Upload(i) /\ backup = Restore!Old /\ CloseTried
    /\ Restore!AtStage(i, "opened") => Replaced(i) /\ backup = Restore!Old
    /\ Restore!AtStage(i, "failed") => backup = Restore!Old

\* What its outcome says of them, from when it is fixed.
OutcomeInv(i) ==
    /\ upload[i].pc \notin {"leaving", "unwinding", "answered"} <=> upload[i].result = "none"
    /\ upload[i].result = "rejected" => Restore!AtStage(i, "answered") /\ Untouched
    /\ upload[i].result \in {"ok", "notStarted"} => Replaced(i) /\ ~Restore!AtStage(i, "leaving")
    /\ upload[i].result = "refused" => path = Restore!Old /\ (Restore!Alone(path) \/ "sidecar" \in warned)

\* When the core is down: from the stop to the restart, and after a restart failed.
DownInv(i) ==
    /\ upload[i].pc \in {"none", "sending", "copying", "copied", "validated"} => core = "running"
    /\ upload[i].result \in {"ok", "rejected"} => core = "running"
    /\ Restore!AtStage(i, "answered") /\ core = "stopped" =>
        ~Restore!Usable(handle) \/ upload[i].result = "notStarted" \/ "core" \in warned

FileInv(i) == CopyInv(i) /\ SwapInv(i) /\ OutcomeInv(i) /\ DownInv(i)

\* The import i is the only one that has begun.
Alone(i) == i \in Imports /\ \A j \in Imports \ {i} : upload[j] = Restore!NoUpload

-----------------------------------------------------------------------------
(* Files and stages *)

\* No two contents are the same.
LEMMA ContentsDiffer ==
    ASSUME NEW i
    PROVE  /\ Restore!NoFile # Restore!Old /\ Restore!NoFile # Restore!Fresh /\ Restore!Old # Restore!Fresh
           /\ Restore!Mixed \notin {Restore!NoFile, Restore!Old, Restore!Fresh}
           /\ Restore!Upload(i) \notin {Restore!NoFile, Restore!Old, Restore!Fresh, Restore!Mixed}
           /\ Restore!Partial(i) \notin {Restore!NoFile, Restore!Old, Restore!Fresh, Restore!Mixed, Restore!Upload(i)}
    BY DEF Restore!NoFile, Restore!Old, Restore!Fresh, Restore!Mixed, Restore!Upload, Restore!Partial

\* What validation and InitDB make of each of them, now and after a step.
LEMMA UsableSays ==
    ASSUME NEW i
    PROVE  /\ ~Restore!Usable(Restore!NoFile) /\ Restore!Usable(Restore!Old) /\ ~Restore!Sound(Restore!NoFile)
           /\ Restore!Usable(Restore!Upload(i)) <=> upload[i].kind = "good"
           /\ Restore!Sound(Restore!Upload(i)) <=> upload[i].kind \in {"good", "foreign"}
           /\ ~Restore!Usable(Restore!NoFile)'
<1>1. Restore!IsUpload(Restore!Upload(i)) /\ ~Restore!IsUpload(Restore!NoFile)
    BY DEF Restore!IsUpload, Restore!Upload, Restore!NoFile
<1>2. Restore!Upload(i)[1] = i /\ Restore!Upload(i)[2] = "whole"
    BY DEF Restore!Upload
<1> QED
    BY <1>1, <1>2, ContentsDiffer DEF Restore!Usable, Restore!Sound, Restore!KindOf

\* A step that changes the kind of no upload makes nothing usable, or unusable.
LEMMA UsableStays ==
    ASSUME Restore!TypeOK, handle' = handle, \A i \in Imports : upload'[i].kind = upload[i].kind
    PROVE  Restore!Usable(handle)' <=> Restore!Usable(handle)
<1>1. CASE Restore!IsUpload(handle)
    <2>1. \A f \in {Restore!NoFile, Restore!Old, Restore!Fresh, Restore!Mixed} : ~Restore!IsUpload(f)
        BY DEF Restore!IsUpload, Restore!NoFile, Restore!Old, Restore!Fresh, Restore!Mixed
    <2>2. \E i \in Imports : handle = Restore!Upload(i) \/ handle = Restore!Partial(i)
        BY <1>1, <2>1 DEF Restore!TypeOK, Restore!Contents
    <2>3. handle[1] \in Imports
        BY <2>2 DEF Restore!Upload, Restore!Partial
    <2> QED
        BY <2>3 DEF Restore!Usable, Restore!KindOf
<1>2. CASE ~Restore!IsUpload(handle)
    BY <1>2 DEF Restore!Usable
<1> QED
    BY <1>1, <1>2

\* A stage that is left takes the upload along; an end fixes its outcome.
LEMMA GoesSays ==
    ASSUME Restore!TypeOK, NEW i \in Imports, NEW pc \in Restore!Stages, Restore!Goes(i, pc)
    PROVE  /\ upload' \in [Imports -> Restore!Uploads]
           /\ upload'[i].pc = pc /\ upload'[i].kind = upload[i].kind
           /\ upload'[i].result = upload[i].result
    BY DEF Restore!Goes, Restore!TypeOK, Restore!Uploads

LEMMA EndsSays ==
    ASSUME Restore!TypeOK, NEW i \in Imports, NEW pc \in Restore!Stages,
           NEW result \in {"ok", "rejected", "refused", "rollbackFailed", "notStarted"},
           Restore!Ends(i, pc, result)
    PROVE  /\ upload' \in [Imports -> Restore!Uploads]
           /\ upload'[i].pc = pc /\ upload'[i].kind = upload[i].kind
           /\ upload'[i].result = result
    BY DEF Restore!Ends, Restore!TypeOK, Restore!Uploads

\* What a lost connection does to an upload.
LEMMA DroppedSays ==
    ASSUME NEW u \in Restore!Uploads
    PROVE  /\ Restore!Dropped(u) \in Restore!Uploads /\ Restore!Dropped(u).kind = u.kind
           /\ u.pc = "sending" => Restore!Dropped(u).pc = "answered" /\ Restore!Dropped(u).result = "rejected"
           /\ u.pc # "sending" => Restore!Dropped(u).pc = u.pc /\ Restore!Dropped(u).result = u.result
    BY DEF Restore!Dropped, Restore!Uploads, Restore!Stages

-----------------------------------------------------------------------------
(* Types *)

LEMMA InitRestoreTypes == ASSUME RestoreBounded, Restore!Init PROVE Restore!TypeOK
<1>1. Restore!NoUpload \in Restore!Uploads
    BY DEF Restore!NoUpload, Restore!Uploads, Restore!Stages, Restore!AllKinds, Restore!AllEpochs
<1>2. upload \in [Imports -> Restore!Uploads]
    BY <1>1 DEF Restore!Init
<1>3. {path, backup, temp, wal, handle} \subseteq Restore!Contents /\ warned \subseteq {"close", "sidecar", "core"}
    BY DEF Restore!Init, Restore!Contents
<1>4. restorePage \in [where : {"panel", "login"}, pc : {"idle", "racing", "polling", "reloading"},
                cur : Imports \cup {"none"}, polls : 0..MaxPolls,
                report : {"none", "failed", "restored", "timeout"}]
    BY DEF Restore!Init, Restore!Idle, RestoreBounded
<1>5. overlay \in BOOLEAN /\ bootKey \in BOOLEAN
    BY DEF Restore!Init
<1>6. core \in {"running", "stopped"} /\ cookie \in Restore!AllEpochs \cup {"F", "none"} /\ restoreFaults \in 0..MaxFileFaults
    BY DEF Restore!Init, Restore!AllEpochs, RestoreBounded
<1> QED
    BY <1>2, <1>3, <1>4, <1>5, <1>6 DEF Restore!TypeOK

\* A step of the handler changes the server's side only.
LEMMA ServerFrame ==
    ASSUME NEW i, Restore!Server(i)
    PROVE  /\ UNCHANGED <<restorePage, overlay, bootKey, cookie>>
           /\ restoreFaults' = restoreFaults \/ (restoreFaults < MaxFileFaults /\ restoreFaults' = restoreFaults + 1)
<1>1. CASE Restore!Receive(i) \/ Restore!Copy(i) \/ Restore!Validate(i)
    BY <1>1 DEF Restore!Receive, Restore!Copy, Restore!Validate, Restore!ThisPage, Restore!Fault, Restore!NoFault
<1>2. CASE Restore!StopCore(i) \/ Restore!CloseDB(i) \/ Restore!DropFallback(i) \/ Restore!KeepOld(i)
    BY <1>2 DEF Restore!StopCore, Restore!CloseDB, Restore!DropFallback, Restore!KeepOld, Restore!ThisPage,
        Restore!Fault, Restore!NoFault
<1>3. CASE Restore!MoveIn(i) \/ Restore!Open(i) \/ Restore!Rollback(i)
    BY <1>3 DEF Restore!MoveIn, Restore!Open, Restore!Rollback, Restore!ThisPage, Restore!Fault, Restore!NoFault
<1>4. CASE Restore!StartCore(i) \/ Restore!Answer(i)
    BY <1>4 DEF Restore!StartCore, Restore!Answer, Restore!DeferredFails, Restore!ThisPage, Restore!Fault,
                Restore!NoFault
<1> QED
    BY <1>1, <1>2, <1>3, <1>4 DEF Restore!Server

\* Each stage is followed by one of the stages, with an outcome where it ends.
LEMMA ServerUpload ==
    ASSUME Restore!TypeOK, NEW i \in Imports, Restore!Server(i)
    PROVE  upload' \in [Imports -> Restore!Uploads]
<1> DEFINE Outcomes == {"ok", "rejected", "refused", "rollbackFailed", "notStarted"}
<1>1. \/ \E pc \in Restore!Stages : Restore!Goes(i, pc)
      \/ \E pc \in Restore!Stages, result \in Outcomes : Restore!Ends(i, pc, result)
    <2>1. CASE Restore!Receive(i) \/ Restore!Copy(i) \/ Restore!Validate(i)
        BY <2>1 DEF Restore!Receive, Restore!Copy, Restore!Validate, Restore!Stages
    <2>2. CASE Restore!StopCore(i) \/ Restore!CloseDB(i) \/ Restore!DropFallback(i) \/ Restore!KeepOld(i)
        BY <2>2 DEF Restore!StopCore, Restore!CloseDB, Restore!DropFallback, Restore!KeepOld, Restore!Stages
    <2>3. CASE Restore!MoveIn(i) \/ Restore!Open(i) \/ Restore!Rollback(i)
        BY <2>3 DEF Restore!MoveIn, Restore!Open, Restore!Rollback, Restore!RestoreFallback, Restore!Stages
    <2>4. CASE Restore!StartCore(i) \/ Restore!Answer(i)
        BY <2>4 DEF Restore!StartCore, Restore!Answer, Restore!Stages
    <2> QED
        BY <2>1, <2>2, <2>3, <2>4 DEF Restore!Server
<1> QED
    BY <1>1, GoesSays, EndsSays

LEMMA ServerFiles ==
    ASSUME Restore!TypeOK, NEW i \in Imports, Restore!Server(i)
    PROVE  /\ {path', backup', temp', wal', handle'} \subseteq Restore!Contents
           /\ core' \in {"running", "stopped"}
           /\ warned' \subseteq {"close", "sidecar", "core"}
<1>1. /\ path \in Restore!Contents /\ backup \in Restore!Contents /\ temp \in Restore!Contents /\ handle \in Restore!Contents
      /\ wal \in Restore!Contents
      /\ core \in {"running", "stopped"}
      /\ warned \subseteq {"close", "sidecar", "core"}
    BY DEF Restore!TypeOK
<1>2. /\ Restore!NoFile \in Restore!Contents /\ Restore!Fresh \in Restore!Contents /\ Restore!Partial(i) \in Restore!Contents
      /\ Restore!Mixed \in Restore!Contents
      /\ \A f \in Restore!Contents : Restore!Completed(i, f) \in Restore!Contents
    BY DEF Restore!Contents, Restore!Completed
<1>3. Restore!DeferredCore(i) \subseteq {"running", "stopped"}
    BY <1>1 DEF Restore!DeferredCore
<1>4. CASE Restore!Receive(i) \/ Restore!Copy(i) \/ Restore!Validate(i)
    BY <1>1, <1>2, <1>4 DEF Restore!Receive, Restore!Copy, Restore!Validate, Restore!Sidecar
<1>5. CASE Restore!StopCore(i) \/ Restore!CloseDB(i) \/ Restore!DropFallback(i) \/ Restore!KeepOld(i)
    BY <1>1, <1>2, <1>5 DEF Restore!StopCore, Restore!CloseDB, Restore!DropFallback, Restore!KeepOld,
        Restore!files, Restore!Sidecar
<1>6. CASE Restore!MoveIn(i) \/ Restore!Open(i) \/ Restore!Rollback(i)
    BY <1>1, <1>2, <1>6 DEF Restore!MoveIn, Restore!Open, Restore!Rollback, Restore!RestoreFallback, Restore!files,
                            Restore!Sidecar
<1>7. CASE Restore!StartCore(i) \/ Restore!Answer(i)
    BY <1>1, <1>2, <1>3, <1>7 DEF Restore!StartCore, Restore!Answer, Restore!DeferredFails, Restore!files,
                                  Restore!Sidecar
<1> QED
    BY <1>4, <1>5, <1>6, <1>7 DEF Restore!Server

\* Uploads begin, and end with their connection, only on the page's side.
LEMMA PageUpload ==
    ASSUME RestoreBounded, Restore!TypeOK, [Restore!Next]_restoreVars, \A i \in Imports : ~Restore!Server(i)
    PROVE  upload' \in [Imports -> Restore!Uploads]
<1>1. upload \in [Imports -> Restore!Uploads]
    BY DEF Restore!TypeOK
<1>2. ASSUME NEW i \in Imports, NEW kind \in Kinds, NEW epoch \in Epochs, Restore!importDb(i, kind, epoch)
      PROVE  upload' \in [Imports -> Restore!Uploads]
    BY <1>1, <1>2 DEF Restore!importDb, Restore!NoUpload, Restore!Uploads, Restore!Stages, RestoreBounded
<1>3. ASSUME NEW i \in Imports, Restore!ConnectionLost(i)
      PROVE  upload' \in [Imports -> Restore!Uploads]
    BY <1>1, <1>3, DroppedSays DEF Restore!ConnectionLost
<1>4. ASSUME NEW where, Restore!Load(where)
      PROVE  upload' \in [Imports -> Restore!Uploads]
    BY <1>1, <1>4, DroppedSays DEF Restore!Load
<1>5. CASE UNCHANGED upload
    BY <1>1, <1>5
<1>6. \/ \E i \in Imports, kind \in Kinds, epoch \in Epochs : Restore!importDb(i, kind, epoch)
      \/ \E i \in Imports : Restore!ConnectionLost(i)
      \/ \E where \in {"panel", "login"} : Restore!Load(where)
      \/ UNCHANGED upload
    BY DEF Restore!Next, Restore!PageTimers, Restore!RaceAnswered, Restore!RaceTimer, Restore!PollAnswered,
        Restore!PollLost, Restore!PollDeadline, Restore!Reload,
           Restore!BootHold, Restore!StatusQuery, Restore!Login, restoreVars
<1> QED
    BY <1>2, <1>3, <1>4, <1>5, <1>6

\* Steps that are not the handler's leave the files to it.
LEMMA PageFrame ==
    ASSUME [Restore!Next]_restoreVars, \A i \in Imports : ~Restore!Server(i)
    PROVE  /\ UNCHANGED <<path, backup, temp, handle, core, wal, warned>>
           /\ restoreFaults' = restoreFaults \/ (restoreFaults < MaxFileFaults /\ restoreFaults' = restoreFaults + 1)
<1>1. CASE \E i \in Imports : Restore!ConnectionLost(i)
    BY <1>1 DEF Restore!ConnectionLost, Restore!Fault, Restore!ServerSide, Restore!Sidecar, Restore!files
<1>2. CASE \E i \in Imports, kind \in Kinds, epoch \in Epochs : Restore!importDb(i, kind, epoch)
    BY <1>2 DEF Restore!importDb, Restore!ServerSide, Restore!Sidecar, Restore!files
<1>3. CASE Restore!RaceAnswered \/ Restore!RaceTimer \/ Restore!PollAnswered \/ Restore!PollLost \/ Restore!PollDeadline
    BY <1>3 DEF Restore!RaceAnswered, Restore!RaceTimer, Restore!PollAnswered, Restore!PollLost,
        Restore!PollDeadline, Restore!ServerSide, Restore!Sidecar, Restore!files
<1>4. CASE Restore!Reload \/ Restore!BootHold \/ Restore!StatusQuery \/ Restore!Login
    BY <1>4 DEF Restore!Reload, Restore!BootHold, Restore!StatusQuery, Restore!Login, Restore!ServerSide, Restore!Sidecar,
        Restore!files
<1>5. CASE UNCHANGED restoreVars
    BY <1>5 DEF restoreVars, Restore!files
<1> QED
    BY <1>1, <1>2, <1>3, <1>4, <1>5 DEF Restore!Next, Restore!PageTimers

\* The page's record, the takeover and the boot request after each of its steps.
LEMMA PageSays ==
    ASSUME RestoreBounded, Restore!TypeOK, [Restore!Next]_restoreVars
    PROVE  \/ UNCHANGED <<restorePage, overlay, bootKey>>
           \/ /\ restorePage' \in {[restorePage EXCEPT !.pc = "racing", !.cur = i, !.polls = 0, !.report = "none"] :
                              i \in Imports}
              /\ restorePage.where = "panel" /\ overlay' = TRUE /\ bootKey' = TRUE
           \/ /\ restorePage.pc = "racing" /\ restorePage' = [restorePage EXCEPT !.pc = "polling"]
              /\ UNCHANGED <<overlay, bootKey>>
           \/ /\ restorePage.pc = "polling" /\ restorePage.polls < MaxPolls
              /\ restorePage' = [restorePage EXCEPT !.polls = @ + 1]
              /\ UNCHANGED <<overlay, bootKey>>
           \/ Restore!Waiting /\ \E report \in {"failed", "restored", "timeout"} : Restore!Settled(report)
           \/ \E where \in {"panel", "login"} : Restore!Load(where)
           \/ /\ restorePage.pc = "idle" /\ overlay' = FALSE
              /\ UNCHANGED <<restorePage, bootKey>>
<1>1. CASE \E i \in Imports : Restore!ConnectionLost(i)
    BY <1>1 DEF Restore!ConnectionLost, Restore!ThisPage
<1>2. CASE \E i \in Imports, kind \in Kinds, epoch \in Epochs : Restore!importDb(i, kind, epoch)
    BY <1>2 DEF Restore!importDb
<1>3. CASE Restore!RaceAnswered \/ Restore!RaceTimer
    BY <1>3 DEF Restore!RaceAnswered, Restore!RaceTimer, Restore!Waiting
<1>4. CASE Restore!PollAnswered \/ Restore!PollLost
    BY <1>4 DEF Restore!PollAnswered, Restore!PollLost, Restore!Waiting
<1>5. CASE Restore!PollDeadline
    BY <1>5 DEF Restore!PollDeadline, Restore!Waiting
<1>6. CASE Restore!Reload \/ Restore!StatusQuery \/ Restore!Login
    BY <1>6 DEF Restore!Reload, Restore!StatusQuery, Restore!Login
<1>7. CASE Restore!BootHold
    BY <1>7 DEF Restore!BootHold
<1>8. CASE \E i \in Imports : Restore!Server(i)
    BY <1>8, ServerFrame
<1>9. CASE UNCHANGED restoreVars
    BY <1>9 DEF restoreVars
<1> QED
    BY <1>1, <1>2, <1>3, <1>4, <1>5, <1>6, <1>7, <1>8, <1>9 DEF Restore!Next, Restore!PageTimers

LEMMA PageTypes ==
    ASSUME RestoreBounded, Restore!TypeOK, [Restore!Next]_restoreVars
    PROVE  /\ restorePage' \in [where : {"panel", "login"}, pc : {"idle", "racing", "polling", "reloading"},
                         cur : Imports \cup {"none"}, polls : 0..MaxPolls,
                         report : {"none", "failed", "restored", "timeout"}]
           /\ overlay' \in BOOLEAN /\ bootKey' \in BOOLEAN
<1>1. /\ restorePage \in [where : {"panel", "login"}, pc : {"idle", "racing", "polling", "reloading"},
                   cur : Imports \cup {"none"}, polls : 0..MaxPolls,
                   report : {"none", "failed", "restored", "timeout"}]
      /\ overlay \in BOOLEAN /\ bootKey \in BOOLEAN
    BY DEF Restore!TypeOK
<1>2. CASE UNCHANGED restorePage /\ overlay' \in {overlay, FALSE} /\ UNCHANGED bootKey
    BY <1>1, <1>2
<1>3. CASE /\ restorePage' \in {[restorePage EXCEPT !.pc = "racing", !.cur = i, !.polls = 0, !.report = "none"] :
                              i \in Imports}
           /\ overlay' = TRUE /\ bootKey' = TRUE
    <2>1. PICK i \in Imports : restorePage' = [restorePage EXCEPT !.pc = "racing", !.cur = i, !.polls = 0, !.report = "none"]
        BY <1>3
    <2>2. 0 \in 0..MaxPolls /\ i \in Imports \cup {"none"}
        BY DEF RestoreBounded
    <2>3. restorePage' \in [where : {"panel", "login"}, pc : {"idle", "racing", "polling", "reloading"},
                    cur : Imports \cup {"none"}, polls : 0..MaxPolls,
                    report : {"none", "failed", "restored", "timeout"}]
        BY <1>1, <2>1, <2>2
    <2> QED
        BY <1>3, <2>3
<1>4. CASE restorePage' = [restorePage EXCEPT !.pc = "polling"] /\ UNCHANGED <<overlay, bootKey>>
    BY <1>1, <1>4
<1>5. CASE /\ restorePage.polls < MaxPolls /\ restorePage' = [restorePage EXCEPT !.polls = @ + 1]
           /\ UNCHANGED <<overlay, bootKey>>
    BY <1>1, <1>5 DEF RestoreBounded
<1>6. CASE \E report \in {"failed", "restored", "timeout"} : Restore!Settled(report)
    BY <1>1, <1>6 DEF Restore!Settled
<1>7. CASE \E where \in {"panel", "login"} : Restore!Load(where)
    <2>1. PICK where \in {"panel", "login"} : Restore!Load(where)
        BY <1>7
    <2>2. restorePage' = [restorePage EXCEPT !.where = where, !.pc = "idle", !.polls = 0]
        BY <2>1 DEF Restore!Load
    <2>3. overlay' \in BOOLEAN
        BY <2>1, Zenon DEF Restore!Load
    <2>4. bootKey' \in BOOLEAN
        BY <2>1, Zenon DEF Restore!Load
    <2>5. 0 \in 0..MaxPolls
        BY DEF RestoreBounded
    <2>6. restorePage' \in [where : {"panel", "login"}, pc : {"idle", "racing", "polling", "reloading"},
                    cur : Imports \cup {"none"}, polls : 0..MaxPolls,
                    report : {"none", "failed", "restored", "timeout"}]
        BY <1>1, <2>2, <2>5
    <2> QED
        BY <2>3, <2>4, <2>6
<1> QED
    BY <1>2, <1>3, <1>4, <1>5, <1>6, <1>7, PageSays

LEMMA CookieTypes ==
    ASSUME Restore!TypeOK, [Restore!Next]_restoreVars
    PROVE  cookie' \in Restore!AllEpochs \cup {"F", "none"}
<1>1. cookie \in Restore!AllEpochs \cup {"F", "none"} /\ handle \in Restore!Contents /\ upload \in [Imports -> Restore!Uploads]
    BY DEF Restore!TypeOK
<1>2. Restore!EpochOf(handle) \in Restore!AllEpochs \cup {"F"}
    <2>1. CASE Restore!IsUpload(handle)
        <3>1. \E i \in Imports : handle = Restore!Upload(i) \/ handle = Restore!Partial(i)
            <4>1. \A f \in {Restore!NoFile, Restore!Old, Restore!Fresh, Restore!Mixed} : ~Restore!IsUpload(f)
                BY DEF Restore!IsUpload, Restore!NoFile, Restore!Old, Restore!Fresh, Restore!Mixed
            <4> QED
                BY <1>1, <2>1, <4>1 DEF Restore!Contents
        <3>2. handle[1] \in Imports
            BY <3>1 DEF Restore!Upload, Restore!Partial
        <3> QED
            BY <1>1, <2>1, <3>2 DEF Restore!EpochOf, Restore!Uploads
    <2>2. CASE ~Restore!IsUpload(handle)
        BY <2>2 DEF Restore!EpochOf, Restore!AllEpochs
    <2> QED
        BY <2>1, <2>2
<1>3. CASE \E i \in Imports : Restore!Server(i)
    BY <1>1, <1>3, ServerFrame
<1>4. CASE \E i \in Imports : Restore!ConnectionLost(i)
    BY <1>1, <1>4 DEF Restore!ConnectionLost, Restore!ThisPage
<1>5. CASE \E i \in Imports, kind \in Kinds, epoch \in Epochs : Restore!importDb(i, kind, epoch)
    BY <1>1, <1>5 DEF Restore!importDb, Restore!GetLoginUser
<1>6. CASE Restore!PageTimers
    BY <1>1, <1>6 DEF Restore!PageTimers, Restore!RaceAnswered, Restore!RaceTimer, Restore!PollAnswered,
        Restore!PollLost, Restore!PollDeadline, Restore!Reload,
                      Restore!BootHold, Restore!GetLoginUser
<1>7. CASE Restore!StatusQuery
    BY <1>1, <1>7 DEF Restore!StatusQuery, Restore!GetLoginUser
<1>8. CASE Restore!Login
    BY <1>2, <1>8 DEF Restore!Login
<1>9. CASE UNCHANGED restoreVars
    BY <1>1, <1>9 DEF restoreVars
<1> QED
    BY <1>3, <1>4, <1>5, <1>6, <1>7, <1>8, <1>9 DEF Restore!Next

LEMMA RestoreTypeStep ==
    ASSUME RestoreBounded, Restore!TypeOK, [Restore!Next]_restoreVars
    PROVE  Restore!TypeOK'
<1>1. upload' \in [Imports -> Restore!Uploads]
    BY ServerUpload, PageUpload
<1>2. /\ {path', backup', temp', wal', handle'} \subseteq Restore!Contents
      /\ core' \in {"running", "stopped"} /\ warned' \subseteq {"close", "sidecar", "core"}
    BY ServerFiles, PageFrame DEF Restore!TypeOK
<1>3. restoreFaults' \in 0..MaxFileFaults
    <2>1. restoreFaults \in 0..MaxFileFaults
        BY DEF Restore!TypeOK
    <2>2. restoreFaults' = restoreFaults \/ (restoreFaults < MaxFileFaults /\ restoreFaults' = restoreFaults + 1)
        BY ServerFrame, PageFrame
    <2> QED
        BY <2>1, <2>2 DEF RestoreBounded
<1> QED
    BY <1>1, <1>2, <1>3, PageTypes, CookieTypes DEF Restore!TypeOK

-----------------------------------------------------------------------------
(* The takeover *)

LEMMA InitPage == ASSUME Restore!Init PROVE PageInv
    BY DEF Restore!Init, Restore!Idle, PageInv, Restore!TakeoverStands, Restore!Waiting

LEMMA PageStep ==
    ASSUME RestoreBounded, Restore!TypeOK, PageInv, [Restore!Next]_restoreVars
    PROVE  PageInv'
<1>1. /\ restorePage \in [where : {"panel", "login"}, pc : {"idle", "racing", "polling", "reloading"},
                   cur : Imports \cup {"none"}, polls : 0..MaxPolls,
                   report : {"none", "failed", "restored", "timeout"}]
      /\ restorePage.where = "panel" => (Restore!Waiting <=> bootKey) /\ (Restore!Waiting => overlay)
      /\ restorePage.where = "login" => restorePage.pc = "idle"
    BY DEF Restore!TypeOK, PageInv, Restore!TakeoverStands
<1>2. CASE UNCHANGED <<restorePage, overlay, bootKey>>
    BY <1>1, <1>2 DEF PageInv, Restore!TakeoverStands, Restore!Waiting
<1>3. CASE /\ restorePage' \in {[restorePage EXCEPT !.pc = "racing", !.cur = i, !.polls = 0, !.report = "none"] :
                              i \in Imports}
           /\ restorePage.where = "panel" /\ overlay' = TRUE /\ bootKey' = TRUE
    BY <1>1, <1>3 DEF PageInv, Restore!TakeoverStands, Restore!Waiting
<1>4. CASE /\ restorePage.pc = "racing" /\ restorePage' = [restorePage EXCEPT !.pc = "polling"]
           /\ UNCHANGED <<overlay, bootKey>>
    BY <1>1, <1>4 DEF PageInv, Restore!TakeoverStands, Restore!Waiting
<1>5. CASE /\ restorePage.pc = "polling" /\ restorePage' = [restorePage EXCEPT !.polls = @ + 1]
           /\ UNCHANGED <<overlay, bootKey>>
    BY <1>1, <1>5 DEF PageInv, Restore!TakeoverStands, Restore!Waiting
<1>6. CASE Restore!Waiting /\ \E report \in {"failed", "restored", "timeout"} : Restore!Settled(report)
    <2>1. PICK report \in {"failed", "restored", "timeout"} : Restore!Settled(report)
        BY <1>6
    <2>2. restorePage'.pc \in {"idle", "reloading"} /\ restorePage'.where = restorePage.where /\ restorePage.where # "login"
        BY <1>1, <1>6, <2>1 DEF Restore!Settled, Restore!Waiting
    <2>3. ~bootKey'
        BY <2>1 DEF Restore!Settled
    <2> QED
        BY <1>1, <2>2, <2>3 DEF PageInv, Restore!TakeoverStands, Restore!Waiting
<1>7. CASE \E where \in {"panel", "login"} : Restore!Load(where)
    <2>1. PICK where \in {"panel", "login"} : Restore!Load(where)
        BY <1>7
    <2>2. restorePage'.where = where /\ restorePage'.pc = "idle"
        BY <1>1, <2>1 DEF Restore!Load
    <2>3. where = "panel" => ~bootKey'
        BY <2>1, Zenon DEF Restore!Load
    <2> QED
        BY <2>2, <2>3 DEF PageInv, Restore!TakeoverStands, Restore!Waiting
<1>8. CASE restorePage.pc = "idle" /\ overlay' = FALSE /\ UNCHANGED <<restorePage, bootKey>>
    BY <1>1, <1>8 DEF PageInv, Restore!TakeoverStands, Restore!Waiting
<1> QED
    BY <1>2, <1>3, <1>4, <1>5, <1>6, <1>7, <1>8, PageSays

-----------------------------------------------------------------------------
(* The files, for one import *)

LEMMA ValidateSteps ==
    ASSUME Restore!TypeOK, NEW i, Alone(i), FileInv(i),
           Restore!Receive(i) \/ Restore!Copy(i) \/ Restore!Validate(i) \/ Restore!StopCore(i) \/ Restore!CloseDB(i)
    PROVE  FileInv(i)'
<1>1. i \in Imports
    BY DEF Alone
<1>2. CASE Restore!Receive(i)
    <2>1. /\ upload[i].pc = "sending" /\ upload[i].result = "none"
          /\ Untouched /\ core = "running"
        BY <1>2 DEF Restore!Receive, FileInv, CopyInv, SwapInv, OutcomeInv, DownInv, Restore!AtStage, Untouched,
            Replaced, CloseTried, Restore!Alone
    <2>2. UNCHANGED <<path, backup, handle, core, wal, warned>>
        BY <1>2 DEF Restore!Receive, Restore!files, Restore!Sidecar
    <2>3. CASE Restore!Goes(i, "copying") /\ temp' = Restore!Partial(i)
        <3>1. /\ upload'[i].pc = "copying" /\ upload'[i].kind = upload[i].kind
              /\ upload'[i].result = upload[i].result
            BY <1>1, <2>3, GoesSays DEF Restore!Stages
        <3> QED
            BY <2>1, <2>2, <2>3, <3>1 DEF FileInv, CopyInv, SwapInv, OutcomeInv, DownInv, Restore!AtStage,
                                          Untouched,
            Replaced, CloseTried, Restore!Alone
    <2>4. CASE Restore!Ends(i, "answered", "rejected")
        <3>1. /\ upload'[i].pc = "answered" /\ upload'[i].kind = upload[i].kind
              /\ upload'[i].result = "rejected"
            BY <1>1, <2>4, EndsSays DEF Restore!Stages
        <3> QED
            BY <2>1, <2>2, <2>4, <3>1 DEF FileInv, CopyInv, SwapInv, OutcomeInv, DownInv, Restore!AtStage,
                                          Untouched,
            Replaced, CloseTried, Restore!Alone
    <2> QED
        BY <1>2, <2>1, <2>2, <2>3, <2>4 DEF Restore!Receive
<1>3. CASE Restore!Copy(i)
    <2>1. /\ upload[i].pc = "copying" /\ upload[i].result = "none"
          /\ Untouched /\ core = "running" /\ temp = Restore!Partial(i)
        BY <1>3 DEF Restore!Copy, FileInv, CopyInv, SwapInv, OutcomeInv, DownInv, Restore!AtStage, Untouched,
            Replaced, CloseTried, Restore!Alone
    <2>2. UNCHANGED <<core, warned>>
        BY <1>3 DEF Restore!Copy, Restore!files, Restore!Sidecar
    <2>3. CASE /\ Restore!Goes(i, "copied") /\ path' = Restore!Completed(i, path) /\ backup' = Restore!Completed(i, backup)
               /\ temp' = Restore!Completed(i, temp) /\ handle' = Restore!Completed(i, handle)
               /\ wal' = Restore!Completed(i, wal)
        <3>1. /\ upload'[i].pc = "copied" /\ upload'[i].kind = upload[i].kind
              /\ upload'[i].result = upload[i].result
            BY <1>1, <2>3, GoesSays DEF Restore!Stages
        <3> QED
            BY <2>1, <2>2, <2>3, <3>1, ContentsDiffer DEF Restore!Completed, FileInv, CopyInv, SwapInv,
                                                          OutcomeInv, DownInv, Restore!AtStage, Untouched,
            Replaced, CloseTried, Restore!Alone
    <2>4. CASE Restore!Ends(i, "answered", "rejected") /\ UNCHANGED <<path, backup, handle, wal>>
        <3>1. /\ upload'[i].pc = "answered" /\ upload'[i].kind = upload[i].kind
              /\ upload'[i].result = "rejected"
            BY <1>1, <2>4, EndsSays DEF Restore!Stages
        <3> QED
            BY <2>1, <2>2, <2>4, <3>1 DEF FileInv, CopyInv, SwapInv, OutcomeInv, DownInv, Restore!AtStage,
                                          Untouched,
            Replaced, CloseTried, Restore!Alone
    <2> QED
        BY <1>3, <2>1, <2>2, <2>3, <2>4 DEF Restore!Copy
<1>4. CASE Restore!Validate(i)
    <2>1. /\ upload[i].pc = "copied" /\ upload[i].result = "none"
          /\ Untouched /\ core = "running" /\ temp = Restore!Upload(i)
        BY <1>4 DEF Restore!Validate, FileInv, CopyInv, SwapInv, OutcomeInv, DownInv, Restore!AtStage,
            Untouched,
            Replaced, CloseTried, Restore!Alone
    <2>2. UNCHANGED <<path, backup, handle, core, wal, warned>>
        BY <1>4 DEF Restore!Validate, Restore!files, Restore!Sidecar
    <2>3. CASE Restore!Goes(i, "validated") /\ Restore!Sound(temp) /\ temp' = temp
        <3>1. /\ upload'[i].pc = "validated" /\ upload'[i].kind = upload[i].kind
              /\ upload'[i].result = upload[i].result
            BY <1>1, <2>3, GoesSays DEF Restore!Stages
        <3> QED
            BY <2>1, <2>2, <2>3, <3>1, UsableSays DEF FileInv, CopyInv, SwapInv, OutcomeInv, DownInv,
                                                      Restore!AtStage, Untouched,
            Replaced, CloseTried, Restore!Alone
    <2>4. CASE Restore!Ends(i, "answered", "rejected")
        <3>1. /\ upload'[i].pc = "answered" /\ upload'[i].kind = upload[i].kind
              /\ upload'[i].result = "rejected"
            BY <1>1, <2>4, EndsSays DEF Restore!Stages
        <3> QED
            BY <2>1, <2>2, <2>4, <3>1 DEF FileInv, CopyInv, SwapInv, OutcomeInv, DownInv, Restore!AtStage,
                                          Untouched,
            Replaced, CloseTried, Restore!Alone
    <2> QED
        BY <1>4, <2>1, <2>2, <2>3, <2>4 DEF Restore!Validate
<1>5. CASE Restore!StopCore(i)
    <2>1. /\ upload[i].pc = "validated" /\ upload[i].result = "none" /\ Untouched
          /\ temp = Restore!Upload(i) /\ upload[i].kind \in {"good", "foreign"}
        BY <1>5 DEF Restore!StopCore, FileInv, CopyInv, SwapInv, OutcomeInv, DownInv, Restore!AtStage,
            Untouched,
            Replaced, CloseTried, Restore!Alone
    <2>2. UNCHANGED <<path, backup, temp, handle, wal, warned>>
        BY <1>5 DEF Restore!StopCore, Restore!files, Restore!Sidecar
    <2>3. CASE Restore!Goes(i, "stopped")
        <3>1. /\ upload'[i].pc = "stopped" /\ upload'[i].kind = upload[i].kind
              /\ upload'[i].result = upload[i].result
            BY <1>1, <2>3, GoesSays DEF Restore!Stages
        <3> QED
            BY <2>1, <2>2, <2>3, <3>1 DEF FileInv, CopyInv, SwapInv, OutcomeInv, DownInv, Restore!AtStage,
                                          Untouched,
            Replaced, CloseTried, Restore!Alone
    <2> QED
        BY <1>5, <2>1, <2>2, <2>3 DEF Restore!StopCore
<1>6. CASE Restore!CloseDB(i)
    <2>1. /\ upload[i].pc = "stopped" /\ upload[i].result = "none" /\ Untouched
          /\ temp = Restore!Upload(i) /\ upload[i].kind \in {"good", "foreign"}
        BY <1>6 DEF Restore!CloseDB, FileInv, CopyInv, SwapInv, OutcomeInv, DownInv, Restore!AtStage, Untouched,
            Replaced, CloseTried, Restore!Alone
    <2>2. /\ UNCHANGED <<path, backup, temp>>
          /\ handle' \in {Restore!NoFile, Restore!Old} /\ wal' \in {Restore!NoFile, Restore!Old}
          /\ wal' # Restore!NoFile => "close" \in warned'
        BY <1>6, <2>1 DEF Restore!CloseDB, Restore!files, Untouched
    <2>3. CASE Restore!Goes(i, "closed")
        <3>1. /\ upload'[i].pc = "closed" /\ upload'[i].kind = upload[i].kind
              /\ upload'[i].result = upload[i].result
            BY <1>1, <2>3, GoesSays DEF Restore!Stages
        <3> QED
            BY <2>1, <2>2, <2>3, <3>1 DEF FileInv, CopyInv, SwapInv, OutcomeInv, DownInv, Restore!AtStage,
                                          Untouched,
            Replaced, CloseTried, Restore!Alone
    <2> QED
        BY <1>6, <2>1, <2>2, <2>3 DEF Restore!CloseDB
<1> QED
    BY <1>2, <1>3, <1>4, <1>5, <1>6

LEMMA SwapSteps ==
    ASSUME Restore!TypeOK, NEW i, Alone(i), FileInv(i),
           Restore!DropFallback(i) \/ Restore!KeepOld(i) \/ Restore!MoveIn(i) \/ Restore!Open(i)
    PROVE  FileInv(i)'
<1>1. i \in Imports
    BY DEF Alone
<1>2. CASE Restore!DropFallback(i)
    <2>1. /\ upload[i].pc = "closed" /\ upload[i].result = "none"
          /\ path = Restore!Old /\ backup = Restore!NoFile /\ CloseTried
          /\ temp = Restore!Upload(i) /\ upload[i].kind \in {"good", "foreign"}
        BY <1>2 DEF Restore!DropFallback, FileInv, CopyInv, SwapInv, OutcomeInv, DownInv, Restore!AtStage,
            Untouched,
            Replaced, CloseTried, Restore!Alone
    <2>2. UNCHANGED <<path, temp, handle, wal, warned>>
        BY <1>2 DEF Restore!DropFallback, Restore!files, Restore!Sidecar
    <2>3. CASE Restore!Goes(i, "cleared") /\ backup' = Restore!NoFile
        <3>1. /\ upload'[i].pc = "cleared" /\ upload'[i].kind = upload[i].kind
              /\ upload'[i].result = upload[i].result
            BY <1>1, <2>3, GoesSays DEF Restore!Stages
        <3> QED
            BY <2>1, <2>2, <2>3, <3>1 DEF FileInv, CopyInv, SwapInv, OutcomeInv, DownInv, Restore!AtStage,
                                          Untouched,
            Replaced, CloseTried, Restore!Alone
    <2> QED
        BY <1>2, <2>1, <2>2, <2>3 DEF Restore!DropFallback
<1>3. CASE Restore!KeepOld(i)
    <2>1. /\ upload[i].pc = "cleared" /\ upload[i].result = "none"
          /\ path = Restore!Old /\ backup = Restore!NoFile /\ CloseTried
          /\ temp = Restore!Upload(i) /\ upload[i].kind \in {"good", "foreign"}
        BY <1>3 DEF Restore!KeepOld, FileInv, CopyInv, SwapInv, OutcomeInv, DownInv, Restore!AtStage, Untouched,
            Replaced, CloseTried, Restore!Alone
    <2>2. UNCHANGED <<temp, handle, wal, warned>>
        BY <1>3 DEF Restore!KeepOld, Restore!files, Restore!Sidecar
    <2>3. CASE Restore!Goes(i, "kept") /\ backup' = path /\ path' = Restore!NoFile
        <3>1. /\ upload'[i].pc = "kept" /\ upload'[i].kind = upload[i].kind
              /\ upload'[i].result = upload[i].result
            BY <1>1, <2>3, GoesSays DEF Restore!Stages
        <3> QED
            BY <2>1, <2>2, <2>3, <3>1 DEF FileInv, CopyInv, SwapInv, OutcomeInv, DownInv, Restore!AtStage,
                                          Untouched,
            Replaced, CloseTried, Restore!Alone
    <2>4. CASE Restore!Ends(i, "leaving", "refused") /\ UNCHANGED <<path, backup>>
        <3>1. /\ upload'[i].pc = "leaving" /\ upload'[i].kind = upload[i].kind
              /\ upload'[i].result = "refused"
            BY <1>1, <2>4, EndsSays DEF Restore!Stages
        <3> QED
            BY <2>1, <2>2, <2>4, <3>1 DEF FileInv, CopyInv, SwapInv, OutcomeInv, DownInv, Restore!AtStage,
                                          Untouched,
            Replaced, CloseTried, Restore!Alone
    <2> QED
        BY <1>3, <2>1, <2>2, <2>3, <2>4 DEF Restore!KeepOld
<1>4. CASE Restore!MoveIn(i)
    <2>1. /\ upload[i].pc = "kept" /\ upload[i].result = "none"
          /\ path = Restore!NoFile /\ backup = Restore!Old /\ CloseTried
          /\ temp = Restore!Upload(i)
        BY <1>4 DEF Restore!MoveIn, FileInv, CopyInv, SwapInv, OutcomeInv, DownInv, Restore!AtStage, Untouched,
            Replaced, CloseTried, Restore!Alone
    <2>2. UNCHANGED <<handle, wal, warned>>
        BY <1>4 DEF Restore!MoveIn, Restore!files, Restore!Sidecar
    <2>3. CASE Restore!Goes(i, "moved") /\ path' = temp /\ backup' = backup
        <3>1. /\ upload'[i].pc = "moved" /\ upload'[i].kind = upload[i].kind
              /\ upload'[i].result = upload[i].result
            BY <1>1, <2>3, GoesSays DEF Restore!Stages
        <3> QED
            BY <2>1, <2>2, <2>3, <3>1 DEF FileInv, CopyInv, SwapInv, OutcomeInv, DownInv, Restore!AtStage,
                                          Untouched,
            Replaced, CloseTried, Restore!Alone
    <2>4. CASE Restore!Goes(i, "failed") /\ backup' = backup
        <3>1. /\ upload'[i].pc = "failed" /\ upload'[i].kind = upload[i].kind
              /\ upload'[i].result = upload[i].result
            BY <1>1, <2>4, GoesSays DEF Restore!Stages
        <3> QED
            BY <2>1, <2>2, <2>4, <3>1 DEF FileInv, CopyInv, SwapInv, OutcomeInv, DownInv, Restore!AtStage,
                                          Untouched,
            Replaced, CloseTried, Restore!Alone
    <2> QED
        BY <1>4, <2>1, <2>2, <2>3, <2>4 DEF Restore!MoveIn, Restore!files
<1>5. CASE Restore!Open(i)
    <2>1. /\ upload[i].pc = "moved" /\ upload[i].result = "none"
          /\ path = Restore!Upload(i) /\ backup = Restore!Old /\ CloseTried
        BY <1>5 DEF Restore!Open, FileInv, SwapInv, OutcomeInv, Restore!AtStage
    <2>2. handle' = path' /\ backup' = backup /\ warned' = warned
        BY <1>5 DEF Restore!Open
    <2>3. \/ path' = Restore!Upload(i) /\ (Restore!Usable(path') <=> upload[i].kind = "good")
          \/ path' = Restore!Mixed /\ "close" \in warned
        BY <1>5, <2>1, ContentsDiffer, UsableSays DEF Restore!Open, Restore!Alone, CloseTried
    <2>4. CASE Restore!Goes(i, "opened") /\ (Restore!Usable(path') \/ path' = Restore!Mixed) /\ wal' = Restore!NoFile
        <3>1. /\ upload'[i].pc = "opened" /\ upload'[i].kind = upload[i].kind
              /\ upload'[i].result = upload[i].result
            BY <1>1, <2>4, GoesSays DEF Restore!Stages
        <3>2. Replaced(i)'
            BY <2>2, <2>3, <2>4, <3>1, ContentsDiffer DEF Replaced
        <3> QED
            BY <2>1, <2>2, <3>1, <3>2 DEF FileInv, CopyInv, SwapInv, OutcomeInv, DownInv, Restore!AtStage
    <2>5. CASE Restore!Goes(i, "failed")
        <3>1. /\ upload'[i].pc = "failed" /\ upload'[i].kind = upload[i].kind
              /\ upload'[i].result = upload[i].result
            BY <1>1, <2>5, GoesSays DEF Restore!Stages
        <3> QED
            BY <2>1, <2>2, <3>1 DEF FileInv, CopyInv, SwapInv, OutcomeInv, DownInv, Restore!AtStage
    <2> QED
        BY <1>5, <2>4, <2>5 DEF Restore!Open
<1> QED
    BY <1>2, <1>3, <1>4, <1>5

LEMMA EndSteps ==
    ASSUME Restore!TypeOK, NEW i, Alone(i), FileInv(i),
           Restore!Rollback(i) \/ Restore!StartCore(i) \/ Restore!Answer(i)
    PROVE  FileInv(i)'
<1>1. i \in Imports
    BY DEF Alone
<1>2. CASE Restore!Rollback(i)
    <2>1. upload[i].pc = "failed" /\ upload[i].result = "none" /\ backup = Restore!Old
        BY <1>2 DEF Restore!Rollback, FileInv, SwapInv, OutcomeInv, Restore!AtStage
    <2>2. /\ UNCHANGED <<handle, core, wal>>
          /\ Restore!Alone(path)' \/ "sidecar" \in warned'
        BY <1>2 DEF Restore!Rollback, Restore!Alone
    <2>3. CASE Restore!Ends(i, "unwinding", "refused") /\ path' = backup /\ backup' = Restore!NoFile
        <3>1. /\ upload'[i].pc = "unwinding" /\ upload'[i].kind = upload[i].kind
              /\ upload'[i].result = "refused"
            BY <1>1, <2>3, EndsSays DEF Restore!Stages
        <3> QED
            BY <2>1, <2>2, <2>3, <3>1 DEF FileInv, CopyInv, SwapInv, OutcomeInv, DownInv, Restore!AtStage
    <2>4. CASE Restore!Ends(i, "unwinding", "rollbackFailed")
        <3>1. /\ upload'[i].pc = "unwinding" /\ upload'[i].kind = upload[i].kind
              /\ upload'[i].result = "rollbackFailed"
            BY <1>1, <2>4, EndsSays DEF Restore!Stages
        <3> QED
            BY <2>1, <2>2, <3>1 DEF FileInv, CopyInv, SwapInv, OutcomeInv, DownInv, Restore!AtStage
    <2> QED
        BY <1>2, <2>1, <2>3, <2>4 DEF Restore!Rollback, Restore!RestoreFallback
<1>3. CASE Restore!StartCore(i)
    <2>1. upload[i].pc = "opened" /\ upload[i].result = "none" /\ Replaced(i)
        BY <1>3 DEF Restore!StartCore, FileInv, CopyInv, SwapInv, OutcomeInv, DownInv, Restore!AtStage,
            Untouched,
            Replaced, CloseTried, Restore!Alone
    <2>2. UNCHANGED <<path, handle, wal, warned>>
        BY <1>3 DEF Restore!StartCore, Restore!files, Restore!Sidecar
    <2>3. CASE Restore!Ends(i, "unwinding", "ok") /\ core' = "running"
        <3>1. /\ upload'[i].pc = "unwinding" /\ upload'[i].kind = upload[i].kind
              /\ upload'[i].result = "ok"
            BY <1>1, <2>3, EndsSays DEF Restore!Stages
        <3> QED
            BY <2>1, <2>2, <2>3, <3>1 DEF FileInv, CopyInv, SwapInv, OutcomeInv, DownInv, Restore!AtStage,
                                          Untouched,
            Replaced, CloseTried, Restore!Alone
    <2>4. CASE Restore!Ends(i, "unwinding", "notStarted")
        <3>1. /\ upload'[i].pc = "unwinding" /\ upload'[i].kind = upload[i].kind
              /\ upload'[i].result = "notStarted"
            BY <1>1, <2>4, EndsSays DEF Restore!Stages
        <3> QED
            BY <2>1, <2>2, <2>4, <3>1 DEF FileInv, CopyInv, SwapInv, OutcomeInv, DownInv, Restore!AtStage,
                                          Untouched,
            Replaced, CloseTried, Restore!Alone
    <2> QED
        BY <1>3, <2>1, <2>2, <2>3, <2>4 DEF Restore!StartCore
<1>4. CASE Restore!Answer(i)
    <2>1. /\ upload[i].pc \in {"leaving", "unwinding"} /\ Restore!Goes(i, "answered")
          /\ UNCHANGED <<path, handle, wal>> /\ warned \subseteq warned'
          /\ \/ core' \in Restore!DeferredCore(i)
             \/ Restore!Deferred(i) /\ "core" \in warned'
        BY <1>4 DEF Restore!Answer, Restore!DeferredFails
    <2>2. /\ upload'[i].pc = "answered" /\ upload'[i].kind = upload[i].kind
          /\ upload'[i].result = upload[i].result
        BY <1>1, <2>1, GoesSays DEF Restore!Stages
    <2>3. upload[i].result \notin {"none", "rejected"}
        BY <2>1 DEF FileInv, OutcomeInv, Restore!AtStage
    <2>4. CopyInv(i)' /\ SwapInv(i)'
        BY <2>2 DEF CopyInv, SwapInv, Restore!AtStage
    <2>5. OutcomeInv(i)'
        BY <2>1, <2>2, <2>3 DEF FileInv, OutcomeInv, Restore!AtStage, Replaced, Restore!Alone
    <2>6. DownInv(i)'
        <3>1. CASE upload[i].result \in {"ok", "notStarted"}
            <4>1. core' = core /\ (upload[i].result = "ok" => core = "running")
                BY <2>1, <3>1 DEF Restore!DeferredCore, Restore!Deferred, FileInv, DownInv
            <4> QED
                BY <2>2, <2>3, <3>1, <4>1 DEF DownInv, Restore!AtStage
        <3>2. CASE upload[i].result \notin {"ok", "notStarted"}
            <4>1. \A j \in Imports : upload'[j].kind = upload[j].kind
                BY <1>1, <2>1 DEF Restore!Goes, Restore!TypeOK, Restore!Uploads
            <4>2. Restore!Usable(handle)' <=> Restore!Usable(handle)
                BY <2>1, <4>1, UsableStays
            <4>3. core' = "running" \/ ~Restore!Usable(handle) \/ "core" \in warned'
                BY <2>1, <3>2, UsableSays DEF Restore!DeferredCore, Restore!Deferred
            <4> QED
                BY <2>2, <2>3, <3>2, <4>2, <4>3 DEF DownInv, Restore!AtStage
        <3> QED
            BY <3>1, <3>2
    <2> QED
        BY <2>4, <2>5, <2>6 DEF FileInv
<1> QED
    BY <1>2, <1>3, <1>4

\* The other imports have not begun.
LEMMA OthersIdle ==
    ASSUME NEW i, Alone(i), ~Restore!Server(i)
    PROVE  \A j \in Imports : ~Restore!Server(j)
<1> SUFFICES ASSUME NEW j \in Imports \ {i}, Restore!Server(j) PROVE FALSE
    OBVIOUS
<1>1. upload[j].pc = "none"
    BY DEF Alone, Restore!NoUpload
<1> QED
    BY <1>1 DEF Restore!Server, Restore!Receive, Restore!Copy, Restore!Validate, Restore!StopCore,
        Restore!CloseDB, Restore!DropFallback, Restore!KeepOld, Restore!MoveIn, Restore!Open, Restore!Rollback,
        Restore!StartCore, Restore!Answer, Restore!AtStage

\* A refused import, and one whose connection is lost while it is on its way, leave
\* everything as it was.
LEMMA PageFiles ==
    ASSUME RestoreBounded, Restore!TypeOK, NEW i, Alone(i), FileInv(i), [Restore!Next]_restoreVars,
           \A j \in Imports \ {i} : upload'[j] = upload[j], ~Restore!Server(i)
    PROVE  FileInv(i)'
<1>1. UNCHANGED <<path, backup, temp, handle, core, wal, warned>>
    BY OthersIdle, PageFrame
<1>2. upload \in [Imports -> Restore!Uploads] /\ i \in Imports
    BY DEF Restore!TypeOK, Alone
<1>3. \/ upload' = upload
      \/ /\ Restore!AtStage(i, "none")
         /\ upload'[i].pc = "sending" /\ upload'[i].result = "none"
      \/ /\ Restore!AtStage(i, "none")
         /\ upload'[i].pc = "answered" /\ upload'[i].result = "rejected"
      \/ /\ upload'[i].kind = upload[i].kind
         /\ upload'[i] = Restore!Dropped(upload[i]) \/ upload'[i] = upload[i]
    <2>1. ASSUME NEW kind \in Kinds, NEW epoch \in Epochs, Restore!importDb(i, kind, epoch)
          PROVE  /\ Restore!AtStage(i, "none")
                 /\ \/ upload'[i].pc = "sending" /\ upload'[i].result = "none"
                    \/ upload'[i].pc = "answered" /\ upload'[i].result = "rejected"
        BY <1>2, <2>1 DEF Restore!importDb, Restore!NoUpload, Restore!Uploads
    <2>2. ASSUME Restore!ConnectionLost(i)
          PROVE  upload'[i] = Restore!Dropped(upload[i])
        BY <1>2, <2>2 DEF Restore!ConnectionLost
    <2>3. ASSUME NEW where, Restore!Load(where)
          PROVE  upload'[i] = Restore!Dropped(upload[i]) \/ upload'[i] = upload[i]
        BY <1>2, <2>3 DEF Restore!Load
    <2>4. Restore!Dropped(upload[i]).kind = upload[i].kind
        BY <1>2, DroppedSays
    <2>5. ASSUME NEW j \in Imports \ {i},
                 Restore!ConnectionLost(j) \/ \E kind \in Kinds, epoch \in Epochs : Restore!importDb(j, kind, epoch)
          PROVE  upload'[i] = upload[i]
        BY <1>2, <2>5 DEF Restore!ConnectionLost, Restore!importDb
    <2>6. \A j \in Imports : ~Restore!Server(j)
        BY OthersIdle
    <2>7. \/ \E kind \in Kinds, epoch \in Epochs : Restore!importDb(i, kind, epoch)
          \/ Restore!ConnectionLost(i)
          \/ \E j \in Imports \ {i} :
                Restore!ConnectionLost(j) \/ \E kind \in Kinds, epoch \in Epochs : Restore!importDb(j, kind, epoch)
          \/ \E where \in {"panel", "login"} : Restore!Load(where)
          \/ UNCHANGED upload
        BY <2>6 DEF Restore!Next, Restore!PageTimers, Restore!RaceAnswered, Restore!RaceTimer,
            Restore!PollAnswered, Restore!PollLost, Restore!PollDeadline, Restore!Reload,
               Restore!BootHold, Restore!StatusQuery, Restore!Login, restoreVars
    <2> QED
        BY <2>1, <2>2, <2>3, <2>4, <2>5, <2>7
<1>4. \A j \in Imports \ {i} : upload'[j].kind = upload[j].kind
    OBVIOUS
<1>8. CASE upload'[i] = upload[i]
    <2>1. Restore!Usable(handle)' <=> Restore!Usable(handle)
        BY <1>1, <1>4, <1>8, UsableStays
    <2> QED
        BY <1>1, <1>8, <2>1 DEF FileInv, CopyInv, SwapInv, OutcomeInv, DownInv, Restore!AtStage, Untouched,
            Replaced, CloseTried, Restore!Alone
<1>5. CASE Restore!AtStage(i, "none") /\ upload'[i].pc = "sending" /\ upload'[i].result = "none"
    BY <1>1, <1>5 DEF FileInv, CopyInv, SwapInv, OutcomeInv, DownInv, Restore!AtStage, Untouched,
            Replaced, CloseTried, Restore!Alone
<1>6. CASE Restore!AtStage(i, "none") /\ upload'[i].pc = "answered" /\ upload'[i].result = "rejected"
    BY <1>1, <1>6 DEF FileInv, CopyInv, SwapInv, OutcomeInv, DownInv, Restore!AtStage, Untouched,
            Replaced, CloseTried, Restore!Alone
<1>7. CASE upload'[i].kind = upload[i].kind /\ upload'[i] = Restore!Dropped(upload[i])
    <2>1. upload[i].pc = "sending" =>
            upload'[i].pc = "answered" /\ upload'[i].result = "rejected"
        BY <1>2, <1>7, DroppedSays
    <2>2. upload[i].pc # "sending" =>
            upload'[i].pc = upload[i].pc /\ upload'[i].result = upload[i].result
        BY <1>2, <1>7, DroppedSays
    <2>3. Restore!Usable(handle)' <=> Restore!Usable(handle)
        BY <1>1, <1>4, <1>7, UsableStays
    <2>4. CASE upload[i].pc = "sending"
        BY <1>1, <2>1, <2>4 DEF FileInv, CopyInv, SwapInv, OutcomeInv, DownInv, Restore!AtStage, Untouched,
            Replaced, CloseTried, Restore!Alone
    <2>5. CASE upload[i].pc # "sending"
        BY <1>1, <1>7, <2>2, <2>3, <2>5 DEF FileInv, CopyInv, SwapInv, OutcomeInv, DownInv, Restore!AtStage,
                                            Untouched,
            Replaced, CloseTried, Restore!Alone
    <2> QED
        BY <2>4, <2>5
<1> QED
    BY <1>3, <1>5, <1>6, <1>7, <1>8

LEMMA FileStep ==
    ASSUME RestoreBounded, Restore!TypeOK, NEW i, Alone(i), FileInv(i), [Restore!Next]_restoreVars,
           \A j \in Imports \ {i} : upload'[j] = upload[j]
    PROVE  FileInv(i)' /\ Alone(i)'
<1>1. Alone(i)'
    BY DEF Alone
<1>2. CASE Restore!Server(i)
    BY <1>1, <1>2, ValidateSteps, SwapSteps, EndSteps DEF Restore!Server
<1>3. CASE ~Restore!Server(i)
    BY <1>1, <1>3, PageFiles
<1> QED
    BY <1>2, <1>3

LEMMA InitFiles ==
    ASSUME NEW i \in Imports, Restore!Init
    PROVE  FileInv(i) /\ Alone(i)
    BY DEF Restore!Init, Restore!NoUpload, FileInv, CopyInv, SwapInv, OutcomeInv, DownInv, Restore!AtStage,
        Untouched,
            Replaced, CloseTried, Restore!Alone, Alone

\* What the invariant says of the files, the answer and the core.
LEMMA FilesSay ==
    ASSUME Restore!TypeOK, NEW i, Alone(i), FileInv(i)
    PROVE  Restore!DatabaseKept /\ Restore!AnswerTellsTheFile /\ Restore!CoreBack
<1> USE DEF Alone
<1>1. Restore!DatabaseKept
    <2> SUFFICES \/ backup = Restore!Old
                 \/ path = Restore!Old /\ Restore!Alone(path)
                 \/ path = Restore!Upload(i) /\ upload[i].kind = "good" /\ Restore!Alone(path)
                 \/ upload[i].result = "rollbackFailed"
                 \/ warned \cap {"close", "sidecar"} # {}
        BY UsableSays, ContentsDiffer DEF Restore!DatabaseKept
    <2>1. upload[i] \in Restore!Uploads
        BY DEF Restore!TypeOK
    <2> QED
        BY <2>1 DEF Restore!Uploads, Restore!Stages, FileInv, SwapInv, OutcomeInv, Restore!AtStage, Untouched,
            Replaced, CloseTried, Restore!Alone
<1>2. Restore!AnswerTellsTheFile
    BY DEF Restore!AnswerTellsTheFile, Restore!Results, Restore!NoUpload, FileInv, OutcomeInv, DownInv,
        Restore!AtStage, Untouched, Replaced
<1>3. Restore!CoreBack
    BY DEF Restore!CoreBack, Restore!AtRest, Restore!Underway, FileInv, SwapInv, OutcomeInv, DownInv,
        Restore!AtStage, Untouched
<1> QED
    BY <1>1, <1>2, <1>3

-----------------------------------------------------------------------------
(* The parts together *)

TakeoverInv == Restore!TypeOK /\ PageInv
RestoreInv == TakeoverInv /\ FileInv(Import) /\ Alone(Import)

\* Each behaviour keeps the invariant of the part it runs.
PartInv ==
    /\ part = "socket" => SocketInv
    /\ part = "feed" => FeedInv
    /\ part = "session" => SessionInv /\ MetaInv
    /\ part = "restore" => RestoreInv
    /\ part = "retries" => TakeoverInv

LEMMA SocketStep ==
    ASSUME SocketInv, [Socket!Next]_socketVars
    PROVE  SocketInv' /\ \A e \in Socket!Events : dispatched'[e] >= dispatched[e]
    BY SocketBounds, SocketNextInv, DispatchStep

LEMMA TakeoverStep == ASSUME TakeoverInv, [Restore!Next]_restoreVars PROVE TakeoverInv'
    BY RestoreBounds, RestoreTypeStep, PageStep DEF TakeoverInv

LEMMA RestoreStep ==
    ASSUME RestoreInv, [Restore!Next]_restoreVars, \A j \in Imports \ {Import} : upload'[j] = upload[j]
    PROVE  RestoreInv'
<1>1. TakeoverInv'
    BY TakeoverStep DEF RestoreInv
<1>2. FileInv(Import)' /\ Alone(Import)'
    BY RestoreBounds, FileStep DEF RestoreInv, TakeoverInv
<1> QED
    BY <1>1, <1>2 DEF RestoreInv

LEMMA InitPartInv == Init => PartInv
<1> SUFFICES ASSUME Init PROVE PartInv
    OBVIOUS
<1>1. Socket!Init /\ Feed!Init /\ Calls!Init
    BY DEF Init
<1>2. SocketInv
    BY <1>1, SocketBounds, InitSocket
<1>3. FeedInv /\ SessionInv /\ MetaInv
    BY <1>1, InitFeed, InitSession, InitMeta
<1>4. TakeoverInv
    BY RestoreBounds, InitRestoreTypes, InitPage DEF Init, TakeoverInv
<1>5. RestoreInv
    BY <1>4, RestoreBounds, InitFiles DEF Init, RestoreInv
<1> QED
    BY <1>2, <1>3, <1>4, <1>5 DEF PartInv

LEMMA NextPartInv == PartInv /\ [Next]_vars => PartInv'
<1> SUFFICES ASSUME PartInv, [Next]_vars PROVE PartInv'
    OBVIOUS
<1>1. part' = part
    BY DEF Next, SocketNext, FeedNext, SessionNext, RestoreNext, RetriesNext, vars
<1>2. CASE part = "socket"
    <2>1. [Socket!Next]_socketVars
        BY <1>2 DEF Next, SocketNext, FeedNext, SessionNext, RestoreNext, RetriesNext, vars
    <2> QED
        BY <1>1, <1>2, <2>1, SocketStep DEF PartInv
<1>3. CASE part = "feed"
    <2>1. Feed!Next \/ UNCHANGED feedVars
        BY <1>3 DEF Next, SocketNext, FeedNext, SessionNext, RestoreNext, RetriesNext, vars
    <2> QED
        BY <1>1, <1>3, <2>1, FeedStep, FeedStutters DEF PartInv
<1>4. CASE part = "session"
    <2>1. Calls!Next \/ UNCHANGED sessionVars
        BY <1>4 DEF Next, SocketNext, FeedNext, SessionNext, RestoreNext, RetriesNext, vars
    <2> QED
        BY <1>1, <1>4, <2>1, SessionStep, SessionFrame, MetaStep, MetaFrame DEF PartInv, sessionVars
<1>5. CASE part = "restore"
    <2>1. [Restore!Next]_restoreVars /\ \A j \in Imports \ {Import} : upload'[j] = upload[j]
        BY <1>5 DEF Next, SocketNext, FeedNext, SessionNext, RestoreNext, RetriesNext, vars, restoreVars
    <2> QED
        BY <1>1, <1>5, <2>1, RestoreStep DEF PartInv
<1>6. CASE part = "retries"
    <2>1. [Restore!Next]_restoreVars
        BY <1>6 DEF Next, SocketNext, FeedNext, SessionNext, RestoreNext, RetriesNext, vars
    <2> QED
        BY <1>1, <1>6, <2>1, TakeoverStep DEF PartInv
<1>7. CASE part \notin {"socket", "feed", "session", "restore", "retries"}
    BY <1>1, <1>7 DEF PartInv
<1> QED
    BY <1>2, <1>3, <1>4, <1>5, <1>6, <1>7

THEOREM Invariance == Spec => []PartInv
    BY InitPartInv, NextPartInv, PTL DEF Spec

\* What the parts' invariants say of the states the runs check.
LEMMA PartSays == ASSUME PartInv PROVE TypeOK /\ ConnectionKept /\ StaleHasCause /\ RestoreHolds
<1>1. CASE part = "socket"
    <2>1. Socket!TypeOK /\ Socket!OneLiveSocket /\ Socket!NeverStranded /\ Socket!LatestDispatched
        BY <1>1 DEF PartInv, SocketInv, SocketTypes, AloneInv, EmitInv
    <2> QED
        BY <1>1, <2>1 DEF TypeOK, ConnectionKept, StaleHasCause, RestoreHolds
<1>2. CASE part = "feed"
    <2>1. Feed!TypeOK /\ Feed!StaleHasCause
        BY <1>2 DEF PartInv, FeedInv, FeedTypes
    <2> QED
        BY <1>2, <2>1 DEF TypeOK, ConnectionKept, StaleHasCause, RestoreHolds
<1>3. CASE part = "session"
    <2>1. Calls!TypeOK /\ Calls!OnlyReplacedIsRefused
        BY <1>3, SessionSays DEF PartInv
    <2> QED
        BY <1>3, <2>1 DEF TypeOK, ConnectionKept, StaleHasCause, RestoreHolds
<1>4. CASE part = "restore"
    <2>1. RestoreInv
        BY <1>4 DEF PartInv
    <2>2. Restore!DatabaseKept /\ Restore!AnswerTellsTheFile /\ Restore!CoreBack
        BY <2>1, FilesSay DEF RestoreInv, TakeoverInv
    <2>3. Restore!TypeOK /\ Restore!TakeoverStands
        BY <2>1 DEF RestoreInv, TakeoverInv, PageInv
    <2> QED
        BY <1>4, <2>2, <2>3 DEF TypeOK, ConnectionKept, StaleHasCause, RestoreHolds
<1>5. CASE part = "retries"
    <2>1. Restore!TypeOK /\ Restore!TakeoverStands
        BY <1>5 DEF PartInv, TakeoverInv, PageInv
    <2> QED
        BY <1>5, <2>1 DEF TypeOK, ConnectionKept, StaleHasCause, RestoreHolds
<1>6. CASE part \notin {"socket", "feed", "session", "restore", "retries"}
    BY <1>6 DEF TypeOK, ConnectionKept, StaleHasCause, RestoreHolds
<1> QED
    BY <1>1, <1>2, <1>3, <1>4, <1>5, <1>6

\* Each part's variables keep their types, for all bounds.
THEOREM TypeCorrect == Spec => []TypeOK
<1>1. PartInv => TypeOK
    BY PartSays
<1> QED
    BY <1>1, Invariance, PTL

\* For any number of sockets, messages, calls and tokens: there is never a second live
\* socket, a lost connection is answered, throttling keeps the newest message, and a call
\* is given up for its token only after its session was replaced, by a page served with
\* the token, or replaced twice or with a failing network, by one that fetches it.
THEOREM NoConnectionIsForgotten == Spec => []ConnectionKept
<1>1. PartInv => ConnectionKept
    BY PartSays
<1> QED
    BY <1>1, Invariance, PTL

\* For any number of changes, losses and failures: a list that is outdated on screen is
\* being repaired, or a signal about it was discarded where the code discards signals.
THEOREM StalenessIsExplained == Spec => []StaleHasCause
<1>1. PartInv => StaleHasCause
    BY PartSays
<1> QED
    BY <1>1, Invariance, PTL

\* Whatever steps of a restore fail, and however often: a usable database is kept, the
\* answer is true, the core comes back and the takeover stands while it is waited for.
THEOREM RestoreIsSafe == Spec => []RestoreHolds
<1>1. PartInv => RestoreHolds
    BY PartSays
<1> QED
    BY <1>1, Invariance, PTL

\* Listeners never see an older message after a newer one of the same event.
THEOREM NeverOlderAfterNewer == Spec => DispatchInOrder
<1>1. PartInv /\ [Next]_vars =>
        [\A e \in Socket!Events : dispatched'[e] >= dispatched[e]]_(Socket!wsVars)
    <2> SUFFICES ASSUME PartInv, [Next]_vars, Socket!wsVars' # Socket!wsVars
                 PROVE  \A e \in Socket!Events : dispatched'[e] >= dispatched[e]
        OBVIOUS
    <2>1. ~(UNCHANGED socketVars)
        BY DEF socketVars, Socket!wsVars, Socket!sockVars, Socket!emitVars, Socket!srvVars
    <2>2. part = "socket" /\ Socket!Next
        BY <2>1 DEF Next, SocketNext, FeedNext, SessionNext, RestoreNext, RetriesNext, vars
    <2> QED
        BY <2>2, SocketStep DEF PartInv
<1> QED
    BY <1>1, Invariance, PTL DEF Spec, DispatchInOrder, Socket!DispatchInOrder
=============================================================================
