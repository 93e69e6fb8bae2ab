------------------------- MODULE PanelEditorsProofs -------------------------
(***************************************************************************)
(* The drafts and the watchers of DraftsAndWatchers for every value of its *)
(* constants: the poll of the log, the store of notifications with the     *)
(* watchers of the status sensors and of silent clients, the settings      *)
(* form, the template editor, the DNS tab and the outbound dialog.         *)
(***************************************************************************)
EXTENDS DraftsAndWatchers, FiniteSetTheorems, WellFoundedInduction, TLAPS

-----------------------------------------------------------------------------
(* Filtered sequences *)

LEMMA LeastNumber ==
    ASSUME NEW T, T \subseteq Nat, T # {}
    PROVE  \E n \in T : \A m \in T : n <= m
<1>1. PICK n \in T : \A m \in T : ~(<<m, n>> \in OpToRel(<, Nat))
    BY NatLessThanWellFounded, WFMin
<1>2. \A m \in T : ~(m < n)
    BY <1>1 DEF OpToRel
<1> QED
    BY <1>2

\* k[m] is what a filter keeps of the first m elements of s, for m up to n.
Filters(k, s, T, n) ==
    k = [m \in 0..n |-> IF m = 0 THEN <<>> ELSE IF s[m] \in T THEN Append(k[m - 1], s[m]) ELSE k[m - 1]]

LEMMA FilterExists ==
    ASSUME NEW s, NEW T, NEW n \in Nat
    PROVE  \E k : Filters(k, s, T, n)
<1> DEFINE Bad == {m \in Nat : ~\E k : Filters(k, s, T, m)}
<1>1. Bad = {}
    <2> SUFFICES ASSUME Bad # {} PROVE FALSE
        OBVIOUS
    <2>1. PICK m \in Bad : \A x \in Bad : m <= x
        <3> HIDE DEF Bad
        <3>1. Bad \subseteq Nat
            BY DEF Bad
        <3> QED BY <3>1, LeastNumber
    <2>2. m # 0
        <3>1. Filters([x \in 0..0 |-> <<>>], s, T, 0)
            BY DEF Filters
        <3> QED BY <3>1
    <2>3. m \in Nat /\ m - 1 \in Nat /\ m - 1 \notin Bad
        BY <2>1, <2>2
    <2>4. PICK k : Filters(k, s, T, m - 1)
        BY <2>3
    <2> DEFINE New(x) == IF s[x] \in T THEN Append(k[x - 1], s[x]) ELSE k[x - 1]
               g == [x \in 0..m |-> IF x = m THEN New(m) ELSE k[x]]
    <2>5. \A x \in 0..m : x # m => x \in 0..(m - 1)
        BY <2>3
    <2>6. \A x \in 0..m : x # 0 => x - 1 \in 0..m /\ x - 1 # m /\ g[x - 1] = k[x - 1]
        BY <2>3
    <2>7. \A x \in 0..(m - 1) : k[x] = IF x = 0 THEN <<>> ELSE New(x)
        BY <2>4 DEF Filters
    <2>8. \A x \in 0..m : g[x] = IF x = 0 THEN <<>> ELSE New(x)
        BY <2>2, <2>5, <2>7
    <2>9. \A x \in 0..m : g[x] = IF x = 0 THEN <<>>
                                 ELSE IF s[x] \in T THEN Append(g[x - 1], s[x]) ELSE g[x - 1]
        BY <2>6, <2>8
    <2>10. Filters(g, s, T, m)
        <3> DEFINE h == [x \in 0..m |-> IF x = 0 THEN <<>>
                            ELSE IF s[x] \in T THEN Append(g[x - 1], s[x]) ELSE g[x - 1]]
        <3>1. DOMAIN g = 0..m /\ g = [x \in 0..m |-> g[x]]
            OBVIOUS
        <3>2. \A x \in 0..m : g[x] = h[x]
            BY <2>9
        <3> HIDE DEF g
        <3>3. g = h
            BY <3>1, <3>2
        <3> QED BY <3>3 DEF Filters
    <2> QED BY <2>3, <2>10
<1> QED
    BY <1>1

Distinct(s, n) == \A i, j \in 1..n : s[i] = s[j] => i = j

\* q holds the elements of T among the first n of s, each as often.
Keeps(q, s, S, T, n) ==
    /\ q \in Seq(S) /\ Len(q) <= n
    /\ \A j \in 1..Len(q) : q[j] \in T /\ \E i \in 1..n : s[i] = q[j]
    /\ \A i \in 1..n : s[i] \in T => \E j \in 1..Len(q) : q[j] = s[i]
    /\ Distinct(s, n) => Distinct(q, Len(q))

LEMMA KeepsNext ==
    ASSUME NEW S, NEW s \in Seq(S), NEW T, NEW n \in 1..Len(s), NEW p, Keeps(p, s, S, T, n - 1)
    PROVE  Keeps(IF s[n] \in T THEN Append(p, s[n]) ELSE p, s, S, T, n)
<1>1. n \in Nat /\ n - 1 \in Nat /\ s[n] \in S /\ p \in Seq(S) /\ Len(p) \in Nat
    BY DEF Keeps
<1>2. \A i \in 1..n : i # n => i \in 1..(n - 1)
    BY <1>1
<1>3. \A i \in 1..(n - 1) : i \in 1..n /\ i # n
    BY <1>1
<1>4. Distinct(s, n) => Distinct(s, n - 1)
    BY <1>3 DEF Distinct
<1>5. CASE s[n] \notin T
    BY <1>1, <1>2, <1>3, <1>4, <1>5 DEF Keeps
<1>6. CASE s[n] \in T
    <2> DEFINE q == Append(p, s[n])
    <2>1. q \in Seq(S) /\ Len(q) = Len(p) + 1 /\ q[Len(p) + 1] = s[n] /\ \A j \in 1..Len(p) : q[j] = p[j]
        BY <1>1
    <2> HIDE DEF q
    <2>2. \A j \in 1..Len(q) : j = Len(p) + 1 \/ j \in 1..Len(p)
        BY <1>1, <2>1
    <2>3. Len(p) + 1 \in 1..Len(q) /\ \A j \in 1..Len(p) : j \in 1..Len(q)
        BY <1>1, <2>1
    <2>4. Len(q) <= n
        BY <1>1, <2>1 DEF Keeps
    <2>5. \A j \in 1..Len(q) : q[j] \in T /\ \E i \in 1..n : s[i] = q[j]
        <3>1. \A j \in 1..Len(p) : q[j] \in T /\ \E i \in 1..n : s[i] = q[j]
            <4>1. \A j \in 1..Len(p) : p[j] \in T /\ \E i \in 1..(n - 1) : s[i] = p[j]
                BY DEF Keeps
            <4> QED BY <1>3, <2>1, <4>1
        <3>2. n \in 1..n /\ q[Len(p) + 1] \in T /\ s[n] = q[Len(p) + 1]
            BY <1>1, <1>6, <2>1
        <3> QED BY <2>2, <3>1, <3>2
    <2>6. \A i \in 1..n : s[i] \in T => \E j \in 1..Len(q) : q[j] = s[i]
        BY <1>2, <2>1, <2>3 DEF Keeps
    <2>7. ASSUME Distinct(s, n) PROVE Distinct(q, Len(q))
        <3>1. Distinct(p, Len(p))
            BY <1>4, <2>7 DEF Keeps
        <3>2. \A j \in 1..Len(p) : p[j] # s[n]
            BY <1>1, <1>3, <2>7 DEF Keeps, Distinct
        <3>3. \A i, j \in 1..Len(p) : q[i] = q[j] => i = j
            BY <2>1, <3>1 DEF Distinct
        <3>4. \A i \in 1..Len(p) : q[i] # q[Len(p) + 1]
            BY <2>1, <3>2
        <3> QED BY <2>2, <3>3, <3>4 DEF Distinct
    <2>8. Keeps(q, s, S, T, n)
        BY <2>1, <2>4, <2>5, <2>6, <2>7 DEF Keeps
    <2> QED BY <1>6, <2>8 DEF q
<1> QED
    BY <1>5, <1>6

\* What a filter of a sequence keeps.
LEMMA FilteredSays ==
    ASSUME NEW S, NEW s \in Seq(S), NEW T, NEW k, Filters(k, s, T, Len(s))
    PROVE  Keeps(k[Len(s)], s, S, T, Len(s))
<1>1. Len(s) \in Nat
    OBVIOUS
<1>2. \A m \in 0..Len(s) : k[m] = IF m = 0 THEN <<>>
                                  ELSE IF s[m] \in T THEN Append(k[m - 1], s[m]) ELSE k[m - 1]
    BY DEF Filters
<1> DEFINE Bad == {m \in 0..Len(s) : ~Keeps(k[m], s, S, T, m)}
<1>3. Bad = {}
    <2> SUFFICES ASSUME Bad # {} PROVE FALSE
        OBVIOUS
    <2>1. PICK m \in Bad : \A x \in Bad : m <= x
        <3> HIDE DEF Bad
        <3>1. Bad \subseteq Nat
            BY <1>1 DEF Bad
        <3> QED BY <3>1, LeastNumber
    <2>2. CASE m = 0
        <3>1. k[0] = <<>>
            BY <1>1, <1>2
        <3>2. Keeps(<<>>, s, S, T, 0)
            BY DEF Keeps, Distinct
        <3> QED BY <2>1, <2>2, <3>1, <3>2
    <2>3. CASE m # 0
        <3>1. m \in 1..Len(s) /\ m - 1 \in 0..Len(s) /\ m - 1 \notin Bad
            BY <1>1, <2>1, <2>3
        <3>2. Keeps(k[m - 1], s, S, T, m - 1)
            BY <3>1
        <3>3. k[m] = IF s[m] \in T THEN Append(k[m - 1], s[m]) ELSE k[m - 1]
            BY <1>2, <2>3
        <3>4. Keeps(k[m], s, S, T, m)
            BY <3>1, <3>2, <3>3, KeepsNext
        <3> QED BY <3>4
    <2> QED BY <2>2, <2>3
<1> QED
    BY <1>1, <1>3

\* What the filter of the notification store returns.
LEMMA OnlySays ==
    ASSUME NEW S, NEW s \in Seq(S), NEW T
    PROVE  Keeps(Notices!Only(s, T), s, S, T, Len(s))
<1>1. PICK k : Filters(k, s, T, Len(s)) /\ Notices!Only(s, T) = k[Len(s)]
    <2>1. \E k : Filters(k, s, T, Len(s))
        <3>1. Len(s) \in Nat
            OBVIOUS
        <3> QED BY <3>1, FilterExists
    <2> QED BY <2>1 DEF Filters, Notices!Only
<1> QED
    BY <1>1, FilteredSays

-----------------------------------------------------------------------------
(* The watcher of the log.  While no poll failed, the level was not changed *)
(* and the watcher was not switched off, the window it compares with is the *)
(* one that ended at line n, and each line up to n was in the baseline, was *)
(* notified once, or had left the window before it was polled.              *)

WindowAt(n) == {i \in 1..n : i > n - Window}

Watching(n) ==
    /\ watch.enabled /\ watch.seeded /\ watch.prevSeen = WindowAt(n)
    /\ answers["warning"].lines = WindowAt(n)
    /\ \A i \in 1..MaxLines :
        /\ notified[i] <= 1
        /\ i \in baseline => notified[i] = 0
        /\ notified[i] > 0 \/ i \in baseline => i <= n
        /\ i <= n /\ notified[i] = 0 /\ i \notin baseline => i <= n - Window

Waiting ==
    /\ ~watch.seeded /\ watch.prevSeen = {} /\ baseline = {}
    /\ \A i \in 1..MaxLines : notified[i] = 0

LogTypes ==
    /\ logged \in 0..MaxLines
    /\ logSteps \in 0..MaxLogSteps
    /\ watch \in [enabled : BOOLEAN, level : Logs!LogLevels, seeded : BOOLEAN, prevSeen : SUBSET (1..MaxLines)]
    /\ answers \in [Logs!LogLevels -> [known : BOOLEAN, lines : SUBSET (1..MaxLines)]]
    /\ notified \in [1..MaxLines -> Nat]
    /\ \A i \in 1..MaxLines : notified[i] <= logSteps
    /\ baseline \subseteq 1..MaxLines

Uneventful ==
    /\ watch.level = "warning" /\ ~answers["error"].known
    /\ IF answers["warning"].known THEN \E n \in 0..logged : Watching(n) ELSE Waiting

LogInv == LogTypes /\ (logWhy = {} => Uneventful)

LEMMA InitLog == ASSUME Logs!Init PROVE LogInv
    BY WatcherBounds DEF Logs!Init, LogInv, LogTypes, Uneventful, Waiting, Logs!LogLevels, Logs!Unknown

LEMMA LogSays == ASSUME LogInv PROVE Logs!TypeOK /\ Logs!ReplayHasCause /\ Logs!MissHasCause
<1>1. logged \in Nat /\ Window \in Nat /\ MaxLines \in Nat /\ MaxLogSteps \in Nat /\ logged <= MaxLines
    BY WatcherBounds DEF LogInv, LogTypes
<1>2. Logs!TypeOK
    BY <1>1 DEF LogInv, LogTypes, Logs!TypeOK
<1>3. DOMAIN notified = 1..MaxLines
    BY DEF LogInv, LogTypes
<1>4. CASE logWhy # {}
    BY <1>2, <1>4 DEF Logs!ReplayHasCause, Logs!MissHasCause
<1>5. CASE logWhy = {} /\ ~answers["warning"].known
    BY <1>2, <1>3, <1>5 DEF LogInv, Uneventful, Waiting, Logs!ReplayHasCause, Logs!MissHasCause
<1>6. CASE logWhy = {} /\ answers["warning"].known
    <2>1. PICK n \in 0..logged : Watching(n)
        BY <1>6 DEF LogInv, Uneventful
    <2>2. Logs!ReplayHasCause
        BY <1>3, <2>1 DEF Logs!ReplayHasCause, Watching
    <2>3. ASSUME NEW i \in 1..MaxLines, notified[i] = 0, i \notin baseline, NEW j \in watch.prevSeen, i < j
          PROVE  \E x \in watch.prevSeen : i <= x - Window
        <3>1. watch.prevSeen = WindowAt(n) /\ n \in Nat
            BY <1>1, <2>1 DEF Watching
        <3>2. j \in 1..n /\ j > n - Window
            BY <2>3, <3>1 DEF WindowAt
        <3>3. i <= n - Window
            BY <2>1, <2>3, <3>1, <3>2 DEF Watching
        <3>4. n \in WindowAt(n)
            BY <1>1, <3>1, <3>2 DEF WindowAt
        <3> QED BY <3>1, <3>3, <3>4
    <2>4. Logs!MissHasCause
        BY <2>3 DEF Logs!MissHasCause
    <2> QED BY <1>2, <2>2, <2>4
<1> QED
    BY <1>4, <1>5, <1>6

\* A window of the log is compared with the one before it.
LEMMA NotifyTypes ==
    ASSUME LogTypes, logSteps < MaxLogSteps, logSteps' = logSteps + 1,
           NEW w \in [enabled : BOOLEAN, level : Logs!LogLevels, seeded : BOOLEAN, prevSeen : SUBSET (1..MaxLines)],
           NEW lines \in SUBSET (1..MaxLines), Logs!Notify(w, lines) \/ Logs!Quiet(w),
           UNCHANGED logged, answers' \in [Logs!LogLevels -> [known : BOOLEAN, lines : SUBSET (1..MaxLines)]]
    PROVE  LogTypes'
<1>1. logSteps \in Nat /\ MaxLogSteps \in Nat /\ logSteps' \in 0..MaxLogSteps
    BY WatcherBounds DEF LogTypes
<1>2. watch' \in [enabled : BOOLEAN, level : Logs!LogLevels, seeded : BOOLEAN, prevSeen : SUBSET (1..MaxLines)]
    BY DEF Logs!Notify, Logs!Quiet
<1>3. baseline' \subseteq 1..MaxLines
    BY DEF LogTypes, Logs!Notify, Logs!Quiet
<1>4. notified' \in [1..MaxLines -> Nat] /\ \A i \in 1..MaxLines : notified'[i] <= logSteps'
    <2>1. notified \in [1..MaxLines -> Nat] /\ \A i \in 1..MaxLines : notified[i] <= logSteps
        BY DEF LogTypes
    <2>2. \/ notified' = notified
          \/ \E New : notified' = [i \in 1..MaxLines |-> notified[i] + IF i \in New THEN 1 ELSE 0]
        BY <2>1 DEF Logs!Notify, Logs!Quiet
    <2>3. CASE notified' = notified
        BY <1>1, <2>1, <2>3
    <2>4. ASSUME NEW New, notified' = [i \in 1..MaxLines |-> notified[i] + IF i \in New THEN 1 ELSE 0]
          PROVE  notified' \in [1..MaxLines -> Nat] /\ \A i \in 1..MaxLines : notified'[i] <= logSteps'
        <3>1. \A i \in 1..MaxLines : notified[i] \in Nat /\ notified[i] <= logSteps
            BY <2>1
        <3>2. \A i \in 1..MaxLines : /\ notified[i] + (IF i \in New THEN 1 ELSE 0) \in Nat
                                     /\ notified[i] + (IF i \in New THEN 1 ELSE 0) <= logSteps + 1
            BY <1>1, <3>1
        <3> QED BY <2>4, <3>2
    <2> QED BY <2>2, <2>3, <2>4
<1> QED
    BY <1>1, <1>2, <1>3, <1>4 DEF LogTypes

LEMMA WindowTypes ==
    ASSUME LogTypes
    PROVE  /\ \A l \in Logs!LogLevels : Logs!WindowOf(l) \in SUBSET (1..MaxLines)
           /\ Logs!WindowOf("warning") = WindowAt(logged)
    BY WatcherBounds DEF LogTypes, Logs!WindowOf, WindowAt, Logs!LogLevels

\* The first answer of the level is the baseline.
LEMMA FirstAnswer ==
    ASSUME LogTypes, Waiting, watch.enabled, Logs!Notify(watch, WindowAt(logged)), UNCHANGED logged,
           answers' = [answers EXCEPT !["warning"] = [known |-> TRUE, lines |-> WindowAt(logged)]]
    PROVE  (\E m \in 0..logged : Watching(m))'
<1>1. logged \in 0..logged /\ logged \in Nat
    BY WatcherBounds DEF LogTypes
<1>2. /\ watch'.enabled /\ watch'.seeded /\ watch'.prevSeen = WindowAt(logged)
      /\ answers'["warning"].lines = WindowAt(logged)
      /\ baseline' = WindowAt(logged) /\ notified' = notified
    BY DEF LogTypes, Waiting, Logs!Notify, Logs!LogLevels
<1>3. \A i \in 1..MaxLines : notified[i] = 0 /\ (i \in WindowAt(logged) => i <= logged)
    BY DEF Waiting, WindowAt
<1>4. \A i \in 1..MaxLines : i <= logged /\ i \notin WindowAt(logged) => i <= logged - Window
    BY <1>1, WatcherBounds DEF WindowAt
<1>5. Watching(logged)'
    BY <1>2, <1>3, <1>4 DEF Watching, WindowAt
<1> QED
    BY <1>1, <1>5

\* A later one notifies the lines that came since, once.
LEMMA LaterAnswer ==
    ASSUME LogTypes, NEW n \in 0..logged, Watching(n), Logs!Notify(watch, WindowAt(logged)), UNCHANGED logged,
           answers' = [answers EXCEPT !["warning"] = [known |-> TRUE, lines |-> WindowAt(logged)]]
    PROVE  (\E m \in 0..logged : Watching(m))'
<1>1. logged \in Nat /\ n \in Nat /\ Window \in Nat /\ n <= logged /\ logged <= MaxLines
    BY WatcherBounds DEF LogTypes
<1> DEFINE New == WindowAt(logged) \ WindowAt(n)
<1>2. /\ watch'.enabled /\ watch'.seeded /\ watch'.prevSeen = WindowAt(logged)
      /\ answers'["warning"].lines = WindowAt(logged)
      /\ baseline' = baseline
      /\ \A i \in 1..MaxLines : notified'[i] = notified[i] + IF i \in New THEN 1 ELSE 0
    BY DEF LogTypes, Watching, Logs!Notify, Logs!LogLevels
<1>3. \A i \in New : i > n
    BY <1>1 DEF WindowAt
<1>4. ASSUME NEW i \in 1..MaxLines
      PROVE  /\ notified'[i] <= 1
             /\ i \in baseline => notified'[i] = 0
             /\ notified'[i] > 0 \/ i \in baseline => i <= logged
             /\ i <= logged /\ notified'[i] = 0 /\ i \notin baseline => i <= logged - Window
    <2>1. /\ notified[i] \in Nat /\ notified[i] <= 1
          /\ i \in baseline => notified[i] = 0
          /\ notified[i] > 0 \/ i \in baseline => i <= n
          /\ i <= n /\ notified[i] = 0 /\ i \notin baseline => i <= n - Window
        BY DEF Watching, LogTypes
    <2>2. CASE i \in New
        <3>1. i > n /\ i <= logged
            BY <1>1, <1>3, <2>2 DEF WindowAt
        <3>2. notified[i] = 0 /\ i \notin baseline
            BY <1>1, <2>1, <3>1
        <3> HIDE DEF New
        <3> QED BY <1>2, <2>2, <3>1, <3>2
    <2>3. CASE i \notin New
        <3>1. notified'[i] = notified[i]
            BY <1>2, <2>1, <2>3
        <3>2. i <= logged /\ i > logged - Window => i \in WindowAt(n)
            BY <1>1, <2>3 DEF WindowAt
        <3>3. i \in WindowAt(n) => i <= n /\ i > n - Window
            BY DEF WindowAt
        <3> HIDE DEF New
        <3> QED BY <1>1, <2>1, <3>1, <3>2, <3>3
    <2> QED BY <2>2, <2>3
<1>5. Watching(logged)'
    BY <1>2, <1>4 DEF Watching, WindowAt
<1> QED
    BY <1>1, <1>5
LEMMA LineLog == ASSUME LogInv, Logs!Line PROVE LogInv'
<1>1. logged' = logged + 1 /\ logged' \in 0..MaxLines /\ 0..logged \subseteq 0..logged'
    BY WatcherBounds DEF LogInv, LogTypes, Logs!Line
<1>2. UNCHANGED <<watch, answers, notified, baseline, logWhy, logSteps>>
    BY DEF Logs!Line
<1>3. LogTypes'
    BY <1>1, <1>2 DEF LogInv, LogTypes
<1>4. \A n : Watching(n) => Watching(n)'
    BY <1>2 DEF Watching, WindowAt
<1>5. Waiting => Waiting'
    BY <1>2 DEF Waiting
<1>6. Uneventful => Uneventful'
    BY <1>1, <1>2, <1>4, <1>5 DEF Uneventful
<1> QED
    BY <1>2, <1>3, <1>6 DEF LogInv

LEMMA PollLog == ASSUME LogInv, NEW ok \in BOOLEAN, Logs!Poll(ok) PROVE LogInv'
<1> DEFINE lines == IF ok THEN Logs!WindowOf(watch.level) ELSE {}
           fresh == ~answers[watch.level].known \/ answers[watch.level].lines # lines
<1>1. /\ watch.enabled /\ logSteps < MaxLogSteps /\ logSteps' = logSteps + 1
      /\ answers' = [answers EXCEPT ![watch.level] = [known |-> TRUE, lines |-> lines]]
      /\ IF fresh THEN Logs!Notify(watch, lines) ELSE Logs!Quiet(watch)
      /\ logWhy' = IF ok THEN logWhy ELSE logWhy \cup {"failedPoll"}
      /\ UNCHANGED logged
    BY DEF Logs!Poll, Logs!LogStep
<1>2. LogTypes /\ watch.level \in Logs!LogLevels
    BY DEF LogInv, LogTypes
<1>3. lines \in SUBSET (1..MaxLines)
    BY <1>2, WindowTypes
<1>4. answers' \in [Logs!LogLevels -> [known : BOOLEAN, lines : SUBSET (1..MaxLines)]]
    <2> HIDE DEF lines
    <2> QED BY <1>1, <1>2, <1>3 DEF LogTypes
<1>5. LogTypes'
    <2> HIDE DEF lines
    <2>1. watch \in [enabled : BOOLEAN, level : Logs!LogLevels, seeded : BOOLEAN, prevSeen : SUBSET (1..MaxLines)]
        BY <1>2 DEF LogTypes
    <2> QED BY <1>1, <1>2, <1>3, <1>4, <2>1, NotifyTypes
<1>6. ASSUME logWhy' = {} PROVE Uneventful'
    <2>1. ok /\ logWhy = {} /\ Uneventful
        BY <1>1, <1>6 DEF LogInv
    <2>2. watch.level = "warning" /\ ~answers["error"].known
        BY <2>1 DEF Uneventful
    <2>3. lines = WindowAt(logged)
        BY <1>2, <2>1, <2>2, WindowTypes
    <2>4. answers' = [answers EXCEPT !["warning"] = [known |-> TRUE, lines |-> WindowAt(logged)]]
        BY <1>1, <2>2, <2>3
    <2>5. /\ watch'.level = "warning" /\ ~answers'["error"].known /\ answers'["warning"].known
        <3>1. watch'.level = watch.level
            BY <1>1, <1>2 DEF LogTypes, Logs!Notify, Logs!Quiet
        <3>2. ~answers'["error"].known /\ answers'["warning"].known
            BY <1>2, <2>2, <2>4 DEF LogTypes, Logs!LogLevels
        <3> QED BY <2>2, <3>1, <3>2
    <2>6. CASE ~answers["warning"].known
        <3>1. Waiting /\ Logs!Notify(watch, WindowAt(logged))
            BY <1>1, <2>1, <2>2, <2>3, <2>6 DEF Uneventful
        <3> QED BY <1>1, <1>2, <2>4, <2>5, <3>1, FirstAnswer DEF Uneventful
    <2>7. CASE answers["warning"].known /\ fresh
        <3>1. PICK n \in 0..logged : Watching(n)
            BY <2>1, <2>7 DEF Uneventful
        <3>2. Logs!Notify(watch, WindowAt(logged))
            BY <1>1, <2>3, <2>7
        <3> QED BY <1>1, <1>2, <2>4, <2>5, <3>1, <3>2, LaterAnswer DEF Uneventful
    <2>8. CASE answers["warning"].known /\ ~fresh
        <3>1. PICK n \in 0..logged : Watching(n)
            BY <2>1, <2>8 DEF Uneventful
        <3>2. answers["warning"].lines = WindowAt(logged)
            BY <2>2, <2>3, <2>8
        <3>3. UNCHANGED <<watch, notified, baseline>> /\ answers'["warning"].lines = answers["warning"].lines
            BY <1>1, <1>2, <2>4, <2>8, <3>2 DEF Logs!Quiet, LogTypes, Logs!LogLevels
        <3>4. Watching(n)'
            BY <3>1, <3>3 DEF Watching, WindowAt
        <3> QED BY <1>1, <2>5, <3>4 DEF Uneventful
    <2> QED BY <2>6, <2>7, <2>8
<1> QED
    BY <1>5, <1>6 DEF LogInv

\* Switching the watcher on, off or to another level.
LEMMA SwitchLog ==
    ASSUME LogInv, Logs!Enable \/ Logs!Disable \/ \E l \in Logs!LogLevels : Logs!SetLevel(l)
    PROVE  LogInv'
<1>1. LogTypes
    BY DEF LogInv
<1>2. CASE Logs!Enable
    <2> DEFINE w == [watch EXCEPT !.enabled = TRUE]
    <2>1. /\ ~watch.enabled /\ logSteps < MaxLogSteps /\ logSteps' = logSteps + 1
          /\ IF answers[w.level].known THEN Logs!Notify(w, answers[w.level].lines) ELSE Logs!Quiet(w)
          /\ UNCHANGED <<logged, answers, logWhy>>
        BY <1>2 DEF Logs!Enable, Logs!LogStep
    <2>2. /\ w \in [enabled : BOOLEAN, level : Logs!LogLevels, seeded : BOOLEAN, prevSeen : SUBSET (1..MaxLines)]
          /\ w.level = watch.level /\ w.seeded = watch.seeded /\ w.prevSeen = watch.prevSeen
        BY <1>1 DEF LogTypes
    <2> HIDE DEF w
    <2>3. answers[w.level].lines \in SUBSET (1..MaxLines)
        BY <1>1, <2>2 DEF LogTypes
    <2>4. LogTypes'
        <3>1. answers' \in [Logs!LogLevels -> [known : BOOLEAN, lines : SUBSET (1..MaxLines)]]
            BY <1>1, <2>1 DEF LogTypes
        <3>2. Logs!Notify(w, answers[w.level].lines) \/ Logs!Quiet(w)
            BY <2>1
        <3> QED BY <1>1, <2>1, <2>2, <2>3, <3>1, <3>2, NotifyTypes
    <2>5. ASSUME logWhy' = {} PROVE Uneventful'
        <3>1. Uneventful
            BY <2>1, <2>5 DEF LogInv
        <3>2. ~answers["warning"].known
            BY <2>1, <3>1 DEF Uneventful, Watching
        <3>3. watch.level = "warning" /\ Waiting
            BY <3>1, <3>2 DEF Uneventful
        <3>4. Logs!Quiet(w)
            BY <2>1, <2>2, <3>2, <3>3
        <3> QED BY <2>1, <2>2, <3>1, <3>2, <3>3, <3>4 DEF Uneventful, Waiting, Logs!Quiet
    <2> QED BY <2>4, <2>5 DEF LogInv
<1>3. CASE Logs!Disable
    <2> DEFINE w == [watch EXCEPT !.enabled = FALSE, !.seeded = FALSE, !.prevSeen = {}]
    <2>1. /\ logSteps < MaxLogSteps /\ logSteps' = logSteps + 1 /\ Logs!Quiet(w)
          /\ logWhy' # {} /\ UNCHANGED <<logged, answers>>
        BY <1>3 DEF Logs!Disable, Logs!LogStep
    <2>2. w \in [enabled : BOOLEAN, level : Logs!LogLevels, seeded : BOOLEAN, prevSeen : SUBSET (1..MaxLines)]
        BY <1>1 DEF LogTypes
    <2> HIDE DEF w
    <2>3. answers' \in [Logs!LogLevels -> [known : BOOLEAN, lines : SUBSET (1..MaxLines)]]
        BY <1>1, <2>1 DEF LogTypes
    <2> QED BY <1>1, <2>1, <2>2, <2>3, NotifyTypes DEF LogInv
<1>4. ASSUME NEW l \in Logs!LogLevels, Logs!SetLevel(l) PROVE LogInv'
    <2> DEFINE w == [watch EXCEPT !.level = l]
    <2>1. /\ logSteps < MaxLogSteps /\ logSteps' = logSteps + 1
          /\ Logs!Notify(w, answers[l].lines) \/ Logs!Quiet(w)
          /\ logWhy' # {} /\ UNCHANGED <<logged, answers>>
        BY <1>4 DEF Logs!SetLevel, Logs!LogStep
    <2>2. /\ w \in [enabled : BOOLEAN, level : Logs!LogLevels, seeded : BOOLEAN, prevSeen : SUBSET (1..MaxLines)]
          /\ answers[l].lines \in SUBSET (1..MaxLines)
        BY <1>1 DEF LogTypes
    <2> HIDE DEF w
    <2>3. answers' \in [Logs!LogLevels -> [known : BOOLEAN, lines : SUBSET (1..MaxLines)]]
        BY <1>1, <2>1 DEF LogTypes
    <2> QED BY <1>1, <2>1, <2>2, <2>3, NotifyTypes DEF LogInv
<1> QED
    BY <1>2, <1>3, <1>4

LEMMA NextLog == ASSUME LogInv, [Logs!Next]_logsVars PROVE LogInv'
<1>1. CASE Logs!Next
    BY <1>1, LineLog, PollLog, SwitchLog DEF Logs!Next
<1>2. CASE UNCHANGED logsVars
    BY <1>2 DEF logsVars, LogInv, LogTypes, Uneventful, Waiting, Watching, WindowAt
<1> QED
    BY <1>1, <1>2

-----------------------------------------------------------------------------
(* The store of notifications *)

Records == [source : {"toast", "event", "alert"}, key : Alerts \cup WatchedClients \cup {"none"}]
Switches == [enabled : BOOLEAN, threshold : Nat]

StoreTypes ==
    /\ history \in Seq(Records) /\ Len(history) <= HISTORY_CAP
    /\ active \in Seq(WatchedClients) /\ Len(active) <= ACTIVE_CAP
    /\ dismissed \subseteq Alerts /\ sensorAcked \subseteq Sensors
    /\ sensors \in [Sensors \cup {"clientOffline"} -> Switches]
    /\ status \in [Sensors -> 0..Levels]
    /\ silence \in [WatchedClients -> -1..Levels] /\ lastOnline \in [WatchedClients -> -1..Levels]
    /\ firing \in [WatchedClients -> BOOLEAN]

StoreInv ==
    /\ StoreTypes
    /\ Notices!StrandedOnlyByCap
    /\ Notices!AckEndsWithEpisode
    /\ Notices!NoDuplicateEvents
    /\ Notices!RearmedWhenBack

LEMMA InitStore == ASSUME Notices!Init PROVE StoreInv
<1>1. HISTORY_CAP \in Nat /\ ACTIVE_CAP \in Nat /\ Levels \in Nat /\ "clientOffline" \notin Sensors
    BY WatcherBounds
<1>2. history = <<>> /\ active = <<>> /\ Len(history) = 0 /\ Len(active) = 0
    BY DEF Notices!Init
<1>3. StoreTypes
    BY <1>1, <1>2 DEF Notices!Init, StoreTypes, Switches, Notices!Offline
<1>4. Notices!StrandedOnlyByCap /\ Notices!NoDuplicateEvents
    BY <1>2 DEF Notices!Init, Notices!StrandedOnlyByCap, Notices!NoDuplicateEvents
<1>5. Notices!AckEndsWithEpisode /\ Notices!RearmedWhenBack
    BY DEF Notices!Init, Notices!AckEndsWithEpisode, Notices!RearmedWhenBack
<1> QED
    BY <1>3, <1>4, <1>5 DEF StoreInv

\* A capped sequence is the beginning of the sequence.
LEMMA CappedSays ==
    ASSUME NEW S, NEW s \in Seq(S), NEW n \in Nat
    PROVE  /\ Notices!Capped(s, n) \in Seq(S)
           /\ Len(Notices!Capped(s, n)) <= n /\ Len(Notices!Capped(s, n)) <= Len(s)
           /\ n > 0 /\ Len(s) > 0 => Len(Notices!Capped(s, n)) > 0
           /\ \A i \in 1..Len(Notices!Capped(s, n)) : i \in 1..Len(s) /\ Notices!Capped(s, n)[i] = s[i]
<1> DEFINE m == IF Len(s) < n THEN Len(s) ELSE n
<1>1. m \in Nat /\ m <= n /\ m <= Len(s) /\ (n > 0 /\ Len(s) > 0 => m > 0)
    OBVIOUS
<1>2. Notices!Capped(s, n) = SubSeq(s, 1, m)
    BY DEF Notices!Capped
<1> HIDE DEF m
<1>3. SubSeq(s, 1, m) \in Seq(S) /\ Len(SubSeq(s, 1, m)) = m /\ \A i \in 1..m : SubSeq(s, 1, m)[i] = s[i]
    BY <1>1
<1> QED
    BY <1>1, <1>2, <1>3

\* The elements of two sequences put together.
LEMMA JoinSays ==
    ASSUME NEW S, NEW p \in Seq(S), NEW q \in Seq(S)
    PROVE  /\ p \o q \in Seq(S) /\ Len(p \o q) = Len(p) + Len(q)
           /\ \A i \in 1..Len(p) : (p \o q)[i] = p[i]
           /\ \A i \in 1..Len(p \o q) : i \notin 1..Len(p) =>
                i - Len(p) \in 1..Len(q) /\ (p \o q)[i] = q[i - Len(p)]
    OBVIOUS

LEMMA HandleSays ==
    ASSUME NEW h \in Seq(Records)
    PROVE  \A a : a \in Notices!Handles(h) <=> \E i \in 1..Len(h) : h[i].source = "alert" /\ h[i].key = a
    BY DEF Notices!Handles

\* A record that falls off the log is noted, so that no dismissed alert is lost
\* unseen.
LEMMA NotedEviction ==
    ASSUME StoreInv, Notices!NoteEviction(history'), dismissed' \subseteq dismissed \cup Notices!Handles(history')
    PROVE  Notices!StrandedOnlyByCap'
<1>1. evicted' = (evicted \cup (Notices!Handles(history) \ Notices!Handles(history'))) \ Notices!Handles(history')
    BY DEF Notices!NoteEviction
<1>2. Notices!Handles(history)' = Notices!Handles(history')
    BY DEF Notices!Handles
<1> QED
    BY <1>1, <1>2 DEF StoreInv, Notices!StrandedOnlyByCap

LEMMA PushSays ==
    ASSUME StoreInv, NEW r \in Records, history' = Notices!PushHistory(history, r)
    PROVE  /\ history' \in Seq(Records) /\ Len(history') <= HISTORY_CAP
           /\ r.source = "alert" => r.key \in Notices!Handles(history')
<1>1. history \in Seq(Records) /\ <<r>> \in Seq(Records) /\ HISTORY_CAP \in Nat /\ HISTORY_CAP > 0
    BY WatcherBounds DEF StoreInv, StoreTypes
<1> DEFINE s == <<r>> \o history
<1>2. s \in Seq(Records) /\ Len(s) > 0 /\ s[1] = r
    BY <1>1
<1>3. history' = Notices!Capped(s, HISTORY_CAP)
    BY DEF Notices!PushHistory
<1> HIDE DEF s
<1>4. history' \in Seq(Records) /\ Len(history') <= HISTORY_CAP /\ Len(history') > 0
    BY <1>1, <1>2, <1>3, CappedSays
<1>5. 1 \in 1..Len(history') /\ history'[1] = r
    <2>1. 1 \in 1..Len(history')
        BY <1>4
    <2> QED BY <1>1, <1>2, <1>3, <2>1, CappedSays
<1> QED
    BY <1>4, <1>5, HandleSays

\* Cardinality is the same operator in the instance.
LEMMA SameCardinality == \A S : Notices!Cardinality(S) = Cardinality(S)
    BY DEF Notices!Cardinality, Cardinality

\* An enumeration of a set of clients has each of them once.
LEMMA OrderSays ==
    ASSUME NEW ks \in SUBSET WatchedClients
    PROVE  LET order == Notices!SetToSeq(ks) IN
           /\ order \in Seq(WatchedClients) /\ Len(order) \in Nat
           /\ \A i \in 1..Len(order) : order[i] \in ks
           /\ Distinct(order, Len(order))
<1> DEFINE n == Cardinality(ks)
           F == {f \in [1..n -> ks] : \A a, b \in 1..n : f[a] = f[b] => a = b}
<1>1. IsFiniteSet(ks)
    BY WatcherBounds, FS_Subset
<1>2. n \in Nat /\ ExistsBijection(1..n, ks)
    BY <1>1, FS_CardinalityType
<1>3. F # {}
    BY <1>2 DEF ExistsBijection, Bijection, Injection, IsInjective
<1>4. Notices!SetToSeq(ks) \in F
    <2>1. Notices!SetToSeq(ks) = CHOOSE f \in [1..n -> ks] : Notices!IsInjective(f)
        BY SameCardinality DEF Notices!SetToSeq
    <2>2. \A f \in [1..n -> ks] : Notices!IsInjective(f) <=> f \in F
        BY DEF Notices!IsInjective
    <2> QED BY <1>3, <2>1, <2>2
<1>5. Notices!SetToSeq(ks) \in [1..n -> WatchedClients]
    BY <1>4
<1>6. Notices!SetToSeq(ks) \in Seq(WatchedClients) /\ Len(Notices!SetToSeq(ks)) = n
    BY <1>2, <1>5
<1> QED
    BY <1>2, <1>4, <1>6 DEF Distinct
\* New events go in front of the ones on display, which they are not among.
LEMMA EventsSays ==
    ASSUME StoreInv, NEW ks \in SUBSET WatchedClients, Notices!PushEvents(ks)
    PROVE  /\ active' \in Seq(WatchedClients) /\ Len(active') <= ACTIVE_CAP /\ Distinct(active', Len(active'))
           /\ history' \in Seq(Records) /\ Len(history') <= HISTORY_CAP
           /\ Notices!NoteEviction(history')
<1> DEFINE new == {k \in ks : ~Notices!Contains(active, k)}
           order == Notices!SetToSeq(new)
           front == Notices!Reverse(order)
           logs == [i \in 1..Len(order) |-> Notices!Record("event", front[i])]
<1>1. /\ active' = Notices!Capped(front \o active, ACTIVE_CAP)
      /\ history' = Notices!Capped(logs \o history, HISTORY_CAP)
      /\ Notices!NoteEviction(history')
    BY DEF Notices!PushEvents
<1>2. /\ active \in Seq(WatchedClients) /\ Distinct(active, Len(active)) /\ history \in Seq(Records)
      /\ ACTIVE_CAP \in Nat /\ HISTORY_CAP \in Nat /\ Len(active) \in Nat
    BY WatcherBounds DEF StoreInv, StoreTypes, Notices!NoDuplicateEvents, Distinct
<1>3. /\ order \in Seq(WatchedClients) /\ Len(order) \in Nat /\ Distinct(order, Len(order))
      /\ \A i \in 1..Len(order) : order[i] \in new
    <2>1. new \in SUBSET WatchedClients
        OBVIOUS
    <2> HIDE DEF new
    <2> QED BY <2>1, OrderSays
<1>4. \A i \in 1..Len(order), j \in 1..Len(active) : order[i] # active[j]
    BY <1>3 DEF Notices!Contains
<1> HIDE DEF new, order
<1>5. /\ front \in Seq(WatchedClients) /\ Len(front) = Len(order)
      /\ \A i \in 1..Len(order) : Len(order) - i + 1 \in 1..Len(order) /\ front[i] = order[Len(order) - i + 1]
    <2>1. \A i \in 1..Len(order) : (Len(order) - i) + 1 \in 1..Len(order)
        BY <1>3
    <2>2. front = [i \in 1..Len(order) |-> order[(Len(order) - i) + 1]]
        BY DEF Notices!Reverse
    <2>3. \A i \in 1..Len(order) : order[(Len(order) - i) + 1] \in WatchedClients
        BY <1>3, <2>1
    <2>4. front \in [1..Len(order) -> WatchedClients]
        BY <2>2, <2>3
    <2> QED BY <1>3, <2>1, <2>2, <2>4
<1>6. /\ Distinct(front, Len(front))
      /\ \A i \in 1..Len(front), j \in 1..Len(active) : front[i] # active[j]
    <2>1. ASSUME NEW i \in 1..Len(front), NEW j \in 1..Len(front), front[i] = front[j] PROVE i = j
        <3>1. i \in 1..Len(order) /\ j \in 1..Len(order)
            BY <1>5
        <3>2. Len(order) - i + 1 = Len(order) - j + 1
            BY <1>3, <1>5, <2>1, <3>1 DEF Distinct
        <3>3. i \in Int /\ j \in Int /\ Len(order) \in Int
            BY <1>3, <3>1
        <3> QED BY <3>2, <3>3
    <2>2. ASSUME NEW i \in 1..Len(front), NEW j \in 1..Len(active) PROVE front[i] # active[j]
        <3>1. PICK x \in 1..Len(order) : front[i] = order[x]
            BY <1>5
        <3> QED BY <1>4, <3>1
    <2>3. Distinct(front, Len(front))
        BY <2>1 DEF Distinct
    <2> QED BY <2>2, <2>3
<1>7. logs \in Seq(Records)
    <2>1. \A i \in 1..Len(order) : Notices!Record("event", front[i]) \in Records
        BY <1>5 DEF Notices!Record, Records
    <2>2. logs \in [1..Len(order) -> Records]
        BY <2>1
    <2> QED BY <1>3, <2>2
<1> HIDE DEF front, logs
<1> DEFINE s == front \o active
<1>8. s \in Seq(WatchedClients) /\ Distinct(s, Len(s))
    <2>1. s \in Seq(WatchedClients) /\ Len(s) = Len(front) + Len(active) /\ Len(front) \in Nat
        BY <1>2, <1>5
    <2>2. \A i \in 1..Len(front) : s[i] = front[i]
        BY <1>2, <1>5
    <2>3. \A i \in 1..Len(s) : i \notin 1..Len(front) =>
            i - Len(front) \in 1..Len(active) /\ s[i] = active[i - Len(front)]
        BY <1>2, <1>5, JoinSays
    <2> HIDE DEF s
    <2>4. ASSUME NEW i \in 1..Len(s), NEW j \in 1..Len(s), s[i] = s[j] PROVE i = j
        <3>1. CASE i \in 1..Len(front) /\ j \in 1..Len(front)
            BY <1>6, <2>2, <2>4, <3>1 DEF Distinct
        <3>2. CASE i \notin 1..Len(front) /\ j \notin 1..Len(front)
            <4>1. i - Len(front) = j - Len(front)
                BY <1>2, <2>3, <2>4, <3>2 DEF Distinct
            <4> QED BY <2>1, <4>1
        <3>3. CASE i \in 1..Len(front) /\ j \notin 1..Len(front)
            BY <1>6, <2>2, <2>3, <2>4, <3>3
        <3>4. CASE i \notin 1..Len(front) /\ j \in 1..Len(front)
            BY <1>6, <2>2, <2>3, <2>4, <3>4
        <3> QED BY <3>1, <3>2, <3>3, <3>4
    <2> QED BY <2>1, <2>4 DEF Distinct
<1>9. active' \in Seq(WatchedClients) /\ Len(active') <= ACTIVE_CAP /\ Distinct(active', Len(active'))
    <2> HIDE DEF s
    <2>1. /\ active' \in Seq(WatchedClients) /\ Len(active') <= ACTIVE_CAP
          /\ \A i \in 1..Len(active') : i \in 1..Len(s) /\ active'[i] = s[i]
        BY <1>1, <1>2, <1>8, CappedSays DEF s
    <2> QED BY <1>8, <2>1 DEF Distinct
<1>10. history' \in Seq(Records) /\ Len(history') <= HISTORY_CAP
    <2>1. logs \o history \in Seq(Records)
        BY <1>2, <1>7
    <2> QED BY <1>1, <1>2, <2>1, CappedSays
<1> QED
    BY <1>1, <1>9, <1>10

LEMMA DistinctMeans == Notices!NoDuplicateEvents <=> Distinct(active, Len(active))
    BY DEF Notices!NoDuplicateEvents, Distinct

\* The watcher of silent clients compares each client with the threshold anew.
LEMMA OfflineSays ==
    ASSUME StoreInv, NEW brought \in [WatchedClients -> -1..Levels], NEW cfg \in Switches,
           Notices!OfflineEffect(brought, cfg)
    PROVE  /\ active' \in Seq(WatchedClients) /\ Len(active') <= ACTIVE_CAP /\ Distinct(active', Len(active'))
           /\ history' \in Seq(Records) /\ Len(history') <= HISTORY_CAP
           /\ dismissed' = dismissed => Notices!StrandedOnlyByCap'
           /\ firing' \in [WatchedClients -> BOOLEAN]
           /\ cfg.enabled => \A c \in WatchedClients : firing'[c] => brought[c] >= cfg.threshold
<1>1. CASE ~cfg.enabled
    <2>1. UNCHANGED <<firing, active, history, evicted>>
        BY <1>1 DEF Notices!OfflineEffect
    <2>2. /\ active' \in Seq(WatchedClients) /\ Len(active') <= ACTIVE_CAP /\ Distinct(active', Len(active'))
          /\ history' \in Seq(Records) /\ Len(history') <= HISTORY_CAP /\ firing' \in [WatchedClients -> BOOLEAN]
        BY <2>1, DistinctMeans DEF StoreInv, StoreTypes
    <2>3. dismissed' = dismissed => Notices!StrandedOnlyByCap'
        BY <2>1 DEF StoreInv, Notices!StrandedOnlyByCap, Notices!Handles
    <2> QED BY <1>1, <2>2, <2>3
<1>2. CASE cfg.enabled
    <2>1. /\ firing' = [c \in WatchedClients |-> Notices!IsOver(c, brought, cfg)]
          /\ Notices!PushEvents({c \in WatchedClients : Notices!IsOver(c, brought, cfg) /\ ~firing[c]})
        BY <1>2 DEF Notices!OfflineEffect
    <2>2. \A c \in WatchedClients : Notices!IsOver(c, brought, cfg) = (brought[c] >= cfg.threshold)
        BY DEF Notices!IsOver
    <2>3. firing' \in [WatchedClients -> BOOLEAN] /\ \A c \in WatchedClients : firing'[c] => brought[c] >= cfg.threshold
        <3>1. firing' = [c \in WatchedClients |-> brought[c] >= cfg.threshold]
            BY <2>1 DEF Notices!IsOver
        <3>2. \A c \in WatchedClients : (brought[c] >= cfg.threshold) \in BOOLEAN
            OBVIOUS
        <3>3. firing' \in [WatchedClients -> BOOLEAN]
            BY <3>1, <3>2
        <3>4. \A c \in WatchedClients : firing'[c] = (brought[c] >= cfg.threshold)
            BY <3>1
        <3> QED BY <3>3, <3>4
    <2>4. {c \in WatchedClients : Notices!IsOver(c, brought, cfg) /\ ~firing[c]} \in SUBSET WatchedClients
        OBVIOUS
    <2>5. /\ active' \in Seq(WatchedClients) /\ Len(active') <= ACTIVE_CAP /\ Distinct(active', Len(active'))
          /\ history' \in Seq(Records) /\ Len(history') <= HISTORY_CAP
          /\ Notices!NoteEviction(history')
        BY <2>1, <2>4, EventsSays
    <2> QED BY <2>3, <2>5, NotedEviction
<1> QED
    BY <1>1, <1>2
\* Actions on the log and the strip leave the sensors and the clients alone.
SensorsSame == UNCHANGED <<sensorAcked, sensors, status>>
ClientsSame == UNCHANGED <<sensors, silence, lastOnline, firing>>

LEMMA SensorsStay ==
    ASSUME StoreInv, SensorsSame
    PROVE  Notices!AckEndsWithEpisode'
    BY DEF StoreInv, SensorsSame, Notices!AckEndsWithEpisode

LEMMA ClientsStay ==
    ASSUME StoreInv, ClientsSame
    PROVE  Notices!RearmedWhenBack'
    BY DEF StoreInv, ClientsSame, Notices!RearmedWhenBack, Notices!IsOver

LEMMA LogActs ==
    ASSUME StoreInv,
           \/ Notices!RecordToast \/ Notices!ClearHistory \/ Notices!SetAlertPref
           \/ \E k \in WatchedClients : Notices!DismissEvent(k)
           \/ \E a \in Alerts : Notices!DismissAlert(a) \/ Notices!RestoreAlert(a) \/ Notices!ConditionChanges(a)
    PROVE  StoreInv'
<1>1. SensorsSame /\ ClientsSame
    BY DEF SensorsSame, ClientsSame, Notices!RecordToast, Notices!ClearHistory, Notices!SetAlertPref,
           Notices!DismissEvent, Notices!DismissAlert, Notices!RestoreAlert, Notices!ConditionChanges
<1>2. ASSUME history' \in Seq(Records), Len(history') <= HISTORY_CAP, dismissed' \subseteq Alerts,
             active' \in Seq(WatchedClients), Len(active') <= ACTIVE_CAP, Distinct(active, Len(active))',
             Notices!StrandedOnlyByCap'
      PROVE  StoreInv'
    <2>1. StoreTypes'
        BY <1>1, <1>2 DEF StoreInv, StoreTypes, SensorsSame, ClientsSame
    <2>2. Notices!NoDuplicateEvents'
        BY <1>2, DistinctMeans, PTL
    <2> QED BY <1>1, <1>2, <2>1, <2>2, SensorsStay, ClientsStay DEF StoreInv
<1>3. /\ history \in Seq(Records) /\ Len(history) <= HISTORY_CAP /\ HISTORY_CAP \in Nat
      /\ dismissed \subseteq Alerts /\ active \in Seq(WatchedClients) /\ Len(active) <= ACTIVE_CAP /\ ACTIVE_CAP \in Nat
      /\ Distinct(active, Len(active)) /\ Notices!StrandedOnlyByCap
    BY WatcherBounds, DistinctMeans DEF StoreInv, StoreTypes
<1>4. active' = active => Distinct(active, Len(active))'
    BY <1>3
<1>5. CASE Notices!RecordToast
    <2>1. Notices!Record("toast", "none") \in Records
        BY DEF Notices!Record, Records
    <2>2. /\ history' = Notices!PushHistory(history, Notices!Record("toast", "none"))
          /\ Notices!NoteEviction(history') /\ UNCHANGED <<dismissed, active>>
        BY <1>5 DEF Notices!RecordToast
    <2>3. history' \in Seq(Records) /\ Len(history') <= HISTORY_CAP
        BY <2>1, <2>2, PushSays
    <2>4. Notices!StrandedOnlyByCap'
        BY <2>2, NotedEviction
    <2> QED BY <1>2, <1>3, <1>4, <2>2, <2>3, <2>4
<1>6. CASE Notices!ClearHistory
    <2>1. history' = Notices!Only(history, Notices!Restoring) /\ UNCHANGED <<dismissed, active, evicted>>
        BY <1>6 DEF Notices!ClearHistory, Notices!KeptByClear
    <2>2. Keeps(history', history, Records, Notices!Restoring, Len(history))
        BY <1>3, <2>1, OnlySays
    <2>3. history' \in Seq(Records) /\ Len(history') <= HISTORY_CAP
        BY <1>3, <2>2 DEF Keeps
    <2>4. ASSUME NEW a \in dismissed, a \in Notices!Handles(history) PROVE a \in Notices!Handles(history')
        <3>1. PICK i \in 1..Len(history) : history[i].source = "alert" /\ history[i].key = a
            BY <1>3, <2>4, HandleSays
        <3>2. history[i] \in Records
            BY <1>3
        <3>3. history[i] = Notices!Record("alert", a)
            BY <3>1, <3>2 DEF Records, Notices!Record
        <3>4. history[i] \in Notices!Restoring
            BY <2>4, <3>3 DEF Notices!Restoring
        <3>5. PICK j \in 1..Len(history') : history'[j] = history[i]
            BY <2>2, <3>4 DEF Keeps
        <3> QED BY <2>3, <3>1, <3>5, HandleSays
    <2>5. Notices!StrandedOnlyByCap'
        <3>1. Notices!Handles(history)' = Notices!Handles(history')
            BY DEF Notices!Handles
        <3> QED BY <1>3, <2>1, <2>4, <3>1 DEF Notices!StrandedOnlyByCap
    <2> QED BY <1>2, <1>3, <1>4, <2>1, <2>3, <2>5
<1>7. ASSUME NEW k \in WatchedClients, Notices!DismissEvent(k) PROVE StoreInv'
    <2>1. active' = Notices!Only(active, WatchedClients \ {k}) /\ UNCHANGED <<dismissed, history, evicted>>
        BY <1>7 DEF Notices!DismissEvent
    <2>2. Keeps(active', active, WatchedClients, WatchedClients \ {k}, Len(active))
        BY <1>3, <2>1, OnlySays
    <2>3. active' \in Seq(WatchedClients) /\ Len(active') <= ACTIVE_CAP /\ Distinct(active', Len(active'))
        BY <1>3, <2>2 DEF Keeps
    <2>4. Notices!StrandedOnlyByCap'
        BY <1>3, <2>1 DEF Notices!StrandedOnlyByCap, Notices!Handles
    <2> QED BY <1>2, <1>3, <2>1, <2>3, <2>4 DEF Distinct
<1>8. ASSUME NEW a \in Alerts, Notices!DismissAlert(a) PROVE StoreInv'
    <2>1. Notices!Record("alert", a) \in Records
        BY DEF Notices!Record, Records
    <2>2. /\ history' = Notices!PushHistory(history, Notices!Record("alert", a))
          /\ Notices!NoteEviction(history') /\ dismissed' = dismissed \cup {a} /\ UNCHANGED active
        BY <1>8 DEF Notices!DismissAlert
    <2>3. history' \in Seq(Records) /\ Len(history') <= HISTORY_CAP /\ a \in Notices!Handles(history')
        BY <2>1, <2>2, PushSays DEF Notices!Record
    <2>4. Notices!StrandedOnlyByCap'
        BY <2>2, <2>3, NotedEviction
    <2> QED BY <1>2, <1>3, <1>4, <2>2, <2>3, <2>4
<1>9. ASSUME NEW a \in Alerts, Notices!RestoreAlert(a) PROVE StoreInv'
    <2>1. dismissed' = dismissed \ {a} /\ UNCHANGED <<history, active, evicted>>
        BY <1>9 DEF Notices!RestoreAlert
    <2>2. Notices!StrandedOnlyByCap'
        BY <1>3, <2>1 DEF Notices!StrandedOnlyByCap, Notices!Handles
    <2> QED BY <1>2, <1>3, <1>4, <2>1, <2>2
<1>10. ASSUME UNCHANGED <<dismissed, history, active, evicted>> PROVE StoreInv'
    <2>1. Notices!StrandedOnlyByCap'
        BY <1>3, <1>10 DEF Notices!StrandedOnlyByCap, Notices!Handles
    <2> QED BY <1>2, <1>3, <1>4, <1>10, <2>1
<1>11. CASE Notices!SetAlertPref
    BY <1>10, <1>11 DEF Notices!SetAlertPref
<1>12. ASSUME NEW a \in Alerts, Notices!ConditionChanges(a) PROVE StoreInv'
    BY <1>10, <1>12 DEF Notices!ConditionChanges
<1> QED
    BY <1>5, <1>6, <1>7, <1>8, <1>9, <1>11, <1>12
\* Actions on the sensors leave the log and the strip alone.
StoreSame == UNCHANGED <<dismissed, history, active, evicted>>

LEMMA StoreStays ==
    ASSUME StoreInv, StoreSame
    PROVE  /\ Notices!StrandedOnlyByCap' /\ Notices!NoDuplicateEvents'
           /\ history' \in Seq(Records) /\ Len(history') <= HISTORY_CAP
           /\ active' \in Seq(WatchedClients) /\ Len(active') <= ACTIVE_CAP /\ dismissed' \subseteq Alerts
    BY DEF StoreInv, StoreTypes, StoreSame, Notices!StrandedOnlyByCap, Notices!NoDuplicateEvents, Notices!Handles

\* The acknowledgements that the watcher of the sensors keeps.
LEMMA AcksSay ==
    ASSUME NEW acked \in SUBSET Sensors, Notices!SensorEffects(acked, sensors', status'),
           sensors' \in [Sensors \cup {"clientOffline"} -> Switches], status' \in [Sensors -> 0..Levels]
    PROVE  sensorAcked' \subseteq Sensors /\ Notices!AckEndsWithEpisode'
<1>1. sensorAcked' = {k \in acked : sensors'[k].enabled => status'[k] >= sensors'[k].threshold}
    BY DEF Notices!SensorEffects, Notices!Rearmed
<1>2. \A k \in Sensors : status'[k] \in Int /\ sensors'[k].threshold \in Int
    BY WatcherBounds DEF Switches
<1>3. ASSUME NEW k \in Sensors, sensors'[k].enabled, status'[k] < sensors'[k].threshold
      PROVE  k \notin sensorAcked'
    <2>1. status'[k] \in Int /\ sensors'[k].threshold \in Int
        BY <1>2
    <2>2. ~(status'[k] >= sensors'[k].threshold)
        BY <1>3, <2>1
    <2>3. sensorAcked' = {x \in acked : ~sensors'[x].enabled \/ status'[x] >= sensors'[x].threshold}
        BY <1>1
    <2> QED BY <1>3, <2>2, <2>3, Zenon
<1> QED
    BY <1>1, <1>3 DEF Notices!AckEndsWithEpisode

LEMMA SensorActs ==
    ASSUME StoreInv, NEW k \in Sensors,
           Notices!AckSensor(k) \/ \E v \in 0..Levels : Notices!StatusPolled(k, v)
    PROVE  StoreInv'
<1>1. StoreSame /\ ClientsSame
    BY DEF StoreSame, ClientsSame, Notices!AckSensor, Notices!StatusPolled
<1>2. status' \in [Sensors -> 0..Levels]
    BY DEF StoreInv, StoreTypes, Notices!AckSensor, Notices!StatusPolled
<1>3. \E acked \in SUBSET Sensors : Notices!SensorEffects(acked, sensors', status')
    <2>1. CASE Notices!AckSensor(k)
        <3>1. sensorAcked \cup {k} \in SUBSET Sensors
            BY DEF StoreInv, StoreTypes
        <3>2. Notices!SensorEffects(sensorAcked \cup {k}, sensors', status')
            BY <2>1 DEF Notices!AckSensor
        <3> QED BY <3>1, <3>2
    <2>2. ASSUME NEW v \in 0..Levels, Notices!StatusPolled(k, v)
          PROVE  \E acked \in SUBSET Sensors : Notices!SensorEffects(acked, sensors', status')
        <3>1. sensorAcked \in SUBSET Sensors
            BY DEF StoreInv, StoreTypes
        <3>2. Notices!SensorEffects(sensorAcked, sensors', status')
            BY <2>2 DEF Notices!StatusPolled
        <3> QED BY <3>1, <3>2
    <2> QED BY <2>1, <2>2
<1>4. sensorAcked' \subseteq Sensors /\ Notices!AckEndsWithEpisode'
    <2>1. sensors' \in [Sensors \cup {"clientOffline"} -> Switches]
        BY <1>1 DEF StoreInv, StoreTypes, ClientsSame
    <2> QED BY <1>2, <1>3, <2>1, AcksSay
<1>5. StoreTypes'
    BY <1>1, <1>2, <1>4, StoreStays DEF StoreInv, StoreTypes, ClientsSame
<1> QED
    BY <1>1, <1>4, <1>5, StoreStays, ClientsStay DEF StoreInv

LEMMA PollActs == ASSUME StoreInv, Notices!OfflinePolled PROVE StoreInv'
<1>1. /\ lastOnline' = silence /\ Notices!OfflineEffect(silence, sensors["clientOffline"])
      /\ UNCHANGED <<dismissed, sensorAcked, sensors, status, silence>> /\ sensors["clientOffline"].enabled
    BY DEF Notices!OfflinePolled, Notices!Offline
<1>2. silence \in [WatchedClients -> -1..Levels] /\ sensors["clientOffline"] \in Switches
    BY DEF StoreInv, StoreTypes
<1>3. /\ active' \in Seq(WatchedClients) /\ Len(active') <= ACTIVE_CAP /\ Distinct(active', Len(active'))
      /\ history' \in Seq(Records) /\ Len(history') <= HISTORY_CAP
      /\ Notices!StrandedOnlyByCap' /\ firing' \in [WatchedClients -> BOOLEAN]
      /\ \A c \in WatchedClients : firing'[c] => silence[c] >= sensors["clientOffline"].threshold
    BY <1>1, <1>2, OfflineSays
<1>4. StoreTypes'
    BY <1>1, <1>2, <1>3 DEF StoreInv, StoreTypes
<1>5. Notices!AckEndsWithEpisode'
    BY <1>1, SensorsStay DEF SensorsSame
<1>6. Notices!NoDuplicateEvents'
    BY <1>3 DEF Notices!NoDuplicateEvents, Distinct
<1>7. Notices!RearmedWhenBack'
    BY <1>1, <1>3 DEF Notices!RearmedWhenBack, Notices!IsOver, Notices!Offline
<1> QED
    BY <1>3, <1>4, <1>5, <1>6, <1>7 DEF StoreInv

LEMMA SwitchActs ==
    ASSUME StoreInv, NEW k \in Sensors \cup {"clientOffline"}, NEW cfg \in Switches, Notices!SetSensor(k, cfg)
    PROVE  StoreInv'
<1>1. /\ sensors' = [sensors EXCEPT ![k] = cfg] /\ UNCHANGED <<dismissed, status, silence, lastOnline>>
      /\ IF k = "clientOffline"
         THEN Notices!OfflineEffect(lastOnline, cfg) /\ UNCHANGED sensorAcked
         ELSE Notices!SensorEffects(sensorAcked, sensors', status) /\ UNCHANGED <<firing, active, history, evicted>>
    BY DEF Notices!SetSensor, Notices!Offline
<1>2. /\ sensors \in [Sensors \cup {"clientOffline"} -> Switches]
      /\ sensors' \in [Sensors \cup {"clientOffline"} -> Switches]
      /\ sensors'[k] = cfg
      /\ \A x \in Sensors \cup {"clientOffline"} : x # k => sensors'[x] = sensors[x]
    BY <1>1 DEF StoreInv, StoreTypes
<1>3. CASE k = "clientOffline"
    <2>1. Notices!OfflineEffect(lastOnline, cfg) /\ UNCHANGED sensorAcked /\ lastOnline \in [WatchedClients -> -1..Levels]
        BY <1>1, <1>3 DEF StoreInv, StoreTypes
    <2>2. /\ active' \in Seq(WatchedClients) /\ Len(active') <= ACTIVE_CAP /\ Distinct(active', Len(active'))
          /\ history' \in Seq(Records) /\ Len(history') <= HISTORY_CAP
          /\ Notices!StrandedOnlyByCap' /\ firing' \in [WatchedClients -> BOOLEAN]
          /\ cfg.enabled => \A c \in WatchedClients : firing'[c] => lastOnline[c] >= cfg.threshold
        BY <1>1, <2>1, OfflineSays
    <2>3. StoreTypes'
        BY <1>1, <1>2, <2>1, <2>2 DEF StoreInv, StoreTypes
    <2>4. Notices!AckEndsWithEpisode'
        BY <1>1, <1>2, <1>3, <2>1, WatcherBounds DEF StoreInv, Notices!AckEndsWithEpisode
    <2>5. Notices!NoDuplicateEvents'
        BY <2>2 DEF Notices!NoDuplicateEvents, Distinct
    <2>6. Notices!RearmedWhenBack'
        BY <1>1, <1>2, <1>3, <2>2 DEF Notices!RearmedWhenBack, Notices!IsOver, Notices!Offline
    <2> QED BY <2>2, <2>3, <2>4, <2>5, <2>6 DEF StoreInv
<1>4. CASE k # "clientOffline"
    <2>1. Notices!SensorEffects(sensorAcked, sensors', status') /\ UNCHANGED firing /\ StoreSame
        BY <1>1, <1>4 DEF StoreSame
    <2>2. sensorAcked' \subseteq Sensors /\ Notices!AckEndsWithEpisode'
        <3>1. sensorAcked \in SUBSET Sensors
            BY DEF StoreInv, StoreTypes
        <3>2. status' \in [Sensors -> 0..Levels]
            BY <1>1 DEF StoreInv, StoreTypes
        <3> QED BY <1>2, <2>1, <3>1, <3>2, AcksSay
    <2>3. StoreTypes'
        BY <1>1, <1>2, <2>1, <2>2, StoreStays DEF StoreInv, StoreTypes
    <2>4. Notices!RearmedWhenBack'
        BY <1>1, <1>2, <1>4, <2>1 DEF StoreInv, Notices!RearmedWhenBack, Notices!IsOver, Notices!Offline
    <2> QED BY <2>1, <2>2, <2>3, <2>4, StoreStays DEF StoreInv
<1> QED
    BY <1>3, <1>4

LEMMA WorldActs ==
    ASSUME StoreInv, Notices!Reload \/ \E c \in WatchedClients, h \in 0..Levels : Notices!ClientSeen(c, h)
    PROVE  StoreInv'
<1>1. StoreSame /\ SensorsSame
    BY DEF StoreSame, SensorsSame, Notices!Reload, Notices!ClientSeen
<1>2. /\ silence \in [WatchedClients -> -1..Levels] /\ lastOnline \in [WatchedClients -> -1..Levels]
      /\ firing \in [WatchedClients -> BOOLEAN]
    BY DEF StoreInv, StoreTypes
<1>3. silence' \in [WatchedClients -> -1..Levels]
    <2>1. CASE Notices!Reload
        BY <1>2, <2>1 DEF Notices!Reload
    <2>2. ASSUME NEW c \in WatchedClients, NEW h \in 0..Levels, Notices!ClientSeen(c, h)
          PROVE  silence' \in [WatchedClients -> -1..Levels]
        <3>1. h \in -1..Levels /\ silence' = [silence EXCEPT ![c] = h]
            BY <2>2, WatcherBounds DEF Notices!ClientSeen
        <3> QED BY <1>2, <3>1
    <2> QED BY <2>1, <2>2
<1>4. /\ lastOnline' \in [WatchedClients -> -1..Levels] /\ firing' \in [WatchedClients -> BOOLEAN]
      /\ \A c \in WatchedClients : firing'[c] => firing[c] /\ lastOnline'[c] = lastOnline[c]
    <2>1. CASE Notices!Reload
        <3>1. lastOnline' = [c \in WatchedClients |-> -1] /\ firing' = [c \in WatchedClients |-> FALSE] /\ -1 \in -1..Levels
            BY <2>1, WatcherBounds DEF Notices!Reload
        <3> QED BY <3>1
    <2>2. CASE \E c \in WatchedClients, h \in 0..Levels : Notices!ClientSeen(c, h)
        BY <1>2, <2>2 DEF Notices!ClientSeen
    <2> QED BY <2>1, <2>2
<1>5. StoreTypes'
    BY <1>1, <1>3, <1>4, StoreStays DEF StoreInv, StoreTypes, SensorsSame
<1>6. Notices!RearmedWhenBack'
    BY <1>1, <1>4 DEF StoreInv, SensorsSame, Notices!RearmedWhenBack, Notices!IsOver, Notices!Offline
<1> QED
    BY <1>1, <1>5, <1>6, StoreStays, SensorsStay DEF StoreInv

LEMMA NextStore == ASSUME StoreInv, [Notices!Next]_noticesVars PROVE StoreInv'
<1>1. ASSUME NEW k \in Sensors \cup {"clientOffline"}, NEW b \in BOOLEAN, NEW t \in 1..Levels,
             Notices!SetSensor(k, [enabled |-> b, threshold |-> t])
      PROVE  StoreInv'
    <2>1. [enabled |-> b, threshold |-> t] \in Switches
        BY WatcherBounds DEF Switches
    <2> QED BY <1>1, <2>1, SwitchActs
<1>2. CASE Notices!Next
    BY <1>1, <1>2, LogActs, SensorActs, PollActs, WorldActs DEF Notices!Next, Notices!Offline
<1>3. CASE UNCHANGED noticesVars
    <2>1. StoreSame /\ SensorsSame /\ ClientsSame
        BY <1>3 DEF noticesVars, StoreSame, SensorsSame, ClientsSame
    <2>2. StoreTypes'
        BY <1>3 DEF noticesVars, StoreInv, StoreTypes
    <2> QED BY <2>1, <2>2, StoreStays, SensorsStay, ClientsStay DEF StoreInv
<1> QED
    BY <1>2, <1>3

-----------------------------------------------------------------------------
(* The settings form *)

PostTypes(p) ==
    /\ DOMAIN p = {"body", "via", "shown", "seen", "orphan", "pc"}
    /\ p.via \in {"save", "commit"} /\ p.orphan \in BOOLEAN /\ p.pc \in {"sent", "ok", "failed"}

\* A call of this page that is stored and not yet answered.
Owed == \E p \in posts : p.pc = "ok" /\ ~p.orphan

\* The query holds what is stored, or will be told; the process runs what is
\* stored, or somebody knows; nothing is saved through the page during a restart.
SettingsInv ==
    /\ \A p \in posts : PostTypes(p)
    /\ settingsRefetch \in {Settings!Idle, Settings!Asked} \/ settingsRefetch.pc = "read"
    /\ restart \in {"idle", "asked", "accepted", "leaving"}
    /\ settingsCauses \cap Settings!TabCauses = {} =>
           \/ Owed \/ settingsRefetch = Settings!Asked
           \/ settingsRefetch.pc = "read" /\ settingsRefetch.v = settingsSaved
           \/ settingsRefetch = Settings!Idle /\ settingsOriginal = settingsSaved
    /\ running # settingsSaved =>
           \/ restartNeeded /\ restart # "accepted"
           \/ restartDue \/ Owed \/ settingsCauses \cap Settings!ProcessCauses # {}
    /\ restart \in {"asked", "accepted"} => ~gate /\ \A p \in posts : p.orphan \/ p.via # "save"

LEMMA Answers == Settings!Idle.pc = "idle" /\ Settings!Asked.pc = "asked" /\ Settings!Idle # Settings!Asked
    BY DEF Settings!Idle, Settings!Asked

\* What the page was not told differs for the tab and for the process.
LEMMA UntoldSays ==
    ASSUME NEW C, NEW D, D = C \cup Settings!Untold
    PROVE  D \cap Settings!TabCauses # {} /\ D \cap Settings!ProcessCauses # {}
    BY DEF Settings!Untold, Settings!TabCauses, Settings!ProcessCauses

LEMMA InitSettings == ASSUME Settings!Init PROVE SettingsInv
    BY Answers DEF Settings!Init, SettingsInv

LEMMA SettingsSays == ASSUME SettingsInv PROVE Settings!CleanMeansSaved /\ Settings!StaleProcessIsReminded
<1>1. Settings!CleanMeansSaved
    BY Answers DEF SettingsInv, Settings!CleanMeansSaved, Settings!Settled, Settings!dirty, Owed
<1>2. Settings!StaleProcessIsReminded
    BY DEF SettingsInv, Settings!StaleProcessIsReminded, Owed
<1> QED
    BY <1>1, <1>2

\* One more call is sent.
LEMMA SendSays ==
    ASSUME SettingsInv, NEW body, NEW via \in {"save", "commit"}, NEW shown, Settings!Send(body, via, shown)
    PROVE  /\ \A p \in posts' : PostTypes(p)
           /\ (\E p \in posts' : p.pc = "ok" /\ ~p.orphan) <=> Owed
           /\ \A p \in posts' : p \in posts \/ p.via = via
<1> DEFINE new == [body |-> body, via |-> via, shown |-> shown, seen |-> settingsOriginal, orphan |-> FALSE, pc |-> "sent"]
<1>1. posts' = posts \cup {new}
    BY DEF Settings!Send
<1>2. PostTypes(new) /\ new.pc = "sent" /\ new.via = via
    BY DEF PostTypes
<1> HIDE DEF new
<1> QED
    BY <1>1, <1>2 DEF SettingsInv, Owed

\* What the user does to the form.
LEMMA FormActs ==
    ASSUME SettingsInv,
           \/ Settings!RequestSave \/ Settings!ConfirmDanger \/ Settings!CancelDanger
           \/ Settings!OpenTfa \/ Settings!ConfirmTfa \/ Settings!CancelTfa
           \/ \E f \in Settings!Fields : Settings!UpdateSetting(f)
    PROVE  SettingsInv'
<1>1. /\ UNCHANGED <<settingsSaved, running, settingsOriginal, settingsRefetch, restart, restartDue, restartNeeded, settingsCauses>>
    BY DEF Settings!RequestSave, Settings!ConfirmDanger, Settings!CancelDanger, Settings!OpenTfa,
       Settings!ConfirmTfa, Settings!CancelTfa, Settings!UpdateSetting
<1>2. CASE Settings!CancelDanger \/ Settings!OpenTfa \/ Settings!CancelTfa \/ \E f \in Settings!Fields : Settings!UpdateSetting(f)
    <2>1. posts' = posts /\ (gate' => gate)
        BY <1>2 DEF Settings!CancelDanger, Settings!OpenTfa, Settings!CancelTfa, Settings!UpdateSetting
    <2> QED BY <1>1, <2>1 DEF SettingsInv, Owed, PostTypes
<1>3. CASE Settings!RequestSave \/ Settings!ConfirmDanger
    <2>1. restart \notin {"asked", "accepted"}
        BY <1>3 DEF Settings!RequestSave, Settings!ConfirmDanger, Settings!busy, SettingsInv
    <2>2. posts' = posts \/ \E body, shown : Settings!Send(body, "save", shown)
        BY <1>3 DEF Settings!RequestSave, Settings!ConfirmDanger
    <2>3. (\A p \in posts' : PostTypes(p)) /\ (Owed' <=> Owed)
        BY <2>2, SendSays DEF SettingsInv, Owed
    <2> QED BY <1>1, <2>1, <2>3 DEF SettingsInv
<1>4. CASE Settings!ConfirmTfa
    <2>1. gate' = gate /\ \E body, shown : Settings!Send(body, "commit", shown)
        BY <1>4 DEF Settings!ConfirmTfa
    <2>2. (\A p \in posts' : PostTypes(p)) /\ (Owed' <=> Owed) /\ \A p \in posts' : p \in posts \/ p.via = "commit"
        BY <2>1, SendSays DEF Owed
    <2> QED BY <1>1, <2>1, <2>2 DEF SettingsInv
<1> QED
    BY <1>2, <1>3, <1>4

\* A call is stored or refused.
LEMMA Verdict ==
    ASSUME SettingsInv, NEW p \in posts, p.pc = "sent", NEW pc \in {"ok", "failed"},
           posts' = (posts \ {p}) \cup {[p EXCEPT !.pc = pc]}
    PROVE  /\ \A q \in posts' : PostTypes(q)
           /\ \A q \in posts : q.pc = "ok" => q \in posts'
           /\ [p EXCEPT !.pc = pc].pc = pc /\ [p EXCEPT !.pc = pc].orphan = p.orphan
           /\ (\A q \in posts : q.orphan \/ q.via # "save") => \A q \in posts' : q.orphan \/ q.via # "save"
<1> DEFINE r == [p EXCEPT !.pc = pc]
<1>1. PostTypes(p)
    BY DEF SettingsInv
<1>2. PostTypes(r) /\ r.pc = pc /\ r.orphan = p.orphan /\ r.via = p.via
    BY <1>1 DEF PostTypes
<1> HIDE DEF r
<1>3. posts' = (posts \ {p}) \cup {r}
    BY DEF r
<1> QED
    BY <1>2, <1>3 DEF SettingsInv, r

LEMMA ServerActs ==
    ASSUME SettingsInv,
           \E p \in posts : \/ Settings!ServerSaves(p) \/ Settings!ServerRefuses(p)
                            \/ Settings!AnswerLost(p) \/ Settings!SaveReturns(p)
    PROVE  SettingsInv'
<1>1. ASSUME NEW p \in posts, Settings!ServerSaves(p) PROVE SettingsInv'
    <2>1. /\ p.pc = "sent" /\ settingsSaved' = p.body /\ posts' = (posts \ {p}) \cup {[p EXCEPT !.pc = "ok"]}
          /\ UNCHANGED <<running, settingsOriginal, settingsRefetch, gate, restart, restartDue, restartNeeded>>
          /\ settingsCauses' = settingsCauses \cup (IF p.orphan THEN Settings!Untold ELSE {})
        BY <1>1 DEF Settings!ServerSaves
    <2>2. /\ \A q \in posts' : PostTypes(q)
          /\ [p EXCEPT !.pc = "ok"].pc = "ok" /\ [p EXCEPT !.pc = "ok"].orphan = p.orphan
          /\ (\A q \in posts : q.orphan \/ q.via # "save") => \A q \in posts' : q.orphan \/ q.via # "save"
        BY <2>1, Verdict
    <2>3. p.orphan \/ Owed'
        BY <2>1, <2>2 DEF Owed
    <2>4. p.orphan => settingsCauses' \cap Settings!TabCauses # {} /\ settingsCauses' \cap Settings!ProcessCauses # {}
        BY <2>1, UntoldSays
    <2> QED BY <2>1, <2>2, <2>3, <2>4 DEF SettingsInv
<1>2. ASSUME NEW p \in posts, Settings!ServerRefuses(p) PROVE SettingsInv'
    <2>1. /\ p.pc = "sent" /\ posts' = (posts \ {p}) \cup {[p EXCEPT !.pc = "failed"]}
          /\ UNCHANGED <<running, settingsOriginal, settingsRefetch, gate, restart, restartDue, restartNeeded>>
          /\ settingsCauses' = settingsCauses \cup (IF settingsSaved' # settingsSaved THEN Settings!Untold ELSE {})
        BY <1>2 DEF Settings!ServerRefuses
    <2>2. /\ \A q \in posts' : PostTypes(q)
          /\ \A q \in posts : q.pc = "ok" => q \in posts'
          /\ (\A q \in posts : q.orphan \/ q.via # "save") => \A q \in posts' : q.orphan \/ q.via # "save"
        BY <2>1, Verdict
    <2>3. Owed => Owed'
        BY <2>2 DEF Owed
    <2>4. CASE settingsSaved' = settingsSaved
        <3>1. settingsCauses' = settingsCauses
            BY <2>1, <2>4
        <3> QED BY <2>1, <2>2, <2>3, <2>4, <3>1 DEF SettingsInv
    <2>5. CASE settingsSaved' # settingsSaved
        <3>1. settingsCauses' \cap Settings!TabCauses # {} /\ settingsCauses' \cap Settings!ProcessCauses # {}
            BY <2>1, <2>5, UntoldSays
        <3> QED BY <2>1, <2>2, <3>1 DEF SettingsInv
    <2> QED BY <2>4, <2>5
<1>4. ASSUME NEW p \in posts, Settings!AnswerLost(p) PROVE SettingsInv'
    <2>1. /\ p.pc \in {"sent", "ok"} /\ posts' = (posts \ {p}) \cup {[p EXCEPT !.orphan = TRUE]}
          /\ UNCHANGED <<settingsSaved, running, settingsOriginal, settingsRefetch, gate, restart, restartDue, restartNeeded>>
          /\ settingsCauses' = settingsCauses \cup (IF p.pc = "ok" THEN Settings!Untold ELSE {})
        BY <1>4 DEF Settings!AnswerLost
    <2>2. PostTypes([p EXCEPT !.orphan = TRUE]) /\ [p EXCEPT !.orphan = TRUE].orphan
        BY DEF SettingsInv, PostTypes
    <2>3. /\ \A q \in posts' : PostTypes(q)
          /\ (\A q \in posts : q.orphan \/ q.via # "save") => \A q \in posts' : q.orphan \/ q.via # "save"
        BY <2>1, <2>2 DEF SettingsInv
    <2>4. CASE p.pc = "ok"
        <3>1. settingsCauses' \cap Settings!TabCauses # {} /\ settingsCauses' \cap Settings!ProcessCauses # {}
            BY <2>1, <2>4, UntoldSays
        <3> QED BY <2>1, <2>3, <3>1 DEF SettingsInv
    <2>5. CASE p.pc # "ok"
        <3>1. settingsCauses' = settingsCauses /\ (Owed => Owed')
            BY <2>1, <2>5 DEF Owed
        <3> QED BY <2>1, <2>3, <3>1 DEF SettingsInv
    <2> QED BY <2>4, <2>5
<1>3. ASSUME NEW p \in posts, Settings!SaveReturns(p) PROVE SettingsInv'
    <2>1. /\ posts' = posts \ {p}
          /\ settingsRefetch' = (IF p.pc = "ok" /\ ~p.orphan THEN Settings!Asked ELSE settingsRefetch)
          /\ restartNeeded' = (restartNeeded \/ (p.pc = "ok" /\ p.via = "save" /\ ~p.orphan))
          /\ settingsCauses' = settingsCauses \cup (IF p.pc = "ok" /\ p.via = "commit" THEN {"commit"} ELSE {})
          /\ UNCHANGED <<settingsSaved, running, settingsOriginal, gate, restart, restartDue>>
        BY <1>3 DEF Settings!SaveReturns
    <2>2. (p.pc = "ok" /\ ~p.orphan) \/ (Owed => Owed')
        BY <2>1 DEF Owed
    <2>3. p.pc = "ok" /\ p.via = "commit" => settingsCauses' \cap Settings!ProcessCauses # {}
        BY <2>1 DEF Settings!ProcessCauses
    <2>4. settingsCauses' \cap Settings!TabCauses = settingsCauses \cap Settings!TabCauses
        BY <2>1 DEF Settings!TabCauses
    <2>5. p.via \in {"save", "commit"}
        BY DEF SettingsInv, PostTypes
    <2>6. settingsCauses \subseteq settingsCauses'
        BY <2>1
    <2>7. running # settingsSaved => (restartNeeded' /\ restart # "accepted")
              \/ restartDue \/ Owed' \/ settingsCauses' \cap Settings!ProcessCauses # {}
        BY <2>1, <2>2, <2>3, <2>5, <2>6 DEF SettingsInv
    <2> QED BY <2>1, <2>2, <2>4, <2>7 DEF SettingsInv
<1> QED
    BY <1>1, <1>2, <1>3, <1>4

LEMMA QueryActs ==
    ASSUME SettingsInv,
           \/ Settings!ServerReads \/ Settings!RefetchArrives \/ Settings!RefetchFails
           \/ \E f \in Settings!Fields : Settings!OtherSession(f)
    PROVE  SettingsInv'
<1>1. UNCHANGED <<posts, running, gate, restart, restartDue, restartNeeded>> /\ (Owed' <=> Owed)
    BY DEF Settings!ServerReads, Settings!RefetchArrives, Settings!RefetchFails, Settings!OtherSession, Settings!tabVars, Owed
<1>2. settingsCauses' \cap Settings!ProcessCauses = settingsCauses \cap Settings!ProcessCauses
      \/ settingsCauses' \cap Settings!ProcessCauses # {}
    BY DEF Settings!ServerReads, Settings!RefetchArrives, Settings!RefetchFails, Settings!OtherSession,
       Settings!ProcessCauses, Settings!TabCauses
<1>3. CASE Settings!ServerReads
    BY <1>1, <1>2, <1>3 DEF Settings!ServerReads, SettingsInv, PostTypes
<1>4. CASE Settings!RefetchArrives
    <2>1. settingsCauses' = settingsCauses \/ settingsOriginal' = settingsSaved
        BY <1>4 DEF Settings!RefetchArrives
    <2>2. settingsCauses \cap Settings!TabCauses = {} => Owed \/ settingsOriginal' = settingsSaved
        BY <1>4, Answers DEF Settings!RefetchArrives, SettingsInv
    <2> QED BY <1>1, <1>2, <1>4, <2>1, <2>2, Answers DEF Settings!RefetchArrives, SettingsInv, PostTypes
<1>5. CASE Settings!RefetchFails
    <2>1. settingsCauses' \cap Settings!TabCauses # {}
        BY <1>5 DEF Settings!RefetchFails, Settings!TabCauses
    <2> QED BY <1>1, <1>2, <1>5, <2>1, Answers DEF Settings!RefetchFails, SettingsInv, PostTypes
<1>6. CASE \E f \in Settings!Fields : Settings!OtherSession(f)
    <2>1. /\ settingsCauses' \cap Settings!TabCauses # {} /\ settingsCauses' \cap Settings!ProcessCauses # {}
          /\ settingsRefetch' = settingsRefetch
        BY <1>6 DEF Settings!OtherSession, Settings!TabCauses, Settings!ProcessCauses, Settings!tabVars
    <2> QED BY <1>1, <2>1 DEF SettingsInv, PostTypes
<1> QED
    BY <1>3, <1>4, <1>5, <1>6

LEMMA RestartActs ==
    ASSUME SettingsInv,
           \/ Settings!RequestRestart \/ Settings!ServerAcceptsRestart \/ Settings!RestartRefused
           \/ Settings!RestartAccepted \/ Settings!PanelRestarts
    PROVE  SettingsInv'
<1>1. UNCHANGED <<posts, settingsSaved, settingsOriginal, settingsRefetch, gate>> /\ (Owed' <=> Owed)
    BY DEF Settings!RequestRestart, Settings!ServerAcceptsRestart, Settings!RestartRefused, Settings!RestartAccepted,
       Settings!PanelRestarts, Settings!tabVars, Owed
<1>2. CASE Settings!RequestRestart
    <2>1. ~gate /\ \A p \in posts : p.orphan
        BY <1>2 DEF Settings!RequestRestart, Settings!Frosted, Settings!busy
    <2> QED BY <1>1, <1>2, <2>1 DEF Settings!RequestRestart, SettingsInv, PostTypes
<1>3. CASE Settings!ServerAcceptsRestart \/ Settings!RestartRefused
    BY <1>1, <1>3 DEF Settings!ServerAcceptsRestart, Settings!RestartRefused, SettingsInv, PostTypes
<1>4. CASE Settings!RestartAccepted
    BY <1>1, <1>4 DEF Settings!RestartAccepted, SettingsInv, PostTypes
<1>5. CASE Settings!PanelRestarts
    <2>1. settingsCauses' \cap Settings!TabCauses = settingsCauses \cap Settings!TabCauses
        BY <1>5 DEF Settings!PanelRestarts, Settings!TabCauses, Settings!ProcessCauses
    <2> QED BY <1>1, <1>5, <2>1 DEF Settings!PanelRestarts, Settings!tabVars, SettingsInv, PostTypes
<1> QED
    BY <1>2, <1>3, <1>4, <1>5

\* Loaded anew the page knows what is stored, and nothing of its calls.
LEMMA ReloadActs == ASSUME SettingsInv, Settings!Reload PROVE SettingsInv'
<1>1. /\ UNCHANGED <<settingsSaved, running, restartDue, restartNeeded>>
      /\ settingsOriginal' = settingsSaved /\ settingsRefetch' = Settings!Idle /\ ~gate' /\ restart' = "idle"
      /\ posts' = {[p EXCEPT !.orphan = TRUE] : p \in {q \in posts : q.pc = "sent"}}
      /\ settingsCauses' = (settingsCauses \ Settings!TabCauses) \cup (IF posts # {} THEN Settings!Untold ELSE {})
    BY DEF Settings!Reload
<1>2. \A p \in posts' : PostTypes(p)
    <2>1. ASSUME NEW p \in posts PROVE PostTypes([p EXCEPT !.orphan = TRUE])
        BY DEF SettingsInv, PostTypes
    <2> QED BY <1>1, <2>1
<1>3. posts # {} => settingsCauses' \cap Settings!ProcessCauses # {}
    BY <1>1, UntoldSays
<1>4. settingsCauses \cap Settings!ProcessCauses \subseteq settingsCauses'
    BY <1>1 DEF Settings!ProcessCauses, Settings!TabCauses
<1>5. running # settingsSaved => restartNeeded \/ restartDue \/ settingsCauses' \cap Settings!ProcessCauses # {}
    BY <1>3, <1>4 DEF SettingsInv, Owed
<1> QED
    BY <1>1, <1>2, <1>5 DEF SettingsInv

LEMMA NextSettings == ASSUME SettingsInv, [Settings!Next]_settingsVars PROVE SettingsInv'
<1>1. CASE Settings!Next
    BY <1>1, FormActs, ServerActs, QueryActs, RestartActs, ReloadActs DEF Settings!Next
<1>2. CASE UNCHANGED settingsVars
    BY <1>2 DEF settingsVars, SettingsInv, PostTypes, Owed
<1> QED
    BY <1>1, <1>2

-----------------------------------------------------------------------------
(* The template editor *)

XrayTypes ==
    /\ xrayStored \in Templates /\ core \in Templates
    /\ xraySetting \in Xray!Texts /\ templateSettings \in Templates \cup {"null"}
    /\ oldXraySetting \in Templates \cup {"null"} /\ configData \in Templates \cup {"null"}
    /\ configFetch \in Templates \cup {"idle", "asked"}
    /\ save \in [pc : {"sent", "ok", "failed"}, text : Templates] \cup {Xray!NoSave}
    /\ coreRestart \in {"idle", "asked", "ok", "failed"}
    /\ late \subseteq Templates

\* Somebody else stored, or a save did whose answer said otherwise or was not awaited.
Behind == drift \cap {"otherSession", "storedUnseen"} # {}

\* The server has stored what was saved, and nobody has told the editor yet.
Unheard == save.pc = "ok" /\ save.text = xrayStored

\* What the editor takes for stored, and what it reads, is stored unless it is
\* about to hear of its own save; saves and restarts exclude each other, and a
\* restart that has ended has left the core with what was stored.
XrayInv ==
    /\ XrayTypes
    /\ Xray!OneDraft /\ Xray!StaleCoreIsReminded
    /\ configData = "null" => configFetch # "idle"
    /\ ~Behind =>
           /\ configData # "null" => oldXraySetting = xrayStored \/ Unheard
           /\ configFetch \in Templates => configFetch = xrayStored \/ Unheard
           /\ save.pc = "ok" => Unheard
    /\ coreRestart # "idle" => save = Xray!NoSave
    /\ coreRestart = "ok" => core = xrayStored \/ drift \cap {"storedElsewhere", "storedLate"} # {}
    /\ coreRestart = "failed" => "restartFailed" \in drift

LEMMA InitXray == ASSUME Xray!Init PROVE XrayInv
    BY EditorNames DEF Xray!Init, XrayInv, XrayTypes, Xray!OneDraft, Xray!StaleCoreIsReminded, Xray!Null, Xray!Texts,
       Xray!Garbage, Xray!NoSave, Unheard, Behind

LEMMA XraySays == ASSUME XrayInv PROVE Xray!OneDraft /\ Xray!TextSaved /\ Xray!StaleCoreIsReminded
<1>1. Xray!TextSaved
    BY DEF XrayInv, Xray!TextSaved, Xray!NoSave, Unheard, Behind
<1> QED
    BY <1>1 DEF XrayInv

LEMMA DraftXray ==
    ASSUME XrayInv,
           \/ Xray!DirtyPoll
           \/ \E x \in Templates : Xray!SetTemplateSettings(x)
           \/ \E x \in Xray!Texts : Xray!EditText(x)
    PROVE  XrayInv'
    BY EditorNames DEF Xray!DirtyPoll, Xray!SetTemplateSettings, Xray!EditText, Xray!SetXraySetting, Xray!draftVars,
       XrayInv, XrayTypes, Xray!OneDraft, Xray!StaleCoreIsReminded, Xray!Null, Xray!Texts, Xray!Garbage, Unheard, Behind

\* The server's answer, or what the page takes for one.
LEMMA VerdictXray ==
    ASSUME XrayInv, save.pc = "sent", NEW pc \in {"ok", "failed"}, save' = [save EXCEPT !.pc = pc]
    PROVE  /\ save' = [pc |-> pc, text |-> save.text] /\ save.text \in Templates
           /\ save' \in [pc : {"sent", "ok", "failed"}, text : Templates]
           /\ save' # Xray!NoSave /\ save # Xray!NoSave /\ coreRestart = "idle" /\ ~Unheard
<1>1. save \in [pc : {"sent", "ok", "failed"}, text : Templates] /\ save # Xray!NoSave /\ coreRestart = "idle" /\ ~Unheard
    BY DEF XrayInv, XrayTypes, Xray!NoSave, Unheard
<1>2. save = [pc |-> save.pc, text |-> save.text] /\ save.text \in Templates
    BY <1>1
<1>3. save' = [pc |-> pc, text |-> save.text]
    BY <1>2
<1>4. save' \in [pc : {"sent", "ok", "failed"}, text : Templates] /\ save' # Xray!NoSave
    BY <1>2, <1>3 DEF Xray!NoSave
<1> QED
    BY <1>1, <1>2, <1>3, <1>4

LEMMA SaveXray ==
    ASSUME XrayInv,
           \/ Xray!OnSaveAll \/ Xray!ServerStores \/ Xray!ServerRefuses \/ Xray!ServerRefusesUrl
           \/ Xray!AnswerLost \/ Xray!SaveReturns
    PROVE  XrayInv'
<1>1. CASE Xray!OnSaveAll
    BY <1>1 DEF Xray!OnSaveAll, Xray!spinning, Xray!draftVars, XrayInv, XrayTypes, Xray!OneDraft,
       Xray!StaleCoreIsReminded, Xray!NoSave, Unheard, Behind
<1>2. CASE Xray!ServerStores
    <2>1. save.pc = "sent" /\ save' = [save EXCEPT !.pc = "ok"] /\ xrayStored' = save.text
        BY <1>2 DEF Xray!ServerStores
    <2>2. /\ save' = [pc |-> "ok", text |-> save.text] /\ save.text \in Templates
          /\ save' \in [pc : {"sent", "ok", "failed"}, text : Templates]
          /\ save' # Xray!NoSave /\ coreRestart = "idle"
        BY <2>1, VerdictXray
    <2>3. Unheard'
        BY <2>1, <2>2 DEF Unheard
    <2> QED BY <1>2, <2>1, <2>2, <2>3 DEF Xray!ServerStores, Xray!draftVars, XrayInv, XrayTypes, Xray!OneDraft,
               Xray!StaleCoreIsReminded, Behind
<1>3. CASE Xray!ServerRefuses \/ Xray!ServerRefusesUrl \/ Xray!AnswerLost
    <2>1. save.pc = "sent" /\ save' = [save EXCEPT !.pc = "failed"]
        BY <1>3 DEF Xray!ServerRefuses, Xray!ServerRefusesUrl, Xray!AnswerLost
    <2>2. /\ save' = [pc |-> "failed", text |-> save.text] /\ save.text \in Templates
          /\ save' \in [pc : {"sent", "ok", "failed"}, text : Templates]
          /\ save' # Xray!NoSave /\ save # Xray!NoSave /\ coreRestart = "idle" /\ ~Unheard
        BY <2>1, VerdictXray
    <2>3. save'.pc = "failed"
        BY <2>2
    <2>4. CASE Xray!ServerRefuses
        BY <2>2, <2>3, <2>4 DEF Xray!ServerRefuses, Xray!draftVars, XrayInv, XrayTypes, Xray!OneDraft,
           Xray!StaleCoreIsReminded, Behind
    <2>5. CASE Xray!ServerRefusesUrl
        BY <2>2, <2>3, <2>5 DEF Xray!ServerRefusesUrl, Xray!draftVars, XrayInv, XrayTypes, Xray!OneDraft,
           Xray!StaleCoreIsReminded, Behind
    <2>6. CASE Xray!AnswerLost
        BY <2>2, <2>3, <2>6 DEF Xray!AnswerLost, Xray!draftVars, XrayInv, XrayTypes, Xray!OneDraft,
           Xray!StaleCoreIsReminded, Behind
    <2> QED BY <1>3, <2>4, <2>5, <2>6
<1>4. CASE Xray!SaveReturns
    BY <1>4, EditorNames DEF Xray!SaveReturns, Xray!draftVars, XrayInv, XrayTypes, Xray!OneDraft,
       Xray!StaleCoreIsReminded, Xray!NoSave, Unheard, Behind
<1> QED
    BY <1>1, <1>2, <1>3, <1>4

\* A save the page no longer waits for, and a page loaded anew.
LEMMA LateXray == ASSUME XrayInv, \E x \in Templates : Xray!LateStores(x) PROVE XrayInv'
<1>1. PICK x \in Templates : Xray!LateStores(x)
    OBVIOUS
<1>2. /\ xrayStored' = x /\ late' \subseteq late /\ drift \subseteq drift' /\ Behind'
      /\ UNCHANGED <<core, configData, Xray!draftVars, oldXraySetting, saveDisabled, save, configFetch, coreRestart,
                     xrayRestartNeeded>>
    BY <1>1 DEF Xray!LateStores, Behind
<1>3. (coreRestart # "ok" /\ (xrayRestartNeeded \/ save # Xray!NoSave)) \/ "storedLate" \in drift'
    BY <1>1 DEF Xray!LateStores
<1> QED
    BY <1>2, <1>3 DEF Xray!draftVars, XrayInv, XrayTypes, Xray!OneDraft, Xray!StaleCoreIsReminded, Unheard

LEMMA ReloadXray == ASSUME XrayInv, Xray!Reload PROVE XrayInv'
<1>1. /\ UNCHANGED xrayStored /\ configData' = "null" /\ xraySetting' = "null" /\ templateSettings' = "null"
      /\ oldXraySetting' = "null" /\ save' = Xray!NoSave /\ configFetch' = "asked" /\ coreRestart' = "idle"
      /\ core' \in {core, xrayStored}
      /\ core' # xrayStored => "reloaded" \in drift'
      /\ late' \subseteq late \cup (IF save.pc = "sent" THEN {save.text} ELSE {})
    BY DEF Xray!Reload, Xray!Null
<1>2. save.pc = "sent" => save.text \in Templates
    BY DEF XrayInv, XrayTypes, Xray!NoSave
<1>3. late' \subseteq Templates
    BY <1>1, <1>2 DEF XrayInv, XrayTypes
<1>4. XrayTypes'
    BY <1>1, <1>3 DEF XrayInv, XrayTypes, Xray!Texts, Xray!Null, Xray!NoSave
<1>5. Xray!OneDraft' /\ Xray!StaleCoreIsReminded'
    BY <1>1, EditorNames DEF Xray!OneDraft, Xray!StaleCoreIsReminded, Xray!NoSave
<1> QED
    BY <1>1, <1>4, <1>5, EditorNames DEF XrayInv, Xray!NoSave

LEMMA FetchXray ==
    ASSUME XrayInv, Xray!ConfigRead \/ Xray!ConfigArrives \/ Xray!ConfigFetchFails \/ Xray!WindowFocus
    PROVE  XrayInv'
<1>1. CASE Xray!ConfigRead
    BY <1>1, EditorNames DEF Xray!ConfigRead, Xray!draftVars, XrayInv, XrayTypes, Xray!OneDraft,
       Xray!StaleCoreIsReminded, Unheard, Behind
<1>2. CASE Xray!ConfigArrives
    <2>1. XrayTypes' /\ Xray!OneDraft'
        BY <1>2, EditorNames DEF Xray!ConfigArrives, Xray!draftVars, XrayInv, XrayTypes, Xray!OneDraft, Xray!Texts
    <2>2. configData' # "null" /\ configFetch' = "idle" /\ configFetch' \notin Templates
        BY <1>2, EditorNames DEF Xray!ConfigArrives
    <2>3. drift' \subseteq drift /\ LET D == {"storedElsewhere", "restartFailed", "storedLate", "reloaded"} IN D \cap drift' = D \cap drift
        BY <1>2 DEF Xray!ConfigArrives
    <2>4. ~Behind' => oldXraySetting' = xrayStored \/ Unheard
        BY <1>2, EditorNames DEF Xray!ConfigArrives, XrayInv, XrayTypes, Behind
    <2>5. ~Behind' => (save.pc = "ok" => Unheard)
        BY <1>2 DEF Xray!ConfigArrives, XrayInv, Xray!NoSave, Behind
    <2> QED BY <1>2, <2>1, <2>2, <2>3, <2>4, <2>5 DEF Xray!ConfigArrives, XrayInv, Xray!StaleCoreIsReminded, Unheard, Behind
<1>3. CASE Xray!ConfigFetchFails
    BY <1>3, EditorNames DEF Xray!ConfigFetchFails, Xray!draftVars, XrayInv, XrayTypes, Xray!OneDraft,
       Xray!StaleCoreIsReminded, Xray!Null, Unheard, Behind
<1>4. CASE Xray!WindowFocus
    BY <1>4, EditorNames DEF Xray!WindowFocus, Xray!draftVars, XrayInv, XrayTypes, Xray!OneDraft,
       Xray!StaleCoreIsReminded, Unheard, Behind
<1> QED
    BY <1>1, <1>2, <1>3, <1>4

LEMMA RestartXray ==
    ASSUME XrayInv,
           \/ Xray!OnRestartXray \/ Xray!CoreRestarts \/ Xray!CoreRestartFails \/ Xray!RestartReturns
           \/ \E x \in Templates : Xray!OtherSessionStores(x)
    PROVE  XrayInv'
<1>1. CASE Xray!OnRestartXray
    BY <1>1 DEF Xray!OnRestartXray, Xray!spinning, Xray!draftVars, XrayInv, XrayTypes, Xray!OneDraft,
       Xray!StaleCoreIsReminded, Xray!NoSave, Unheard, Behind
<1>2. CASE Xray!CoreRestarts
    BY <1>2 DEF Xray!CoreRestarts, Xray!draftVars, XrayInv, XrayTypes, Xray!OneDraft,
       Xray!StaleCoreIsReminded, Unheard, Behind
<1>3. CASE Xray!CoreRestartFails
    BY <1>3 DEF Xray!CoreRestartFails, Xray!draftVars, XrayInv, XrayTypes, Xray!OneDraft,
       Xray!StaleCoreIsReminded, Unheard, Behind
<1>4. CASE Xray!RestartReturns
    BY <1>4 DEF Xray!RestartReturns, Xray!draftVars, XrayInv, XrayTypes, Xray!OneDraft,
       Xray!StaleCoreIsReminded, Xray!NoSave, Unheard, Behind
<1>5. CASE \E x \in Templates : Xray!OtherSessionStores(x)
    BY <1>5 DEF Xray!OtherSessionStores, Xray!draftVars, XrayInv, XrayTypes, Xray!OneDraft,
       Xray!StaleCoreIsReminded, Unheard, Behind
<1> QED
    BY <1>1, <1>2, <1>3, <1>4, <1>5

LEMMA NextXray == ASSUME XrayInv, [Xray!Next]_xrayVars PROVE XrayInv'
<1>1. CASE Xray!Next
    BY <1>1, DraftXray, SaveXray, LateXray, ReloadXray, FetchXray, RestartXray DEF Xray!Next
<1>2. CASE UNCHANGED xrayVars
    BY <1>2 DEF xrayVars, XrayInv, XrayTypes, Xray!OneDraft, Xray!StaleCoreIsReminded, Unheard, Behind
<1> QED
    BY <1>1, <1>2

-----------------------------------------------------------------------------
(* The DNS section *)

\* What the template may hold as hosts: finitely many domains with their values.
IsHosts(h) == IsFiniteSet(DOMAIN h) /\ DOMAIN h \subseteq Domains /\ h \in [DOMAIN h -> {{"ip"}}]

DnsTypes ==
    /\ DOMAIN dns = {"on", "hosts", "servers", "fakedns"} /\ dns.on \in BOOLEAN
    /\ IsHosts(dns.hosts)
    /\ hostsList \in Seq(Dns!HostRows)

\* Without DNS there are no hosts, on screen or in the template.
DnsInv ==
    /\ DnsTypes
    /\ ~dns.on => dns.hosts = Dns!NoHosts /\ hostsList = <<>>
    /\ Dns!HostsMirrored

\* The greatest of finitely many numbers.
LEMMA GreatestNumber ==
    ASSUME NEW n \in Nat, NEW T, T \subseteq 1..n, T # {}
    PROVE  \E i \in T : \A j \in T : j <= i
<1> DEFINE U == {n - i : i \in T}
<1>1. U \subseteq Nat /\ U # {}
    <2>1. \A i \in T : i \in 1..n /\ n - i \in Nat
        OBVIOUS
    <2> QED BY <2>1
<1>2. PICK u \in U : \A v \in U : u <= v
    BY <1>1, LeastNumber
<1>3. PICK i \in T : u = n - i
    BY <1>2
<1>4. ASSUME NEW j \in T PROVE j <= i
    <2>1. n - j \in U /\ i \in 1..n /\ j \in 1..n
        OBVIOUS
    <2> QED BY <1>2, <1>3, <2>1
<1> QED
    BY <1>4

\* What the template is given for the rows on screen are hosts.
LEMMA HostsOfRows ==
    ASSUME NEW hrows \in Seq(Dns!HostRows)
    PROVE  IsHosts(Dns!HostsOf(hrows))
<1> DEFINE C == Dns!Complete(hrows)
           S == {hrows[i].domain : i \in C}
           At(d) == {i \in C : hrows[i].domain = d}
           g == [i \in C |-> hrows[i].domain]
<1>1. /\ C \subseteq 1..Len(hrows) /\ Len(hrows) \in Nat
      /\ \A i \in C : hrows[i].domain \in Domains /\ hrows[i].values = {"ip"}
    <2>1. \A x \in Dns!HostRows : x.domain \in Domains \cup {"empty"} /\ x.values \in {{}, {"ip"}}
        BY DEF Dns!HostRows, Dns!NoDomain
    <2>2. \A i \in C : i \in 1..Len(hrows) /\ hrows[i].domain # "empty" /\ hrows[i].values # {}
        BY DEF Dns!Complete, Dns!NoDomain
    <2>3. \A i \in 1..Len(hrows) : hrows[i] \in Dns!HostRows
        OBVIOUS
    <2> HIDE DEF C
    <2> QED BY <2>1, <2>2, <2>3
<1>2. IsFiniteSet(C)
    <2>1. IsFiniteSet(1..Len(hrows))
        BY <1>1, FS_Interval
    <2> HIDE DEF C
    <2> QED BY <1>1, <2>1, FS_Subset
<1>3. g \in Surjection(C, S)
    BY DEF Surjection
<1>4. IsFiniteSet(S) /\ S \subseteq Domains
    BY <1>1, <1>2, <1>3, FS_Surjection
<1>5. Dns!HostsOf(hrows) = [d \in S |-> hrows[CHOOSE i \in C : hrows[i].domain = d /\ \A j \in C : hrows[j].domain = d => j <= i].values]
    BY DEF Dns!HostsOf
<1>6. ASSUME NEW d \in S
      PROVE  (CHOOSE i \in C : hrows[i].domain = d /\ \A j \in C : hrows[j].domain = d => j <= i) \in C
    <2>1. At(d) # {} /\ At(d) \subseteq 1..Len(hrows)
        BY <1>1
    <2>2. PICK i \in At(d) : \A j \in At(d) : j <= i
        BY <1>1, <2>1, GreatestNumber
    <2>3. \E k \in C : hrows[k].domain = d /\ \A j \in C : hrows[j].domain = d => j <= k
        BY <2>2
    <2> QED BY <2>3
<1> HIDE DEF C, S
<1>7. Dns!HostsOf(hrows) \in [S -> {{"ip"}}]
    BY <1>1, <1>5, <1>6
<1> QED
    BY <1>4, <1>7 DEF IsHosts

LEMMA SameCard == \A S : Dns!Cardinality(S) = Cardinality(S)
    BY DEF Dns!Cardinality, Cardinality

\* The rows shown for the template's hosts, written back, are those hosts.
LEMMA RowsRoundTrip ==
    ASSUME NEW h, IsHosts(h)
    PROVE  Dns!RowsOf(h) \in Seq(Dns!HostRows) /\ Dns!HostsOf(Dns!RowsOf(h)) = h
<1> DEFINE S == DOMAIN h
           n == Cardinality(S)
           ds == Dns!SetToSeq(S)
           r == Dns!RowsOf(h)
           C == Dns!Complete(r)
<1>1. n \in Nat /\ ExistsBijection(1..n, S) /\ S \subseteq Domains /\ h \in [S -> {{"ip"}}] /\ IsFiniteSet(S)
    BY FS_CardinalityType DEF IsHosts
<1>2. ds \in [1..n -> S] /\ \A i, j \in 1..n : ds[i] = ds[j] => i = j
    <2>1. \E f \in [1..n -> S] : \A i, j \in 1..n : f[i] = f[j] => i = j
        BY <1>1 DEF ExistsBijection, Bijection, Injection, IsInjective
    <2>2. \A f \in [1..n -> S] : Dns!IsInjective(f) <=> \A i, j \in 1..n : f[i] = f[j] => i = j
        BY DEF Dns!IsInjective
    <2>3. ds = CHOOSE f \in [1..n -> S] : Dns!IsInjective(f)
        BY SameCard DEF Dns!SetToSeq
    <2> HIDE DEF ds, n, S
    <2> QED BY <2>1, <2>2, <2>3
<1>3. \A d \in S : \E i \in 1..n : ds[i] = d
    <2>1. ds \in Injection(1..n, S)
        BY <1>2 DEF Injection, IsInjective
    <2>2. Cardinality(1..n) = n /\ IsFiniteSet(1..n)
        BY <1>1, FS_Interval
    <2>3. ds \in Surjection(1..n, S)
        BY <1>1, <2>1, <2>2, FS_Injection
    <2> QED BY <2>3 DEF Surjection
<1>4. r = [i \in 1..n |-> [domain |-> ds[i], values |-> h[ds[i]]]]
    BY <1>2 DEF Dns!RowsOf
<1> HIDE DEF ds, n, r, S
<1>5. /\ DOMAIN r = 1..n /\ r \in Seq(Dns!HostRows)
      /\ \A i \in 1..n : r[i].domain = ds[i] /\ r[i].values = {"ip"}
    <2>1. \A i \in 1..n : [domain |-> ds[i], values |-> h[ds[i]]] \in Dns!HostRows /\ h[ds[i]] = {"ip"}
        <3>1. \A i \in 1..n : ds[i] \in Domains /\ h[ds[i]] = {"ip"}
            BY <1>1, <1>2
        <3> QED BY <3>1 DEF Dns!HostRows
    <2>2. \A i \in 1..n : r[i] = [domain |-> ds[i], values |-> h[ds[i]]] /\ r[i] \in Dns!HostRows
        BY <1>4, <2>1
    <2>3. DOMAIN r = 1..n /\ r \in [1..n -> Dns!HostRows]
        BY <1>4, <2>2
    <2> QED BY <1>1, <2>1, <2>2, <2>3
<1>6. C = 1..n
    <2>1. \A i \in 1..n : r[i].domain # "empty" /\ r[i].values # {}
        BY <1>1, <1>2, <1>5, EditorNames
    <2> QED BY <1>5, <2>1 DEF Dns!Complete, Dns!NoDomain
<1>7. {r[i].domain : i \in C} = S
    BY <1>2, <1>3, <1>5, <1>6
<1>8. Dns!HostsOf(r) = [d \in S |-> r[CHOOSE i \in C : r[i].domain = d /\ \A j \in C : r[j].domain = d => j <= i].values]
    BY <1>7 DEF Dns!HostsOf
<1>9. ASSUME NEW d \in S
      PROVE  r[CHOOSE i \in C : r[i].domain = d /\ \A j \in C : r[j].domain = d => j <= i].values = {"ip"}
    <2>1. PICK i \in 1..n : ds[i] = d
        BY <1>3
    <2>2. i \in C /\ r[i].domain = d /\ \A j \in C : r[j].domain = d => j <= i
        BY <1>1, <1>2, <1>5, <1>6, <2>1
    <2>3. (CHOOSE k \in C : r[k].domain = d /\ \A j \in C : r[j].domain = d => j <= k) \in C
        BY <2>2
    <2> QED BY <1>5, <1>6, <2>3
<1>10. Dns!HostsOf(r) = h
    BY <1>1, <1>8, <1>9
<1> QED
    BY <1>5, <1>10 DEF r

LEMMA NoRows == IsHosts(Dns!NoHosts) /\ Dns!HostsOf(<<>>) = Dns!NoHosts
<1>1. Dns!Complete(<<>>) = {}
    BY DEF Dns!Complete
<1>2. Dns!HostsOf(<<>>) = Dns!NoHosts
    BY <1>1 DEF Dns!HostsOf, Dns!NoHosts
<1>3. DOMAIN Dns!NoHosts = {} /\ Dns!NoHosts \in [{} -> {{"ip"}}]
    BY DEF Dns!NoHosts
<1> QED
    BY <1>2, <1>3, FS_EmptySet DEF IsHosts

LEMMA InitDns == ASSUME Dns!Init PROVE DnsInv
<1>1. dns = [on |-> FALSE, hosts |-> Dns!NoHosts, servers |-> <<>>, fakedns |-> 0] /\ hostsList = <<>>
    BY DEF Dns!Init, Dns!Off
<1>2. DnsTypes
    BY <1>1, NoRows DEF DnsTypes
<1> QED
    BY <1>1, <1>2, NoRows DEF DnsInv, Dns!HostsMirrored

LEMMA RemoveSays ==
    ASSUME NEW S, NEW s \in Seq(S), NEW i \in DOMAIN s
    PROVE  Dns!RemoveAt(s, i) \in Seq(S)
<1>1. i \in 1..Len(s) /\ Len(s) \in Nat
    OBVIOUS
<1>2. SubSeq(s, 1, i - 1) \in Seq(S) /\ SubSeq(s, i + 1, Len(s)) \in Seq(S)
    BY <1>1
<1> QED
    BY <1>2 DEF Dns!RemoveAt

\* Edits of the rows are written to the template at once.
LEMMA DnsRows ==
    ASSUME DnsInv,
           \/ \E i \in 1..MaxRows : Dns!DeleteHost(i) \/ \E row \in Dns!HostRows : Dns!EditHost(i, row)
           \/ Dns!AddHost
    PROVE  DnsInv'
<1>1. PICK next \in Seq(Dns!HostRows) : dns.on /\ Dns!SyncHosts(next)
    <2>1. hostsList \in Seq(Dns!HostRows)
        BY DEF DnsInv, DnsTypes
    <2>2. ASSUME NEW i \in 1..MaxRows, NEW row \in Dns!HostRows, Dns!EditHost(i, row)
          PROVE  \E next \in Seq(Dns!HostRows) : dns.on /\ Dns!SyncHosts(next)
        <3>1. [hostsList EXCEPT ![i] = row] \in Seq(Dns!HostRows)
            <4>1. hostsList \in [1..Len(hostsList) -> Dns!HostRows] /\ Len(hostsList) \in Nat
                BY <2>1
            <4>2. [hostsList EXCEPT ![i] = row] \in [1..Len(hostsList) -> Dns!HostRows]
                BY <4>1
            <4> QED BY <4>1, <4>2
        <3> QED BY <2>2, <3>1 DEF Dns!EditHost
    <2>3. ASSUME NEW i \in 1..MaxRows, Dns!DeleteHost(i)
          PROVE  \E next \in Seq(Dns!HostRows) : dns.on /\ Dns!SyncHosts(next)
        <3>1. i \in DOMAIN hostsList
            BY <2>3 DEF Dns!DeleteHost
        <3>2. Dns!RemoveAt(hostsList, i) \in Seq(Dns!HostRows)
            BY <2>1, <3>1, RemoveSays
        <3> QED BY <2>3, <3>2 DEF Dns!DeleteHost
    <2>4. ASSUME Dns!AddHost
          PROVE  \E next \in Seq(Dns!HostRows) : dns.on /\ Dns!SyncHosts(next)
        <3>1. [domain |-> Dns!NoDomain, values |-> {}] \in Dns!HostRows
            BY DEF Dns!HostRows
        <3>2. Append(hostsList, [domain |-> Dns!NoDomain, values |-> {}]) \in Seq(Dns!HostRows)
            BY <2>1, <3>1
        <3> QED BY <2>4, <3>2 DEF Dns!AddHost
    <2> QED BY <2>2, <2>3, <2>4
<1>2. hostsList' = next /\ dns' = [dns EXCEPT !.hosts = Dns!HostsOf(next)]
    BY <1>1 DEF Dns!SyncHosts
<1>3. dns'.hosts = Dns!HostsOf(next) /\ dns'.on = dns.on /\ DOMAIN dns' = DOMAIN dns
    BY <1>2 DEF DnsInv, DnsTypes
<1>4. IsHosts(Dns!HostsOf(next))
    BY HostsOfRows
<1>5. DnsTypes'
    BY <1>2, <1>3, <1>4 DEF DnsInv, DnsTypes
<1> QED
    BY <1>1, <1>2, <1>3, <1>5 DEF DnsInv, Dns!HostsMirrored

\* The rows are read from the template again.
LEMMA DnsReads ==
    ASSUME DnsInv,
           \/ Dns!ToggleDNS \/ Dns!Remount
           \/ \E d \in Domains, s \in Dns!Servers : Dns!ReseedDns(d, s)
    PROVE  DnsInv'
<1>2. CASE Dns!ToggleDNS
    <2>1. /\ dns' = [on |-> ~dns.on, hosts |-> Dns!NoHosts, servers |-> <<>>, fakedns |-> 0]
          /\ hostsList' = <<>>
        BY <1>2 DEF Dns!ToggleDNS, Dns!Off, Dns!EmptyDns, DnsInv, DnsTypes
    <2>2. DnsTypes'
        BY <2>1, NoRows DEF DnsTypes
    <2> QED BY <2>1, <2>2, NoRows DEF DnsInv, Dns!HostsMirrored
<1>3. CASE Dns!Remount
    <2>1. dns' = dns /\ hostsList' = IF dns.on THEN Dns!RowsOf(dns.hosts) ELSE <<>>
        BY <1>3 DEF Dns!Remount
    <2>2. hostsList' \in Seq(Dns!HostRows) /\ Dns!HostsOf(hostsList') = dns.hosts
        BY <2>1, RowsRoundTrip, NoRows DEF DnsInv, DnsTypes
    <2>3. DnsTypes'
        BY <2>1, <2>2 DEF DnsInv, DnsTypes
    <2> QED BY <2>1, <2>2, <2>3 DEF DnsInv, Dns!HostsMirrored
<1>4. ASSUME NEW d \in Domains, NEW s \in Dns!Servers, Dns!ReseedDns(d, s)
      PROVE  DnsInv'
    <2> DEFINE h == [x \in {d} |-> {"ip"}]
    <2>1. IsHosts(h)
        BY FS_Singleton DEF IsHosts
    <2>2. /\ dns' = [on |-> TRUE, hosts |-> h, servers |-> <<s>>, fakedns |-> 0]
          /\ dns.on => hostsList' = hostsList /\ "reseeded" \in dnsWhy'
          /\ ~dns.on => hostsList' = Dns!RowsOf(h)
        BY <1>4 DEF Dns!ReseedDns
    <2> HIDE DEF h
    <2>3. hostsList' \in Seq(Dns!HostRows) /\ (~dns.on => Dns!HostsOf(hostsList') = h)
        BY <2>1, <2>2, RowsRoundTrip DEF DnsInv, DnsTypes
    <2>4. DnsTypes'
        BY <2>1, <2>2, <2>3 DEF DnsTypes
    <2> QED BY <2>2, <2>3, <2>4 DEF DnsInv, Dns!HostsMirrored
<1> QED
    BY <1>2, <1>3, <1>4

\* The servers and the fake pools leave the hosts alone.
LEMMA DnsOthers ==
    ASSUME DnsInv,
           \/ \E i \in 0..MaxRows : Dns!OpenServer(i) \/ Dns!DeleteServer(i)
           \/ \E port \in {53, 5353} : Dns!EditServerForm(port)
           \/ Dns!CloseServer \/ Dns!OnServerConfirm
           \/ Dns!ReplaceServers(<<>>) \/ Dns!ReplaceServers(<<Dns!Plain, Dns!Plain>>)
           \/ Dns!SetFakedns(1) \/ Dns!SetFakedns(0)
    PROVE  DnsInv'
<1>1. hostsList' = hostsList /\ ("reseeded" \in dnsWhy <=> "reseeded" \in dnsWhy')
    BY DEF Dns!OpenServer, Dns!DeleteServer, Dns!EditServerForm, Dns!CloseServer, Dns!OnServerConfirm,
       Dns!ReplaceServers, Dns!SetFakedns
<1>2. \/ dns' = dns
      \/ \E servers : dns' = [dns EXCEPT !.servers = servers]
      \/ \E f : dns' = [dns EXCEPT !.fakedns = f]
    BY DEF Dns!OpenServer, Dns!DeleteServer, Dns!EditServerForm, Dns!CloseServer, Dns!OnServerConfirm,
       Dns!ReplaceServers, Dns!SetFakedns
<1>3. DOMAIN dns' = DOMAIN dns /\ dns'.on = dns.on /\ dns'.hosts = dns.hosts
    BY <1>2 DEF DnsInv, DnsTypes
<1> QED
    BY <1>1, <1>3 DEF DnsInv, DnsTypes, Dns!HostsMirrored

LEMMA NextDns == ASSUME DnsInv, [Dns!Next]_dnsVars PROVE DnsInv'
<1>1. CASE \/ \E i \in 1..MaxRows : Dns!DeleteHost(i) \/ \E row \in Dns!HostRows : Dns!EditHost(i, row)
           \/ Dns!AddHost
    BY <1>1, DnsRows
<1>2. CASE \/ Dns!ToggleDNS \/ Dns!Remount
           \/ \E d \in Domains, s \in Dns!Servers : Dns!ReseedDns(d, s)
    BY <1>2, DnsReads
<1>3. CASE \/ \E i \in 0..MaxRows : Dns!OpenServer(i) \/ Dns!DeleteServer(i)
           \/ \E port \in {53, 5353} : Dns!EditServerForm(port)
           \/ Dns!CloseServer \/ Dns!OnServerConfirm
           \/ Dns!ReplaceServers(<<>>) \/ Dns!ReplaceServers(<<Dns!Plain, Dns!Plain>>)
           \/ Dns!SetFakedns(1) \/ Dns!SetFakedns(0)
    BY <1>3, DnsOthers
<1>4. CASE UNCHANGED dnsVars
    BY <1>4 DEF dnsVars, DnsInv, DnsTypes, Dns!HostsMirrored
<1> QED
    BY <1>1, <1>2, <1>3, <1>4 DEF Dns!Next

-----------------------------------------------------------------------------
(* The outbound dialog *)

IsOutbound(f) == f = OutForm!Outbound(f.protocol, f.tag, f.network, f.security, f.on)

\* What the effects of the dialog leave: a stream where the protocol has one.
IsSettled(f) ==
    IF f.protocol = "hysteria" THEN f.network = "hysteria" /\ f.security = "tls"
    ELSE f.protocol \in OutForm!STREAM_PROTOCOLS => f.network # ""

IsForm(f) == IsOutbound(f) /\ f.protocol \in OutForm!Protocols /\ IsSettled(f)

\* The fields of the payload of a form.
WireOn(f) ==
    ((f.on \cap OutForm!SettingsFields(f.protocol)) \ OutForm!Unwritten(f))
    \cup (IF f.protocol \in OutForm!STREAM_PROTOCOLS THEN OutForm!stripUiOnlyStreamFields(f.on) ELSE f.on \cap OutForm!SockoptFields)
    \cup (f.on \cap {"sendThrough"}) \cup (IF OutForm!muxAllowed(f) THEN f.on \cap {"mux"} ELSE {})

OutInv == IsForm(oform) /\ IsOutbound(ojson) /\ OutForm!JsonIsForm

LEMMA ProtocolsAre ==
    OutForm!Protocols = {"vmess", "vless", "trojan", "shadowsocks", "hysteria", "socks", "http",
                         "wireguard", "freedom", "blackhole", "dns", "loopback"}
    BY DEF OutForm!Protocols, OutForm!SERVER_PROTOCOLS, OutForm!STREAM_PROTOCOLS

LEMMA StreamFieldsAre ==
    OutForm!StreamFields =
        {"httpHeader", "kcpMtu", "path", "heartbeat", "serviceName", "obfs", "padKey", "packetUp", "postSize",
         "enableXmux", "xmux", "auth", "masquerade", "masqProxy", "masqUrl", "sni", "realityKey", "sockopt",
         "dialerProxy", "happyEyeballs", "tryDelay", "maskTcp", "maskUdp", "strayMtu", "quic", "udpHop"}
<1>1. OutForm!NETWORKS \cup {"hysteria"} = {"tcp", "kcp", "ws", "grpc", "httpupgrade", "xhttp", "hysteria"}
    BY DEF OutForm!NETWORKS
<1>2. ASSUME NEW x
      PROVE  x \in OutForm!StreamFields <=>
                 \/ \E n \in {"tcp", "kcp", "ws", "grpc", "httpupgrade", "xhttp", "hysteria"} : x \in OutForm!TransportFields(n)
                 \/ x \in OutForm!SecurityFields \/ x \in OutForm!SockoptFields \/ x \in OutForm!MaskFields
    BY <1>1 DEF OutForm!StreamFields
<1>3. /\ OutForm!TransportFields("tcp") = {"httpHeader"} /\ OutForm!TransportFields("kcp") = {"kcpMtu"}
      /\ OutForm!TransportFields("ws") = {"path", "heartbeat"} /\ OutForm!TransportFields("grpc") = {"serviceName"}
      /\ OutForm!TransportFields("httpupgrade") = {"path"}
      /\ OutForm!TransportFields("xhttp") = {"path", "obfs", "padKey", "packetUp", "postSize", "enableXmux", "xmux"}
      /\ OutForm!TransportFields("hysteria") = {"auth", "masquerade", "masqProxy", "masqUrl"}
    BY DEF OutForm!TransportFields
<1>4. ASSUME NEW x
      PROVE  x \in OutForm!StreamFields <=>
                 x \in {"httpHeader", "kcpMtu", "path", "heartbeat", "serviceName", "obfs", "padKey", "packetUp", "postSize",
                        "enableXmux", "xmux", "auth", "masquerade", "masqProxy", "masqUrl", "sni", "realityKey", "sockopt",
                        "dialerProxy", "happyEyeballs", "tryDelay", "maskTcp", "maskUdp", "strayMtu", "quic", "udpHop"}
    BY <1>2, <1>3 DEF OutForm!SecurityFields, OutForm!SockoptFields, OutForm!MaskFields
<1> QED
    BY <1>4

\* A field is the protocol's, the stream's or the outbound's own, and no two of them.
LEMMA FieldsApart ==
    /\ \A p \in OutForm!Protocols :
           /\ OutForm!SettingsFields(p) \cap (OutForm!StreamFields \cup OutForm!TopFields) = {}
           /\ "ipsBlocked" \notin OutForm!SettingsFields(p)
    /\ OutForm!StreamFields \cap OutForm!TopFields = {} /\ OutForm!SockoptFields \subseteq OutForm!StreamFields
    /\ "ipsBlocked" \notin OutForm!StreamFields \cup OutForm!TopFields
    /\ {"xmux", "enableXmux"} \subseteq OutForm!StreamFields /\ {"xmux", "enableXmux"} \cap OutForm!SockoptFields = {}
    /\ OutForm!TopFields = {"sendThrough", "mux"}
<1>1. OutForm!TopFields = {"sendThrough", "mux"}
    BY DEF OutForm!TopFields
<1>2. ASSUME NEW p \in OutForm!Protocols
      PROVE  OutForm!SettingsFields(p) \subseteq
                 {"id", "reverseTag", "sniffing", "sniffDest", "flow", "testseed", "cipher", "password", "method",
                  "user", "pass", "secretKey", "pubKey", "peer", "fragment", "packets", "noises", "finalRule",
                  "block", "blockDelay", "response", "rewrite", "dnsRule", "inboundTag"}
    BY <1>2, ProtocolsAre DEF OutForm!SettingsFields
<1> QED
    BY <1>1, <1>2, StreamFieldsAre DEF OutForm!SockoptFields

\* An outbound and its parts.
LEMMA PartSays ==
    ASSUME NEW p, NEW tag, NEW net, NEW sec, NEW on
    PROVE  LET f == OutForm!Outbound(p, tag, net, sec, on)
           IN /\ f.protocol = p /\ f.tag = tag /\ f.network = net /\ f.security = sec /\ f.on = on
              /\ \A z : [f EXCEPT !.protocol = z] = OutForm!Outbound(z, tag, net, sec, on)
              /\ \A z : [f EXCEPT !.tag = z] = OutForm!Outbound(p, z, net, sec, on)
              /\ \A z : [f EXCEPT !.network = z] = OutForm!Outbound(p, tag, z, sec, on)
              /\ \A z : [f EXCEPT !.security = z] = OutForm!Outbound(p, tag, net, z, on)
              /\ \A z : [f EXCEPT !.on = z] = OutForm!Outbound(p, tag, net, sec, z)
<1> DEFINE f == OutForm!Outbound(p, tag, net, sec, on)
<1>1. f.protocol = p /\ f.tag = tag /\ f.network = net /\ f.security = sec /\ f.on = on
    BY DEF OutForm!Outbound
<1>2. ASSUME NEW z PROVE  [f EXCEPT !.protocol = z] = OutForm!Outbound(z, tag, net, sec, on)
    BY DEF OutForm!Outbound
<1>3. ASSUME NEW z PROVE [f EXCEPT !.tag = z] = OutForm!Outbound(p, z, net, sec, on)
    BY DEF OutForm!Outbound
<1>4. ASSUME NEW z PROVE [f EXCEPT !.network = z] = OutForm!Outbound(p, tag, z, sec, on)
    BY DEF OutForm!Outbound
<1>5. ASSUME NEW z PROVE [f EXCEPT !.security = z] = OutForm!Outbound(p, tag, net, z, on)
    BY DEF OutForm!Outbound
<1>6. ASSUME NEW z PROVE [f EXCEPT !.on = z] = OutForm!Outbound(p, tag, net, sec, z)
    BY DEF OutForm!Outbound
<1> QED
    BY <1>1, <1>2, <1>3, <1>4, <1>5, <1>6

\* What the adapter does with the parts of an outbound.
LEMMA StreamParts ==
    ASSUME NEW p, NEW tag, NEW net, NEW sec, NEW on, NEW net2, NEW sec2, NEW fields2
    PROVE  OutForm!WithStream(OutForm!Outbound(p, tag, net, sec, on), net2, sec2, fields2)
               = OutForm!Outbound(p, tag, net2, sec2, (on \ OutForm!StreamFields) \cup fields2)
<1> DEFINE f == OutForm!Outbound(p, tag, net, sec, on)
<1>0. f.protocol = p /\ f.tag = tag /\ f.network = net /\ f.security = sec /\ f.on = on
    BY PartSays
<1> DEFINE X == (f.on \ OutForm!StreamFields) \cup fields2
<1>1. OutForm!WithStream(f, net2, sec2, fields2) = [f EXCEPT !.network = net2, !.security = sec2, !.on = X]
    BY DEF OutForm!WithStream
<1>2. X = (on \ OutForm!StreamFields) \cup fields2
    BY <1>0
<1> HIDE DEF X
<1>3. [f EXCEPT !.network = net2] = OutForm!Outbound(p, tag, net2, sec, on)
    BY PartSays
<1>4. [OutForm!Outbound(p, tag, net2, sec, on) EXCEPT !.security = sec2] = OutForm!Outbound(p, tag, net2, sec2, on)
    BY PartSays
<1>5. [OutForm!Outbound(p, tag, net2, sec2, on) EXCEPT !.on = X] = OutForm!Outbound(p, tag, net2, sec2, X)
    BY PartSays
<1>6. [f EXCEPT !.network = net2, !.security = sec2, !.on = X] = OutForm!Outbound(p, tag, net2, sec2, X)
    <2> HIDE DEF f
    <2> QED BY <1>3, <1>4, <1>5
<1> QED BY <1>1, <1>2, <1>6

\* The protocol an outbound is read as, and the fields it then has.
ReadProtocol(p) == IF p \in OutForm!Protocols THEN p ELSE "vless"
ReadOn(p, on) ==
    OutForm!settingsFromWire(p, on) \cup (on \cap OutForm!TopFields)
    \cup (OutForm!hydrateStreamForm(on) \cap OutForm!StreamFields)

LEMMA ReadParts ==
    ASSUME NEW p, NEW tag, NEW net, NEW sec, NEW on
    PROVE  OutForm!rawOutboundToFormValues(OutForm!Outbound(p, tag, net, sec, on))
               = OutForm!Outbound(ReadProtocol(p), tag, net, sec, ReadOn(ReadProtocol(p), on))
<1> DEFINE f == OutForm!Outbound(p, tag, net, sec, on)
<1>0. f.protocol = p /\ f.tag = tag /\ f.network = net /\ f.security = sec /\ f.on = on
    BY PartSays
<1> DEFINE q == IF p \in OutForm!Protocols THEN p ELSE "vless"
           X == OutForm!settingsFromWire(q, on) \cup (on \cap OutForm!TopFields)
                 \cup (OutForm!hydrateStreamForm(on) \cap OutForm!StreamFields)
<1>1. OutForm!rawOutboundToFormValues(f) = [f EXCEPT !.protocol = q, !.on = X]
    BY <1>0 DEF OutForm!rawOutboundToFormValues
<1> HIDE DEF X, q
<1>2. [f EXCEPT !.protocol = q] = OutForm!Outbound(q, tag, net, sec, on)
    BY PartSays
<1>3. [OutForm!Outbound(q, tag, net, sec, on) EXCEPT !.on = X] = OutForm!Outbound(q, tag, net, sec, X)
    BY PartSays
<1>4. [f EXCEPT !.protocol = q, !.on = X] = OutForm!Outbound(q, tag, net, sec, X)
    <2> HIDE DEF f
    <2> QED BY <1>2, <1>3
<1>5. q = ReadProtocol(p) /\ X = ReadOn(q, on)
    BY DEF X, q, ReadProtocol, ReadOn
<1> QED BY <1>1, <1>4, <1>5

LEMMA WriteParts ==
    ASSUME NEW p, NEW tag, NEW net, NEW sec, NEW on
    PROVE  OutForm!formValuesToWirePayload(OutForm!Outbound(p, tag, net, sec, on))
               = OutForm!Outbound(p, tag, IF p \in OutForm!STREAM_PROTOCOLS THEN net ELSE "",
                                  IF p \in OutForm!STREAM_PROTOCOLS THEN sec ELSE "none",
                                  WireOn(OutForm!Outbound(p, tag, net, sec, on)))
<1> DEFINE f == OutForm!Outbound(p, tag, net, sec, on)
<1>0. f.protocol = p /\ f.tag = tag /\ f.network = net /\ f.security = sec /\ f.on = on
    BY PartSays
<1> DEFINE n2 == IF p \in OutForm!STREAM_PROTOCOLS THEN net ELSE ""
           s2 == IF p \in OutForm!STREAM_PROTOCOLS THEN sec ELSE "none"
           X == WireOn(f)
<1>1. OutForm!formValuesToWirePayload(f) = [f EXCEPT !.network = n2, !.security = s2, !.on = X]
    BY <1>0 DEF OutForm!formValuesToWirePayload, WireOn
<1> HIDE DEF X, n2, s2
<1>2. [f EXCEPT !.network = n2] = OutForm!Outbound(p, tag, n2, sec, on)
    BY PartSays
<1>3. [OutForm!Outbound(p, tag, n2, sec, on) EXCEPT !.security = s2] = OutForm!Outbound(p, tag, n2, s2, on)
    BY PartSays
<1>4. [OutForm!Outbound(p, tag, n2, s2, on) EXCEPT !.on = X] = OutForm!Outbound(p, tag, n2, s2, X)
    BY PartSays
<1>5. [f EXCEPT !.network = n2, !.security = s2, !.on = X] = OutForm!Outbound(p, tag, n2, s2, X)
    <2> HIDE DEF f
    <2> QED BY <1>2, <1>3, <1>4
<1> QED BY <1>1, <1>5 DEF n2, s2, X

\* The effects of the dialog settle a form, and leave a settled one alone.
LEMMA SettleSays ==
    ASSUME NEW f, IsOutbound(f), f.protocol \in OutForm!Protocols
    PROVE  IsForm(OutForm!Settle(f)) /\ (IsSettled(f) => OutForm!Settle(f) = f)
<1>1. PICK p, tag, net, sec, on : f = OutForm!Outbound(p, tag, net, sec, on)
    BY DEF IsOutbound
<1>2. \A net2, sec2, fields2 :
          LET g == OutForm!WithStream(f, net2, sec2, fields2)
          IN IsOutbound(g) /\ g.protocol = f.protocol /\ g.network = net2 /\ g.security = sec2
    <2> TAKE net2, sec2, fields2
    <2> DEFINE X == (on \ OutForm!StreamFields) \cup fields2
    <2>1. OutForm!WithStream(f, net2, sec2, fields2) = OutForm!Outbound(p, tag, net2, sec2, X)
        BY <1>1, StreamParts
    <2>2. OutForm!Outbound(p, tag, net2, sec2, X).protocol = f.protocol
        BY <1>1, PartSays
    <2> HIDE DEF X
    <2> QED BY <2>1, <2>2, PartSays DEF IsOutbound
<1>3. CASE f.protocol = "hysteria"
    <2>1. CASE IsSettled(f)
        BY <1>3, <2>1 DEF OutForm!Settle, IsForm, IsSettled
    <2>2. CASE ~IsSettled(f)
        <3> DEFINE X == f.on \cap (OutForm!TransportFields("hysteria") \cup {"sni"})
        <3>1. OutForm!Settle(f) = OutForm!WithStream(f, "hysteria", "tls", X)
            BY <1>3, <2>2 DEF OutForm!Settle, OutForm!hysteriaStreamSlice, IsSettled
        <3> HIDE DEF X
        <3>2. LET g == OutForm!Settle(f) IN IsOutbound(g) /\ g.protocol = f.protocol /\ g.network = "hysteria" /\ g.security = "tls"
            BY <1>2, <3>1
        <3> QED BY <1>3, <2>2, <3>2 DEF IsForm, IsSettled
    <2> QED BY <2>1, <2>2
<1>4. CASE f.protocol # "hysteria"
    <2>1. CASE IsSettled(f)
        BY <1>4, <2>1 DEF OutForm!Settle, IsForm, IsSettled
    <2>2. CASE ~IsSettled(f)
        <3>1. OutForm!Settle(f) = OutForm!WithStream(f, "tcp", "none", {})
            BY <1>4, <2>2 DEF OutForm!Settle, IsSettled
        <3>2. LET g == OutForm!Settle(f) IN IsOutbound(g) /\ g.protocol = f.protocol /\ g.network = "tcp"
            BY <1>2, <3>1
        <3> QED BY <1>4, <2>2, <3>2 DEF IsForm, IsSettled
    <2> QED BY <2>1, <2>2
<1> QED
    BY <1>3, <1>4

LEMMA ReadSays ==
    ASSUME NEW raw, IsOutbound(raw)
    PROVE  LET f == OutForm!rawOutboundToFormValues(raw) IN
           /\ IsOutbound(f) /\ f.protocol \in OutForm!Protocols
           /\ raw.protocol \in OutForm!Protocols => f.protocol = raw.protocol
           /\ f.tag = raw.tag /\ f.network = raw.network /\ f.security = raw.security
           /\ f.on = OutForm!settingsFromWire(f.protocol, raw.on) \cup (raw.on \cap OutForm!TopFields)
                     \cup (OutForm!hydrateStreamForm(raw.on) \cap OutForm!StreamFields)
<1>1. PICK p, tag, net, sec, on : raw = OutForm!Outbound(p, tag, net, sec, on)
    BY DEF IsOutbound
<1>2. raw.protocol = p /\ raw.tag = tag /\ raw.network = net /\ raw.security = sec /\ raw.on = on
    BY <1>1, PartSays
<1> DEFINE q == IF p \in OutForm!Protocols THEN p ELSE "vless"
           X == OutForm!settingsFromWire(q, on) \cup (on \cap OutForm!TopFields)
                \cup (OutForm!hydrateStreamForm(on) \cap OutForm!StreamFields)
<1>3. q \in OutForm!Protocols /\ (p \in OutForm!Protocols => q = p)
    BY ProtocolsAre
<1>4. OutForm!rawOutboundToFormValues(raw) = OutForm!Outbound(q, tag, net, sec, X)
    <2>1. q = ReadProtocol(p) /\ X = ReadOn(q, on)
        BY DEF ReadProtocol, ReadOn
    <2> HIDE DEF q, X
    <2> QED BY <1>1, <2>1, ReadParts
<1>5. X = OutForm!settingsFromWire(q, raw.on) \cup (raw.on \cap OutForm!TopFields)
          \cup (OutForm!hydrateStreamForm(raw.on) \cap OutForm!StreamFields)
    BY <1>2
<1> HIDE DEF q, X
<1>6. LET f == OutForm!rawOutboundToFormValues(raw) IN
      IsOutbound(f) /\ f.protocol = q /\ f.tag = tag /\ f.network = net /\ f.security = sec /\ f.on = X
    <2> DEFINE g == OutForm!Outbound(q, tag, net, sec, X)
    <2>1. g.protocol = q /\ g.tag = tag /\ g.network = net /\ g.security = sec /\ g.on = X
        BY PartSays
    <2>2. g = OutForm!Outbound(g.protocol, g.tag, g.network, g.security, g.on)
        BY <2>1
    <2>3. IsOutbound(g)
        BY <2>2 DEF IsOutbound
    <2> HIDE DEF g
    <2>4. OutForm!rawOutboundToFormValues(raw) = g
        BY <1>4 DEF g
    <2> QED BY <2>1, <2>3, <2>4
<1> QED
    BY <1>2, <1>3, <1>5, <1>6

LEMMA WriteSays ==
    ASSUME NEW f, IsOutbound(f)
    PROVE  LET stream == f.protocol \in OutForm!STREAM_PROTOCOLS IN
           OutForm!formValuesToWirePayload(f) =
               OutForm!Outbound(f.protocol, f.tag, IF stream THEN f.network ELSE "", IF stream THEN f.security ELSE "none", WireOn(f))
<1>1. PICK p, tag, net, sec, on : f = OutForm!Outbound(p, tag, net, sec, on)
    BY DEF IsOutbound
<1>2. f.protocol = p /\ f.tag = tag /\ f.network = net /\ f.security = sec
    BY <1>1, PartSays
<1>3. OutForm!formValuesToWirePayload(f) = OutForm!Outbound(p, tag,
          IF p \in OutForm!STREAM_PROTOCOLS THEN net ELSE "", IF p \in OutForm!STREAM_PROTOCOLS THEN sec ELSE "none", WireOn(f))
    BY <1>1, WriteParts
<1> QED
    BY <1>2, <1>3

\* The protocol's own fields, written, read and written again.
LEMMA SettingsTwice ==
    ASSUME NEW p \in OutForm!Protocols, NEW f, NEW r, NEW payload,
           f.protocol = p, r.protocol = p, "ipsBlocked" \notin payload,
           payload \cap OutForm!SettingsFields(p) = (f.on \cap OutForm!SettingsFields(p)) \ OutForm!Unwritten(f),
           r.on \cap OutForm!SettingsFields(p) = OutForm!settingsFromWire(p, payload)
    PROVE  (r.on \cap OutForm!SettingsFields(p)) \ OutForm!Unwritten(r) = payload \cap OutForm!SettingsFields(p)
<1>1. CASE p = "vless"
    BY <1>1 DEF OutForm!SettingsFields, OutForm!Unwritten, OutForm!settingsFromWire, OutForm!vlessFromWire
<1>2. CASE p \in {"socks", "http"}
    BY <1>2 DEF OutForm!SettingsFields, OutForm!Unwritten, OutForm!settingsFromWire
<1>3. CASE p = "wireguard"
    BY <1>3 DEF OutForm!SettingsFields, OutForm!Unwritten, OutForm!settingsFromWire, OutForm!wireguardFromWire
<1>4. CASE p = "freedom"
    BY <1>4 DEF OutForm!SettingsFields, OutForm!Unwritten, OutForm!settingsFromWire, OutForm!freedomFromWire
<1>5. CASE p \notin {"vless", "socks", "http", "wireguard", "freedom"}
    BY <1>5 DEF OutForm!Unwritten, OutForm!settingsFromWire
<1> QED
    BY <1>1, <1>2, <1>3, <1>4, <1>5

\* The payload of a form, read back, has that payload again.
LEMMA WrittenTwice ==
    ASSUME NEW f, IsForm(f)
    PROVE  LET payload == OutForm!formValuesToWirePayload(f)
               r == OutForm!rawOutboundToFormValues(payload)
           IN IsForm(r) /\ OutForm!formValuesToWirePayload(r) = payload
<1> DEFINE payload == OutForm!formValuesToWirePayload(f)
           r == OutForm!rawOutboundToFormValues(payload)
           p == f.protocol
           stream == p \in OutForm!STREAM_PROTOCOLS
           SF == OutForm!SettingsFields(p)
<1>1. /\ payload = OutForm!Outbound(p, f.tag, IF stream THEN f.network ELSE "", IF stream THEN f.security ELSE "none", WireOn(f))
      /\ p \in OutForm!Protocols /\ IsSettled(f)
    BY WriteSays DEF IsForm
<1> HIDE DEF payload
<1>2. /\ payload.protocol = p /\ payload.tag = f.tag /\ payload.network = (IF stream THEN f.network ELSE "")
      /\ payload.security = (IF stream THEN f.security ELSE "none") /\ payload.on = WireOn(f) /\ IsOutbound(payload)
    BY <1>1 DEF OutForm!Outbound, IsOutbound
<1>3. /\ IsOutbound(r) /\ r.protocol = p /\ r.tag = f.tag /\ r.network = payload.network /\ r.security = payload.security
      /\ r.on = OutForm!settingsFromWire(p, payload.on) \cup (payload.on \cap OutForm!TopFields)
                \cup (OutForm!hydrateStreamForm(payload.on) \cap OutForm!StreamFields)
    <2>1. IsOutbound(payload) /\ payload.protocol \in OutForm!Protocols
        BY <1>1, <1>2
    <2>2. /\ IsOutbound(r) /\ r.protocol = payload.protocol /\ r.tag = payload.tag
          /\ r.network = payload.network /\ r.security = payload.security
          /\ r.on = OutForm!settingsFromWire(r.protocol, payload.on) \cup (payload.on \cap OutForm!TopFields)
                    \cup (OutForm!hydrateStreamForm(payload.on) \cap OutForm!StreamFields)
        BY <2>1, ReadSays
    <2> HIDE DEF r
    <2> QED BY <1>2, <2>2
<1> HIDE DEF r
<1>4. IsForm(r)
    BY <1>1, <1>2, <1>3 DEF IsForm, IsSettled, OutForm!STREAM_PROTOCOLS
<1>5. /\ SF \cap (OutForm!StreamFields \cup OutForm!TopFields) = {} /\ "ipsBlocked" \notin SF
      /\ OutForm!StreamFields \cap OutForm!TopFields = {} /\ OutForm!SockoptFields \subseteq OutForm!StreamFields
      /\ "ipsBlocked" \notin OutForm!StreamFields \cup OutForm!TopFields
      /\ {"xmux", "enableXmux"} \subseteq OutForm!StreamFields /\ {"xmux", "enableXmux"} \cap OutForm!SockoptFields = {}
      /\ OutForm!TopFields = {"sendThrough", "mux"}
    BY <1>1, FieldsApart
<1> HIDE DEF SF, p, stream
<1> DEFINE Own == (f.on \cap SF) \ OutForm!Unwritten(f)
           Stream == IF stream THEN OutForm!stripUiOnlyStreamFields(f.on) ELSE f.on \cap OutForm!SockoptFields
           Top == (f.on \cap {"sendThrough"}) \cup (IF OutForm!muxAllowed(f) THEN f.on \cap {"mux"} ELSE {})
<1>6. Own \subseteq SF /\ Stream \subseteq OutForm!StreamFields /\ Top \subseteq OutForm!TopFields
    BY <1>5 DEF OutForm!stripUiOnlyStreamFields
<1>7. payload.on = Own \cup Stream \cup Top
    BY <1>2 DEF WireOn, SF, p, stream
<1>8. payload.on \cap SF = Own /\ payload.on \cap OutForm!StreamFields = Stream /\ payload.on \cap OutForm!TopFields = Top
      /\ "ipsBlocked" \notin payload.on
    <2> HIDE DEF Own, Stream, Top
    <2> QED BY <1>5, <1>6, <1>7
<1>9. OutForm!settingsFromWire(p, payload.on) \subseteq SF
    BY <1>1, <1>8, ProtocolsAre DEF OutForm!settingsFromWire, OutForm!vlessFromWire, OutForm!wireguardFromWire,
       OutForm!freedomFromWire, OutForm!SettingsFields, SF
<1>10. /\ r.on \cap SF = OutForm!settingsFromWire(p, payload.on)
       /\ r.on \cap OutForm!TopFields = Top
       /\ r.on \cap OutForm!StreamFields = OutForm!hydrateStreamForm(payload.on) \cap OutForm!StreamFields
    <2> HIDE DEF Own, Stream, Top
    <2> QED BY <1>3, <1>5, <1>8, <1>9
<1>11. (r.on \cap SF) \ OutForm!Unwritten(r) = Own
    <2>1. payload.on \cap SF = (f.on \cap SF) \ OutForm!Unwritten(f)
        BY <1>8
    <2>2. p \in OutForm!Protocols /\ f.protocol = p
        BY <1>1 DEF p
    <2> QED BY <1>3, <1>8, <1>10, <2>1, <2>2, SettingsTwice DEF SF
<1>12. (IF stream THEN OutForm!stripUiOnlyStreamFields(r.on) ELSE r.on \cap OutForm!SockoptFields) = Stream
    <2>1. OutForm!hydrateStreamForm(payload.on) \cap OutForm!StreamFields
              = Stream \cup (IF "xmux" \in Stream THEN {"enableXmux"} ELSE {})
        <3> HIDE DEF Own, Stream, Top
        <3> QED BY <1>5, <1>8 DEF OutForm!hydrateStreamForm
    <2>2. CASE stream
        BY <1>5, <1>10, <2>1, <2>2 DEF OutForm!stripUiOnlyStreamFields
    <2>3. CASE ~stream
        <3>1. Stream = f.on \cap OutForm!SockoptFields /\ "xmux" \notin Stream
            BY <1>5, <2>3
        <3> HIDE DEF Stream
        <3> QED BY <1>5, <1>10, <2>1, <2>3, <3>1
    <2> QED BY <2>2, <2>3
<1>13. OutForm!muxAllowed(f) => OutForm!muxAllowed(r)
    <2>1. p = "vless" => ("flow" \in f.on <=> "flow" \in r.on)
        <3>1. SUFFICES ASSUME p = "vless" PROVE "flow" \in f.on <=> "flow" \in r.on
            OBVIOUS
        <3>2. "flow" \in SF /\ "flow" \notin OutForm!Unwritten(f) /\ "flow" \notin OutForm!Unwritten(r)
            BY <1>3, <3>1 DEF SF, p, OutForm!SettingsFields, OutForm!Unwritten
        <3> QED BY <1>11, <3>2
    <2>2. r.network = f.network \/ r.network = ""
        BY <1>2, <1>3
    <2> QED BY <1>3, <2>1, <2>2 DEF OutForm!muxAllowed, p
<1>14. (r.on \cap {"sendThrough"}) \cup (IF OutForm!muxAllowed(r) THEN r.on \cap {"mux"} ELSE {}) = Top
    <2>1. r.on \cap {"sendThrough", "mux"} = Top
        BY <1>5, <1>10
    <2>2. "mux" \in Top => OutForm!muxAllowed(r)
        BY <1>13
    <2> HIDE DEF Top
    <2> QED BY <2>1, <2>2
<1>15. WireOn(r) = payload.on
    <2>1. WireOn(r) = ((r.on \cap SF) \ OutForm!Unwritten(r))
              \cup (IF stream THEN OutForm!stripUiOnlyStreamFields(r.on) ELSE r.on \cap OutForm!SockoptFields)
              \cup ((r.on \cap {"sendThrough"}) \cup (IF OutForm!muxAllowed(r) THEN r.on \cap {"mux"} ELSE {}))
        BY <1>3 DEF WireOn, SF, stream
    <2> HIDE DEF Own, Stream, Top
    <2> QED BY <1>7, <1>11, <1>12, <1>14, <2>1
<1>16. OutForm!formValuesToWirePayload(r) =
           OutForm!Outbound(p, f.tag, IF stream THEN r.network ELSE "", IF stream THEN r.security ELSE "none", payload.on)
    BY <1>3, <1>15, WriteSays DEF stream
<1>17. OutForm!formValuesToWirePayload(r) = payload
    BY <1>1, <1>2, <1>3, <1>16 DEF p, stream
<1> QED
    BY <1>4, <1>17 DEF r, payload

\* Opening the JSON tab shows the form.
LEMMA TextOfForm ==
    ASSUME NEW f, IsForm(f)
    PROVE  LET payload == OutForm!formValuesToWirePayload(f) IN
           /\ IsOutbound(payload)
           /\ OutForm!formValuesToWirePayload(OutForm!Settle(OutForm!rawOutboundToFormValues(payload))) = payload
<1>1. IsOutbound(OutForm!formValuesToWirePayload(f))
    BY WriteSays DEF IsForm, IsOutbound, OutForm!Outbound
<1> QED
    BY <1>1, WrittenTwice, SettleSays DEF IsForm

\* The payload of an object read back is a payload of its form.
LEMMA FormRead ==
    ASSUME NEW raw, IsOutbound(raw)
    PROVE  IsForm(OutForm!Settle(OutForm!rawOutboundToFormValues(raw)))
    BY ReadSays, SettleSays

LEMMA SomeOutbounds ==
    /\ \A p, tag, net, sec, on : IsOutbound(OutForm!Outbound(p, tag, net, sec, on))
    /\ IsOutbound(OutForm!NoOutbound) /\ IsOutbound(OutForm!BadText) /\ IsOutbound(OutForm!BlankText)
    /\ \A raw \in OutForm!RawOutbounds : IsOutbound(raw)
    /\ \A raw, t : IsOutbound(raw) => IsOutbound([raw EXCEPT !.tag = t])
    /\ \A raw \in OutForm!LinkOutbounds : IsOutbound(raw)
<1>1. ASSUME NEW p, NEW tag, NEW net, NEW sec, NEW on
      PROVE  IsOutbound(OutForm!Outbound(p, tag, net, sec, on))
    <2> DEFINE g == OutForm!Outbound(p, tag, net, sec, on)
    <2>1. g.protocol = p /\ g.tag = tag /\ g.network = net /\ g.security = sec /\ g.on = on
        BY PartSays
    <2>2. g = OutForm!Outbound(g.protocol, g.tag, g.network, g.security, g.on)
        BY <2>1
    <2> QED BY <2>2 DEF IsOutbound
<1>2. IsOutbound(OutForm!NoOutbound) /\ IsOutbound(OutForm!BadText) /\ IsOutbound(OutForm!BlankText)
    BY <1>1 DEF OutForm!NoOutbound, OutForm!BadText, OutForm!BlankText
<1>3. ASSUME NEW raw \in OutForm!RawOutbounds
      PROVE  \E p, tag, net, sec, on : raw = OutForm!Outbound(p, tag, net, sec, on)
    BY <1>3 DEF OutForm!RawOutbounds
<1>4. ASSUME NEW raw, NEW t, IsOutbound(raw)
      PROVE  IsOutbound([raw EXCEPT !.tag = t])
    <2>1. PICK p, tag, net, sec, on : raw = OutForm!Outbound(p, tag, net, sec, on)
        BY <1>4 DEF IsOutbound
    <2>2. [raw EXCEPT !.tag = t] = OutForm!Outbound(p, t, net, sec, on)
        BY <2>1, PartSays
    <2> QED BY <1>1, <2>2
<1>5. \A raw \in OutForm!RawOutbounds : IsOutbound(raw)
    BY <1>1, <1>3
<1>6. ASSUME NEW raw \in OutForm!LinkOutbounds
      PROVE  IsOutbound(raw)
    BY <1>5 DEF OutForm!LinkOutbounds
<1> QED
    BY <1>1, <1>2, <1>4, <1>5, <1>6

\* A change of the form, in one part, leaves an outbound.
LEMMA TagChanged ==
    ASSUME NEW f, IsOutbound(f), NEW z
    PROVE  IsOutbound([f EXCEPT !.tag = z]) /\ [f EXCEPT !.tag = z].protocol = f.protocol
<1>1. PICK p, tag, net, sec, on : f = OutForm!Outbound(p, tag, net, sec, on)
    BY DEF IsOutbound
<1>2. [f EXCEPT !.tag = z] = OutForm!Outbound(p, z, net, sec, on)
    BY <1>1, PartSays
<1> QED BY <1>1, <1>2, SomeOutbounds, PartSays

LEMMA OnChanged ==
    ASSUME NEW f, IsOutbound(f), NEW z
    PROVE  IsOutbound([f EXCEPT !.on = z]) /\ [f EXCEPT !.on = z].protocol = f.protocol
<1>1. PICK p, tag, net, sec, on : f = OutForm!Outbound(p, tag, net, sec, on)
    BY DEF IsOutbound
<1>2. [f EXCEPT !.on = z] = OutForm!Outbound(p, tag, net, sec, z)
    BY <1>1, PartSays
<1> QED BY <1>1, <1>2, SomeOutbounds, PartSays

LEMMA ProtocolChanged ==
    ASSUME NEW f, IsOutbound(f), NEW z, NEW on2
    PROVE  LET g == [f EXCEPT !.protocol = z, !.on = on2] IN IsOutbound(g) /\ g.protocol = z
<1>1. PICK p, tag, net, sec, on : f = OutForm!Outbound(p, tag, net, sec, on)
    BY DEF IsOutbound
<1>2. [f EXCEPT !.protocol = z] = OutForm!Outbound(z, tag, net, sec, on)
    BY <1>1, PartSays
<1>3. [OutForm!Outbound(z, tag, net, sec, on) EXCEPT !.on = on2] = OutForm!Outbound(z, tag, net, sec, on2)
    BY PartSays
<1>4. [f EXCEPT !.protocol = z, !.on = on2] = OutForm!Outbound(z, tag, net, sec, on2)
    BY <1>2, <1>3
<1> QED BY <1>4, SomeOutbounds, PartSays

LEMMA SecurityChanged ==
    ASSUME NEW f, IsOutbound(f), NEW z, NEW on2
    PROVE  LET g == [f EXCEPT !.security = z, !.on = on2] IN IsOutbound(g) /\ g.protocol = f.protocol
<1>1. PICK p, tag, net, sec, on : f = OutForm!Outbound(p, tag, net, sec, on)
    BY DEF IsOutbound
<1>2. [f EXCEPT !.security = z] = OutForm!Outbound(p, tag, net, z, on)
    BY <1>1, PartSays
<1>3. [OutForm!Outbound(p, tag, net, z, on) EXCEPT !.on = on2] = OutForm!Outbound(p, tag, net, z, on2)
    BY PartSays
<1>4. [f EXCEPT !.security = z, !.on = on2] = OutForm!Outbound(p, tag, net, z, on2)
    BY <1>2, <1>3
<1> QED BY <1>1, <1>4, SomeOutbounds, PartSays

LEMMA StreamChanged ==
    ASSUME NEW f, IsOutbound(f), NEW net2, NEW sec2, NEW on2
    PROVE  LET g == OutForm!WithStream(f, net2, sec2, on2) IN IsOutbound(g) /\ g.protocol = f.protocol
<1>1. PICK p, tag, net, sec, on : f = OutForm!Outbound(p, tag, net, sec, on)
    BY DEF IsOutbound
<1> DEFINE on3 == (on \ OutForm!StreamFields) \cup on2
<1>2. OutForm!WithStream(f, net2, sec2, on2) = OutForm!Outbound(p, tag, net2, sec2, on3)
    BY <1>1, StreamParts
<1> HIDE DEF on3
<1> QED BY <1>1, <1>2, SomeOutbounds, PartSays

LEMMA WrittenSays == ASSUME NEW f, IsOutbound(f) PROVE IsOutbound(OutForm!formValuesToWirePayload(f))
<1> DEFINE net == IF f.protocol \in OutForm!STREAM_PROTOCOLS THEN f.network ELSE ""
           sec == IF f.protocol \in OutForm!STREAM_PROTOCOLS THEN f.security ELSE "none"
<1>1. OutForm!formValuesToWirePayload(f) = OutForm!Outbound(f.protocol, f.tag, net, sec, WireOn(f))
    BY WriteSays
<1> HIDE DEF net, sec
<1> QED
    BY <1>1, SomeOutbounds

LEMMA InitOut == ASSUME OutForm!Init PROVE OutInv
<1> DEFINE raw == IF outformOriginal = OutForm!NoOutbound THEN OutForm!Outbound("vless", "", "", "none", {}) ELSE outformOriginal
           initial == OutForm!rawOutboundToFormValues(raw)
<1>1. /\ outformOriginal \in {OutForm!NoOutbound} \cup OutForm!RawOutbounds
      /\ oform = OutForm!Settle(initial) /\ ojson = OutForm!formValuesToWirePayload(initial)
      /\ otab = "basic"
    BY DEF OutForm!Init
<1>2. IsOutbound(raw)
    BY <1>1, SomeOutbounds
<1> HIDE DEF raw
<1>3. IsForm(oform)
    BY <1>1, <1>2, FormRead
<1>4. IsOutbound(initial)
    BY <1>2, ReadSays
<1> HIDE DEF initial
<1>5. IsOutbound(ojson)
    BY <1>1, <1>4, WrittenSays
<1> QED
    BY <1>1, <1>3, <1>5 DEF OutInv, OutForm!JsonIsForm

\* A change on the basic tab.
LEMMA ChangeOut ==
    ASSUME OutInv, NEW f, IsOutbound(f), f.protocol \in OutForm!Protocols, OutForm!Change(f)
    PROVE  OutInv'
<1>1. otab = "basic" /\ oform' = OutForm!Settle(f) /\ UNCHANGED <<otab, ojson, ojsonDirty>>
    BY DEF OutForm!Change
<1>2. IsForm(oform')
    BY <1>1, SettleSays
<1> QED
    BY <1>1, <1>2 DEF OutInv, OutForm!JsonIsForm

LEMMA TagActOut == ASSUME OutInv, NEW t, OutForm!SetTag(t) PROVE OutInv'
<1>0. IsOutbound(oform) /\ oform.protocol \in OutForm!Protocols
    BY DEF OutInv, IsForm
<1> QED BY <1>0, TagChanged, ChangeOut DEF OutForm!SetTag

LEMMA FieldActOut == ASSUME OutInv, NEW x, OutForm!SetField(x) PROVE OutInv'
<1>0. IsOutbound(oform) /\ oform.protocol \in OutForm!Protocols
    BY DEF OutInv, IsForm
<1>1. PICK z : OutForm!Change([oform EXCEPT !.on = z])
    BY DEF OutForm!SetField
<1> QED BY <1>0, <1>1, OnChanged, ChangeOut

LEMMA ProtocolActOut ==
    ASSUME OutInv, NEW q \in OutForm!Protocols, OutForm!onProtocolChange(q) PROVE OutInv'
<1> DEFINE X == oform.on \ OutForm!SettingsFields(oform.protocol)
           f == [oform EXCEPT !.protocol = q, !.on = X]
<1>0. IsOutbound(oform)
    BY DEF OutInv, IsForm
<1>1. \/ OutForm!Change(OutForm!WithStream(f, "hysteria", "tls", {}))
      \/ OutForm!Change(OutForm!WithStream(f, "tcp", "none", {}))
      \/ OutForm!Change(f)
    BY DEF OutForm!onProtocolChange, OutForm!hysteriaStreamSlice
<1> HIDE DEF X
<1>2. IsOutbound(f) /\ f.protocol = q
    BY <1>0, ProtocolChanged
<1> HIDE DEF f
<1>3. CASE OutForm!Change(f)
    BY <1>2, <1>3, ChangeOut
<1>4. CASE OutForm!Change(OutForm!WithStream(f, "hysteria", "tls", {}))
    <2>1. IsOutbound(OutForm!WithStream(f, "hysteria", "tls", {})) /\ OutForm!WithStream(f, "hysteria", "tls", {}).protocol = q
        BY <1>2, StreamChanged
    <2> QED BY <1>4, <2>1, ChangeOut
<1>5. CASE OutForm!Change(OutForm!WithStream(f, "tcp", "none", {}))
    <2>1. IsOutbound(OutForm!WithStream(f, "tcp", "none", {})) /\ OutForm!WithStream(f, "tcp", "none", {}).protocol = q
        BY <1>2, StreamChanged
    <2> QED BY <1>5, <2>1, ChangeOut
<1> QED BY <1>1, <1>3, <1>4, <1>5

LEMMA SecurityActOut == ASSUME OutInv, NEW s, OutForm!onSecurityChange(s) PROVE OutInv'
<1> DEFINE X == oform.on \ OutForm!SecurityFields
           f == [oform EXCEPT !.security = s, !.on = X]
<1>0. IsOutbound(oform) /\ oform.protocol \in OutForm!Protocols
    BY DEF OutInv, IsForm
<1>1. OutForm!Change(f)
    BY DEF OutForm!onSecurityChange
<1> HIDE DEF X
<1>2. IsOutbound(f) /\ f.protocol = oform.protocol
    BY <1>0, SecurityChanged
<1> HIDE DEF f
<1> QED BY <1>0, <1>1, <1>2, ChangeOut

LEMMA NetworkActOut == ASSUME OutInv, NEW net, OutForm!onNetworkChange(net) PROVE OutInv'
<1>0. IsOutbound(oform) /\ oform.protocol \in OutForm!Protocols
    BY DEF OutInv, IsForm
<1>1. PICK sec, on : OutForm!Change(OutForm!WithStream(oform, net, sec, on))
    BY DEF OutForm!onNetworkChange, OutForm!applyNetworkChange
<1>2. IsOutbound(OutForm!WithStream(oform, net, sec, on)) /\ OutForm!WithStream(oform, net, sec, on).protocol = oform.protocol
    BY <1>0, StreamChanged
<1> QED BY <1>0, <1>1, <1>2, ChangeOut

LEMMA FormActsOut ==
    ASSUME OutInv,
           \/ \E t \in {"", "t1", "t2", "t3"} : OutForm!SetTag(t)
           \/ \E x \in OutForm!Shown(oform) \ {"pubKey"} : OutForm!SetField(x)
           \/ \E p \in OutForm!Protocols : OutForm!onProtocolChange(p)
           \/ \E s \in {"none", "tls", "reality"} : OutForm!onSecurityChange(s)
           \/ \E net \in OutForm!NETWORKS : OutForm!onNetworkChange(net)
    PROVE  OutInv'
    BY TagActOut, FieldActOut, ProtocolActOut, SecurityActOut, NetworkActOut

\* The JSON tab is opened, left, edited, or replaced by a link.
LEMMA TextActsOut ==
    ASSUME OutInv,
           \/ \E tab \in {"basic", "json"} : OutForm!onTabChange(tab)
           \/ \E text \in OutForm!RawOutbounds \cup {OutForm!BadText, OutForm!BlankText} : OutForm!EditJson(text)
           \/ \E raw \in OutForm!LinkOutbounds, t \in {"", "t3"} : OutForm!importLink([raw EXCEPT !.tag = t])
    PROVE  OutInv'
<1>0. IsForm(oform) /\ IsOutbound(ojson) /\ OutForm!JsonIsForm
    BY DEF OutInv
<1>1. ASSUME OutForm!onTabChange("json") PROVE OutInv'
    <2>1. ojson' = OutForm!formValuesToWirePayload(oform) /\ oform' = oform
        BY <1>1 DEF OutForm!onTabChange
    <2>2. /\ IsOutbound(ojson')
          /\ OutForm!formValuesToWirePayload(OutForm!Settle(OutForm!rawOutboundToFormValues(ojson'))) = ojson'
        BY <1>0, <2>1, TextOfForm
    <2> QED BY <1>0, <2>1, <2>2 DEF OutInv, OutForm!JsonIsForm
<1>2. ASSUME OutForm!onTabChange("basic") PROVE OutInv'
    <2>1. /\ ojson' = ojson
          /\ \/ otab' = "basic" /\ oform' = oform
             \/ oform' = oform /\ otab' = otab /\ ojsonDirty' = ojsonDirty
             \/ otab' = "basic" /\ oform' = OutForm!Settle(OutForm!rawOutboundToFormValues(ojson))
        BY <1>2 DEF OutForm!onTabChange
    <2>2. IsForm(oform')
        BY <1>0, <2>1, FormRead
    <2>3. CASE otab' = "basic"
        BY <1>0, <2>1, <2>2, <2>3 DEF OutInv, OutForm!JsonIsForm
    <2>4. CASE oform' = oform /\ otab' = otab /\ ojsonDirty' = ojsonDirty
        BY <1>0, <2>1, <2>4 DEF OutInv, OutForm!JsonIsForm
    <2> QED BY <2>1, <2>3, <2>4
<1>3. ASSUME NEW text \in OutForm!RawOutbounds \cup {OutForm!BadText, OutForm!BlankText}, OutForm!EditJson(text)
      PROVE  OutInv'
    <2>1. ojson' = text /\ ojsonDirty' = TRUE /\ oform' = oform
        BY <1>3 DEF OutForm!EditJson
    <2>2. IsOutbound(ojson')
        BY <2>1, SomeOutbounds
    <2> QED BY <1>0, <2>1, <2>2 DEF OutInv, OutForm!JsonIsForm
<1>4. ASSUME NEW raw, IsOutbound(raw), OutForm!importLink(raw)
      PROVE  OutInv'
    <2> DEFINE t == IF raw.tag = "" THEN oform.tag ELSE raw.tag
               next == OutForm!rawOutboundToFormValues([raw EXCEPT !.tag = t])
    <2>1. oform' = OutForm!Settle(next) /\ ojson' = OutForm!formValuesToWirePayload(next) /\ otab' = "basic"
        BY <1>4 DEF OutForm!importLink
    <2> HIDE DEF t
    <2>2. IsOutbound([raw EXCEPT !.tag = t])
        BY <1>4, SomeOutbounds
    <2>3. IsForm(oform') /\ IsOutbound(next)
        BY <2>1, <2>2, FormRead, ReadSays
    <2> HIDE DEF next
    <2>4. IsOutbound(ojson')
        BY <2>1, <2>3, WrittenSays
    <2> QED BY <2>1, <2>3, <2>4 DEF OutInv, OutForm!JsonIsForm
<1>5. ASSUME NEW raw \in OutForm!LinkOutbounds, NEW t
      PROVE  IsOutbound([raw EXCEPT !.tag = t])
    BY SomeOutbounds
<1> QED
    BY <1>1, <1>2, <1>3, <1>4, <1>5

LEMMA OkOut == ASSUME OutInv, OutForm!onOk PROVE OutInv'
<1>0. IsForm(oform) /\ IsOutbound(ojson) /\ OutForm!JsonIsForm
    BY DEF OutInv
<1>1. /\ oform' = OutForm!Settle(IF otab = "json" THEN OutForm!rawOutboundToFormValues(ojson) ELSE oform)
      /\ UNCHANGED <<otab, ojson>>
    BY DEF OutForm!onOk
<1>2. CASE otab = "json"
    <2>1. oform' = OutForm!Settle(OutForm!rawOutboundToFormValues(ojson))
        BY <1>1, <1>2
    <2>2. IsForm(oform')
        BY <1>0, <2>1, FormRead
    <2> QED BY <1>0, <1>1, <2>1, <2>2 DEF OutInv, OutForm!JsonIsForm
<1>3. CASE otab # "json"
    <2>1. oform' = oform
        BY <1>0, <1>1, <1>3, SettleSays DEF IsForm
    <2> QED BY <1>0, <1>1, <1>3, <2>1 DEF OutInv, OutForm!JsonIsForm
<1> QED
    BY <1>2, <1>3

LEMMA NextOut == ASSUME OutInv, [OutForm!Next]_outformVars PROVE OutInv'
<1>1. CASE OutForm!Next
    BY <1>1, FormActsOut, TextActsOut, OkOut DEF OutForm!Next
<1>2. CASE UNCHANGED outformVars
    BY <1>2 DEF outformVars, OutInv, OutForm!JsonIsForm
<1> QED
    BY <1>1, <1>2

-----------------------------------------------------------------------------
(* The parts of the page side by side *)

\* A step of the module is a step of each part or leaves it alone.
LEMMA PartsStep ==
    ASSUME [DraftsNext]_draftsVars
    PROVE  /\ [Settings!Next]_settingsVars /\ [Xray!Next]_xrayVars /\ [Dns!Next]_dnsVars
           /\ [OutForm!Next]_outformVars /\ [Logs!Next]_logsVars /\ [Notices!Next]_noticesVars
<1>1. CASE SettingsNext
    BY <1>1 DEF SettingsNext
<1>2. CASE XrayNext
    BY <1>2 DEF XrayNext
<1>3. CASE DnsNext
    BY <1>3 DEF DnsNext
<1>4. CASE OutformNext
    BY <1>4 DEF OutformNext
<1>5. CASE LogsNext
    BY <1>5 DEF LogsNext
<1>6. CASE NoticesNext
    BY <1>6 DEF NoticesNext
<1>7. CASE UNCHANGED draftsVars
    BY <1>7 DEF draftsVars
<1> QED
    BY <1>1, <1>2, <1>3, <1>4, <1>5, <1>6, <1>7 DEF DraftsNext

WatchersInv == LogInv /\ StoreInv

\* The watcher of the log and the store of notifications keep their types, what
\* they compare with, and what the user can still bring back.
THEOREM WatchersHold == DraftsSpec => []WatchersInv
<1>1. DraftsInit => WatchersInv
    BY InitLog, InitStore DEF DraftsInit, WatchersInv
<1>2. WatchersInv /\ [DraftsNext]_draftsVars => WatchersInv'
    BY PartsStep, NextLog, NextStore DEF WatchersInv
<1> QED
    BY <1>1, <1>2, PTL DEF DraftsSpec

\* A failed login is notified once and missed only when more lines than a window
\* came between two polls; a dismissed alert can be restored unless the cap of the
\* log evicted it; a sensor or a client is armed again when its episode ends; an
\* event on display is not added twice.
THEOREM NotifiedOnceHolds == DraftsSpec => []NotifiedOnce
<1>1. WatchersInv => NotifiedOnce
    BY LogSays DEF WatchersInv, StoreInv, NotifiedOnce
<1> QED
    BY <1>1, WatchersHold, PTL

EditorsInv == SettingsInv /\ XrayInv /\ DnsInv /\ OutInv

\* Each of the four editors keeps what relates its screen to the server: the
\* settings form, the template editor, the DNS tab and the outbound dialog.
THEOREM EditorsHold == DraftsSpec => []EditorsInv
<1>1. DraftsInit => EditorsInv
    <2> SUFFICES ASSUME DraftsInit PROVE EditorsInv
        OBVIOUS
    <2>1. Settings!Init /\ Xray!Init /\ Dns!Init /\ OutForm!Init
        BY DEF DraftsInit
    <2> QED BY <2>1, InitSettings, InitXray, InitDns, InitOut DEF EditorsInv
<1>2. EditorsInv /\ [DraftsNext]_draftsVars => EditorsInv'
    <2> SUFFICES ASSUME EditorsInv, [DraftsNext]_draftsVars PROVE EditorsInv'
        OBVIOUS
    <2>1. /\ [Settings!Next]_settingsVars /\ [Xray!Next]_xrayVars /\ [Dns!Next]_dnsVars
          /\ [OutForm!Next]_outformVars
        BY PartsStep
    <2>2. SettingsInv' /\ XrayInv' /\ DnsInv'
        BY <2>1, NextSettings, NextXray, NextDns DEF EditorsInv
    <2>3. OutInv'
        BY <2>1, NextOut DEF EditorsInv
    <2> QED BY <2>2, <2>3 DEF EditorsInv
<1> QED
    BY <1>1, <1>2, PTL DEF DraftsSpec

\* An editor with nothing to save and nothing to restart is in step with the
\* server, a process older than what is saved is reported, the text and the open
\* JSON tab are the draft, and the DNS hosts on screen are the template's; each
\* departure has its cause.
THEOREM QuietHolds == DraftsSpec => []QuietMeansInSync
<1>1. EditorsInv => QuietMeansInSync
    <2> SUFFICES ASSUME EditorsInv PROVE QuietMeansInSync
        OBVIOUS
    <2>1. Settings!CleanMeansSaved /\ Settings!StaleProcessIsReminded
        BY SettingsSays DEF EditorsInv
    <2>2. Xray!OneDraft /\ Xray!TextSaved /\ Xray!StaleCoreIsReminded
        BY XraySays DEF EditorsInv
    <2>3. Dns!HostsMirrored
        BY DEF EditorsInv, DnsInv
    <2>4. OutForm!JsonIsForm
        BY DEF EditorsInv, OutInv
    <2> QED BY <2>1, <2>2, <2>3, <2>4 DEF QuietMeansInSync
<1> QED
    BY <1>1, EditorsHold, PTL
=============================================================================
