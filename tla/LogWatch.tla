------------------------------ MODULE LogWatch ------------------------------
(***************************************************************************)
(* The sensor that polls the panel's log and raises a notification for     *)
(* each failed login (pages/index/LogWatcher.tsx).  Lines are numbered; a  *)
(* poll answers with the last Window lines of the level asked for, or with *)
(* the empty list when it fails.  Answers are cached per level by the      *)
(* query client, and the effect runs when the answer it holds changes.     *)
(***************************************************************************)
EXTENDS Integers, FiniteSets

CONSTANTS Window, MaxLines, MaxLogSteps

VARIABLES
    logged,     \* lines written so far, all of level "warning"
    watch,      \* [enabled, level, seeded, prevSeen]
    answers,    \* query cache: level -> [known, lines]
    notified,   \* line -> how often it was notified
    baseline,   \* history: lines the first window of an enabling held
    logWhy, logSteps

logVars == <<logged, watch, answers, notified, baseline, logWhy, logSteps>>

LogLevels == {"warning", "error"}
Unknown == [known |-> FALSE, lines |-> {}]

Init ==
    /\ logged = 0
    /\ watch = [enabled |-> FALSE, level |-> "warning", seeded |-> FALSE, prevSeen |-> {}]
    /\ answers = [l \in LogLevels |-> Unknown]
    /\ notified = [i \in 1 .. MaxLines |-> 0]
    /\ baseline = {} /\ logWhy = {} /\ logSteps = 0

LogStep == logSteps < MaxLogSteps /\ logSteps' = logSteps + 1
WindowOf(level) == IF level = "error" THEN {} ELSE {i \in 1 .. logged : i > logged - Window}

Line ==
    /\ logged < MaxLines /\ logged' = logged + 1
    /\ UNCHANGED <<watch, answers, notified, baseline, logWhy, logSteps>>

\* Mutant: the lines are marked as seen before they are compared.
NotifySeenFirst(w, current) ==
    LET seen == [w EXCEPT !.prevSeen = current] IN
    /\ watch' = [seen EXCEPT !.seeded = TRUE]
    /\ IF w.seeded
       THEN /\ notified' = [i \in DOMAIN notified |-> notified[i] + (IF i \in current \ seen.prevSeen THEN 1 ELSE 0)]
            /\ UNCHANGED baseline
       ELSE baseline' = baseline \cup current /\ UNCHANGED notified

\* The effect: the first window is the baseline, later ones bring the lines
\* that the previous window did not hold
Notify(w, current) ==
    /\ watch' = [w EXCEPT !.seeded = TRUE, !.prevSeen = current]
    /\ IF w.seeded
       THEN /\ notified' = [i \in DOMAIN notified |-> notified[i] + (IF i \in current \ w.prevSeen THEN 1 ELSE 0)]
            /\ UNCHANGED baseline
       ELSE baseline' = baseline \cup current /\ UNCHANGED notified

Quiet(w) == watch' = w /\ UNCHANGED <<notified, baseline>>

\* An answer, possibly that of a failed request; the same answer again does
\* not run the effect
Poll(ok) ==
    /\ watch.enabled /\ LogStep
    /\ LET lines == IF ok THEN WindowOf(watch.level) ELSE {}
           fresh == ~answers[watch.level].known \/ answers[watch.level].lines # lines
       IN /\ answers' = [answers EXCEPT ![watch.level] = [known |-> TRUE, lines |-> lines]]
          /\ IF fresh THEN Notify(watch, lines) ELSE Quiet(watch)
    /\ logWhy' = IF ok THEN logWhy ELSE logWhy \cup {"failedPoll"}
    /\ UNCHANGED logged

\* A cached answer of the level is the first window at once
Enable ==
    /\ ~watch.enabled /\ LogStep
    /\ LET w == [watch EXCEPT !.enabled = TRUE] IN
       IF answers[w.level].known THEN Notify(w, answers[w.level].lines) ELSE Quiet(w)
    /\ UNCHANGED <<logged, answers, logWhy>>

Disable ==
    /\ watch.enabled /\ LogStep
    /\ Quiet([watch EXCEPT !.enabled = FALSE, !.seeded = FALSE, !.prevSeen = {}])
    /\ logWhy' = logWhy \cup {"disabled"}
    /\ UNCHANGED <<logged, answers>>

SetLevel(l) ==
    /\ l # watch.level /\ LogStep
    /\ LET w == [watch EXCEPT !.level = l] IN
       IF w.enabled /\ answers[l].known /\ answers[l].lines # answers[watch.level].lines
       THEN Notify(w, answers[l].lines) ELSE Quiet(w)
    /\ logWhy' = logWhy \cup {"level"}
    /\ UNCHANGED <<logged, answers>>

Next == Line \/ \E ok \in BOOLEAN : Poll(ok) \/ Enable \/ Disable \/ \E l \in LogLevels : SetLevel(l)

Spec == Init /\ [][Next]_logVars

-----------------------------------------------------------------------------
TypeOK ==
    /\ logged \in 0 .. MaxLines /\ watch.prevSeen \subseteq 1 .. MaxLines
    /\ notified \in [1 .. MaxLines -> 0 .. MaxLogSteps]

\* A failed login is notified at most once, and never from the baseline,
\* unless a poll failed, the level changed or the watcher was switched off
\* and on: each of them makes the effect compare with another window.
ReplayHasCause ==
    logWhy = {} => \A i \in DOMAIN notified : notified[i] <= 1 /\ (i \in baseline => notified[i] = 0)

\* A failed login older than the newest one seen was notified or was in the
\* baseline, unless more lines than a window came between two polls or the
\* watcher was looking elsewhere.
MissHasCause ==
    \A i \in 1 .. MaxLines :
        (logWhy = {} /\ notified[i] = 0 /\ i \notin baseline /\ \E j \in watch.prevSeen : i < j)
            => \E j \in watch.prevSeen : i <= j - Window
=============================================================================
