---------------------------- MODULE TrafficWriter ----------------------------
(***************************************************************************)
(* The traffic writer of web/service/traffic_writer.go: goroutines hand a  *)
(* database write to submitTrafficWrite; one writer goroutine per          *)
(* Start/Stop cycle takes writes from a bounded channel and applies them;  *)
(* Stop cancels the writer, which drains its channel before it exits; a    *)
(* write submitted while no live writer exists is applied inline by its    *)
(* caller.                                                                 *)
(*                                                                         *)
(* A request is one call of submitTrafficWrite.  A generation is one       *)
(* Start/Stop cycle: the fresh queue, context and done channel that        *)
(* StartTrafficWriter makes.  The four package variables twQueue, twCtx,   *)
(* twCancel and twDone are assigned and cleared together under twMu, so    *)
(* one variable, cur, stands for them (0 for nil).  Critical sections of   *)
(* Start and Stop never block, so each is one step taken while twMu is     *)
(* free; only a submitter blocks (on a full queue) while it holds twMu.    *)
(***************************************************************************)
EXTENDS Integers, Sequences, FiniteSets

CONSTANTS
    Requests,     \* calls of submitTrafficWrite, each made at most once
    Controllers,  \* goroutines that call StartTrafficWriter / StopTrafficWriter
    QueueSize,    \* trafficWriterQueueSize
    MaxGen,       \* bound on the number of Start/Stop cycles
    None          \* "no request": twMu is free, the writer holds no request

ASSUME QueueAssumption == QueueSize \in Nat \ {0}
ASSUME GenAssumption   == MaxGen \in Nat
ASSUME NoneAssumption  == None \notin Requests

VARIABLES
    mu,         \* the request whose caller holds twMu across a step, or None
    cur,        \* generation in twQueue/twCtx/twCancel/twDone, 0 when nil
    gens,       \* generations made so far
    queue,      \* queue[g]: the buffered channel of generation g
    cancelled,  \* generations whose context is cancelled
    writer,     \* writer[g]: where runTrafficWriter of generation g stands
    taken,      \* taken[g]: the request that writer is applying, or None
    pc,         \* pc[r]: where the call r of submitTrafficWrite stands
    gen,        \* gen[r]: the generation r read under twMu, 0 when none
    answer,     \* answer[r]: content of r's one-slot done channel
    result,     \* result[r]: what submitTrafficWrite returned
    applied,    \* applied[r]: how often r's function ran to its end
    ctl,        \* ctl[c]: where the controller c stands
    stopGen,    \* stopGen[c]: the generation c's Stop is waiting for, or 0
    lastCall    \* lastCall[c]: the controller call c completed last

reqVars  == <<pc, gen, answer, result, applied>>
genVars  == <<cur, gens, queue, cancelled, writer, taken>>
ctlVars  == <<ctl, stopGen, lastCall>>
vars     == <<mu, reqVars, genVars, ctlVars>>

Gens     == 1..MaxGen
Outcome  == {"ok", "err"}   \* safeApply returns nil, or fn's error or panic
Pc       == {"idle", "lock", "enqueue", "inline", "inlineDone", "wait",
             "recheck", "returned"}
Result   == Outcome \cup {"none", "full", "stopped"}
WriterPc == {"none", "select", "apply", "drain", "drainApply", "exited"}

\* close(done) is deferred: it happens when runTrafficWriter returns.
DoneClosed(g) == writer[g] = "exited"

-----------------------------------------------------------------------------
Init ==
    /\ mu = None
    /\ cur = 0
    /\ gens = 0
    /\ queue = [g \in Gens |-> <<>>]
    /\ cancelled = {}
    /\ writer = [g \in Gens |-> "none"]
    /\ taken = [g \in Gens |-> None]
    /\ pc = [r \in Requests |-> "idle"]
    /\ gen = [r \in Requests |-> 0]
    /\ answer = [r \in Requests |-> "none"]
    /\ result = [r \in Requests |-> "none"]
    /\ applied = [r \in Requests |-> 0]
    /\ ctl = [c \in Controllers |-> "idle"]
    /\ stopGen = [c \in Controllers |-> 0]
    /\ lastCall = [c \in Controllers |-> "none"]

-----------------------------------------------------------------------------
(* StartTrafficWriter *)

\* A writer that has not exited is left alone, even one that is being stopped.
StartFindsWriter(c) ==
    /\ ctl[c] = "idle"
    /\ mu = None
    /\ cur # 0
    /\ ~DoneClosed(cur)
    /\ lastCall' = [lastCall EXCEPT ![c] = "start"]
    /\ UNCHANGED <<mu, reqVars, genVars, ctl, stopGen>>

\* Mutant: a sync.Once keeps every Start but the first from making a writer.
StartSpawnsOnce(c) ==
    /\ ctl[c] = "idle"
    /\ mu = None
    /\ cur # 0 => DoneClosed(cur)
    /\ gens < MaxGen
    /\ IF gens = 0
       THEN /\ gens' = 1
            /\ cur' = 1
            /\ writer' = [writer EXCEPT ![1] = "select"]
       ELSE UNCHANGED <<gens, cur, writer>>
    /\ lastCall' = [lastCall EXCEPT ![c] = "start"]
    /\ UNCHANGED <<mu, reqVars, queue, cancelled, taken, ctl, stopGen>>

\* Mutant: a cancelled writer counts as gone although it may still be draining.
StartSpawnsEarly(c) ==
    /\ ctl[c] = "idle"
    /\ mu = None
    /\ cur # 0 => cur \in cancelled
    /\ gens < MaxGen
    /\ gens' = gens + 1
    /\ cur' = gens + 1
    /\ writer' = [writer EXCEPT ![gens + 1] = "select"]
    /\ lastCall' = [lastCall EXCEPT ![c] = "start"]
    /\ UNCHANGED <<mu, reqVars, queue, cancelled, taken, ctl, stopGen>>

\* Otherwise (nil state, or done closed and the state cleared here) a fresh
\* generation is made and its goroutine started.
StartSpawns(c) ==
    /\ ctl[c] = "idle"
    /\ mu = None
    /\ cur # 0 => DoneClosed(cur)
    /\ gens < MaxGen
    /\ gens' = gens + 1
    /\ cur' = gens + 1
    /\ writer' = [writer EXCEPT ![gens + 1] = "select"]
    /\ lastCall' = [lastCall EXCEPT ![c] = "start"]
    /\ UNCHANGED <<mu, reqVars, queue, cancelled, taken, ctl, stopGen>>

StartTrafficWriter(c) == StartFindsWriter(c) \/ StartSpawns(c)

-----------------------------------------------------------------------------
(* StopTrafficWriter *)

StopFindsNothing(c) ==
    /\ ctl[c] = "idle"
    /\ mu = None
    /\ cur = 0
    /\ lastCall' = [lastCall EXCEPT ![c] = "stop"]
    /\ UNCHANGED <<mu, reqVars, genVars, ctl, stopGen>>

\* cancel() under twMu, then wait for done with twMu released.
StopCancels(c) ==
    /\ ctl[c] = "idle"
    /\ mu = None
    /\ cur # 0
    /\ cancelled' = cancelled \cup {cur}
    /\ ctl' = [ctl EXCEPT ![c] = "waitDone"]
    /\ stopGen' = [stopGen EXCEPT ![c] = cur]
    /\ UNCHANGED <<mu, reqVars, cur, gens, queue, writer, taken, lastCall>>

StopSeesDone(c) ==
    /\ ctl[c] = "waitDone"
    /\ DoneClosed(stopGen[c])
    /\ ctl' = [ctl EXCEPT ![c] = "clear"]
    /\ UNCHANGED <<mu, reqVars, genVars, stopGen, lastCall>>

\* The state is cleared only when it is still the one this Stop cancelled.
StopClears(c) ==
    /\ ctl[c] = "clear"
    /\ mu = None
    /\ cur' = IF cur = stopGen[c] THEN 0 ELSE cur
    /\ ctl' = [ctl EXCEPT ![c] = "idle"]
    /\ stopGen' = [stopGen EXCEPT ![c] = 0]
    /\ lastCall' = [lastCall EXCEPT ![c] = "stop"]
    /\ UNCHANGED <<mu, reqVars, gens, queue, cancelled, writer, taken>>

StopProceeds(c) == StopSeesDone(c) \/ StopClears(c)

StopTrafficWriter(c) == StopFindsNothing(c) \/ StopCancels(c) \/ StopProceeds(c)

-----------------------------------------------------------------------------
(* runTrafficWriter *)

\* safeApply(req.apply), then its outcome goes into req's buffered channel.
Finish(r, o) ==
    /\ applied' = [applied EXCEPT ![r] = @ + 1]
    /\ answer' = [answer EXCEPT ![r] = o]

TakeFrom(g, next) ==
    /\ queue[g] # <<>>
    /\ taken' = [taken EXCEPT ![g] = Head(queue[g])]
    /\ queue' = [queue EXCEPT ![g] = Tail(queue[g])]
    /\ writer' = [writer EXCEPT ![g] = next]
    /\ UNCHANGED <<mu, reqVars, cur, gens, cancelled, ctlVars>>

ApplyTaken(g, next) ==
    /\ \E o \in Outcome : Finish(taken[g], o)
    /\ taken' = [taken EXCEPT ![g] = None]
    /\ writer' = [writer EXCEPT ![g] = next]
    /\ UNCHANGED <<mu, pc, gen, result, cur, gens, queue, cancelled, ctlVars>>

\* The main select: a queued request and a cancelled context may both be
\* ready, and then either case runs.
WriterTakes(g)   == writer[g] = "select" /\ TakeFrom(g, "apply")
WriterApplies(g) == writer[g] = "apply"  /\ ApplyTaken(g, "select")

WriterCancelled(g) ==
    /\ writer[g] = "select"
    /\ g \in cancelled
    /\ writer' = [writer EXCEPT ![g] = "drain"]
    /\ UNCHANGED <<mu, reqVars, cur, gens, queue, cancelled, taken, ctlVars>>

\* The drain loop: take while the channel has something, then return.
DrainTakes(g)   == writer[g] = "drain" /\ TakeFrom(g, "drainApply")
DrainApplies(g) == writer[g] = "drainApply" /\ ApplyTaken(g, "drain")

\* Mutant: the cancelled writer returns without draining.
DrainSkipped(g) ==
    /\ writer[g] = "drain"
    /\ writer' = [writer EXCEPT ![g] = "exited"]
    /\ UNCHANGED <<mu, reqVars, cur, gens, queue, cancelled, taken, ctlVars>>

\* Mutant: the drain loop has no default case and waits for more requests.
DrainNeverExits(g) ==
    /\ writer[g] = "drain"
    /\ queue[g] = <<>>
    /\ UNCHANGED vars

DrainExits(g) ==
    /\ writer[g] = "drain"
    /\ queue[g] = <<>>
    /\ writer' = [writer EXCEPT ![g] = "exited"]
    /\ UNCHANGED <<mu, reqVars, cur, gens, queue, cancelled, taken, ctlVars>>

runTrafficWriter(g) ==
    \/ WriterTakes(g) \/ WriterApplies(g) \/ WriterCancelled(g)
    \/ DrainTakes(g)  \/ DrainApplies(g)  \/ DrainExits(g)

-----------------------------------------------------------------------------
(* submitTrafficWrite *)

SubmitCalls(r) ==
    /\ pc[r] = "idle"
    /\ pc' = [pc EXCEPT ![r] = "lock"]
    /\ UNCHANGED <<mu, gen, answer, result, applied, genVars, ctlVars>>

\* twMu.Lock, read the state; nil state or a cancelled context: unlock and
\* apply inline.
SubmitGoesInline(r) ==
    /\ pc[r] = "lock"
    /\ mu = None
    /\ cur = 0 \/ cur \in cancelled
    /\ pc' = [pc EXCEPT ![r] = "inline"]
    /\ UNCHANGED <<mu, gen, answer, result, applied, genVars, ctlVars>>

\* Otherwise keep twMu and try to send within trafficWriterSubmitTimeout.
SubmitHoldsLock(r) ==
    /\ pc[r] = "lock"
    /\ mu = None
    /\ cur # 0 /\ cur \notin cancelled
    /\ mu' = r
    /\ gen' = [gen EXCEPT ![r] = cur]
    /\ pc' = [pc EXCEPT ![r] = "enqueue"]
    /\ UNCHANGED <<answer, result, applied, genVars, ctlVars>>

\* Mutant: the send does not wait for room in the channel.
SubmitEnqueuesUnbounded(r) ==
    /\ pc[r] = "enqueue"
    /\ queue' = [queue EXCEPT ![gen[r]] = Append(queue[gen[r]], r)]
    /\ mu' = None
    /\ pc' = [pc EXCEPT ![r] = "wait"]
    /\ UNCHANGED <<gen, answer, result, applied, cur, gens, cancelled, writer,
                   taken, ctlVars>>

SubmitEnqueues(r) ==
    /\ pc[r] = "enqueue"
    /\ Len(queue[gen[r]]) < QueueSize
    /\ queue' = [queue EXCEPT ![gen[r]] = Append(queue[gen[r]], r)]
    /\ mu' = None
    /\ pc' = [pc EXCEPT ![r] = "wait"]
    /\ UNCHANGED <<gen, answer, result, applied, cur, gens, cancelled, writer,
                   taken, ctlVars>>

\* Mutant: the timeout path returns without twMu.Unlock.
SubmitTimesOutLocked(r) ==
    /\ pc[r] = "enqueue"
    /\ pc' = [pc EXCEPT ![r] = "returned"]
    /\ result' = [result EXCEPT ![r] = "full"]
    /\ UNCHANGED <<mu, gen, answer, applied, genVars, ctlVars>>

\* Mutant: the timed-out request stays in the channel.
SubmitTimesOutQueued(r) ==
    /\ pc[r] = "enqueue"
    /\ mu' = None
    /\ queue' = [queue EXCEPT ![gen[r]] = Append(queue[gen[r]], r)]
    /\ pc' = [pc EXCEPT ![r] = "returned"]
    /\ result' = [result EXCEPT ![r] = "full"]
    /\ UNCHANGED <<gen, answer, applied, cur, gens, cancelled, writer, taken,
                   ctlVars>>

\* The timer fired.  Time is not modelled, so it may fire at any moment.
SubmitTimesOut(r) ==
    /\ pc[r] = "enqueue"
    /\ mu' = None
    /\ pc' = [pc EXCEPT ![r] = "returned"]
    /\ result' = [result EXCEPT ![r] = "full"]
    /\ UNCHANGED <<gen, answer, applied, genVars, ctlVars>>

SubmitAppliesInline(r) ==
    /\ pc[r] = "inline"
    /\ \E o \in Outcome : Finish(r, o)
    /\ pc' = [pc EXCEPT ![r] = "inlineDone"]
    /\ UNCHANGED <<mu, gen, result, genVars, ctlVars>>

\* The inline call is over, or the outer select takes req.done.
SubmitGetsAnswer(r) ==
    /\ pc[r] \in {"inlineDone", "wait"}
    /\ answer[r] # "none"
    /\ result' = [result EXCEPT ![r] = answer[r]]
    /\ pc' = [pc EXCEPT ![r] = "returned"]
    /\ UNCHANGED <<mu, gen, answer, applied, genVars, ctlVars>>

\* The outer select takes the writer's done channel.
SubmitSeesDone(r) ==
    /\ pc[r] = "wait"
    /\ DoneClosed(gen[r])
    /\ pc' = [pc EXCEPT ![r] = "recheck"]
    /\ UNCHANGED <<mu, gen, answer, result, applied, genVars, ctlVars>>

\* Mutant: without the inner select the answer that is already there is lost.
SubmitRechecksNothing(r) ==
    /\ pc[r] = "recheck"
    /\ result' = [result EXCEPT ![r] = "stopped"]
    /\ pc' = [pc EXCEPT ![r] = "returned"]
    /\ UNCHANGED <<mu, gen, answer, applied, genVars, ctlVars>>

\* The inner select: req.done once more, else "traffic writer stopped before
\* write completed".
SubmitRechecks(r) ==
    /\ pc[r] = "recheck"
    /\ result' = [result EXCEPT ![r] = IF answer[r] = "none" THEN "stopped"
                                                             ELSE answer[r]]
    /\ pc' = [pc EXCEPT ![r] = "returned"]
    /\ UNCHANGED <<mu, gen, answer, applied, genVars, ctlVars>>

\* What the call does once it is made.
SubmitProceeds(r) ==
    \/ SubmitGoesInline(r) \/ SubmitHoldsLock(r) \/ SubmitEnqueues(r)
    \/ SubmitTimesOut(r) \/ SubmitAppliesInline(r) \/ SubmitGetsAnswer(r)
    \/ SubmitSeesDone(r) \/ SubmitRechecks(r)

-----------------------------------------------------------------------------
Next ==
    \/ \E c \in Controllers : StartTrafficWriter(c) \/ StopTrafficWriter(c)
    \/ \E g \in Gens : runTrafficWriter(g)
    \/ \E r \in Requests : SubmitCalls(r) \/ SubmitProceeds(r)

Spec == Init /\ [][Next]_vars

\* Every goroutine keeps running: the Go scheduler is fair to runnable
\* goroutines, an applied function terminates, and a Go mutex in starvation
\* mode is handed to its longest waiter.  Nobody has to call Start, Stop or
\* submitTrafficWrite.
Fairness ==
    /\ \A c \in Controllers : WF_vars(StopProceeds(c))
    /\ \A g \in Gens : WF_vars(runTrafficWriter(g))
    /\ \A r \in Requests : WF_vars(SubmitProceeds(r))

FairSpec == Spec /\ Fairness

-----------------------------------------------------------------------------
(* Properties *)

\* Every variable keeps its type and no channel holds more than its capacity.
TypeOK ==
    /\ mu \in Requests \cup {None}
    /\ cur \in 0..MaxGen
    /\ gens \in 0..MaxGen
    /\ queue \in [Gens -> Seq(Requests)]
    /\ \A g \in Gens : Len(queue[g]) <= QueueSize
    /\ cancelled \in SUBSET Gens
    /\ writer \in [Gens -> WriterPc]
    /\ taken \in [Gens -> Requests \cup {None}]
    /\ pc \in [Requests -> Pc]
    /\ gen \in [Requests -> 0..MaxGen]
    /\ answer \in [Requests -> Outcome \cup {"none"}]
    /\ result \in [Requests -> Result]
    /\ applied \in [Requests -> Nat]
    /\ ctl \in [Controllers -> {"idle", "waitDone", "clear"}]
    /\ stopGen \in [Controllers -> 0..MaxGen]
    /\ lastCall \in [Controllers -> {"none", "start", "stop"}]

\* However Start and Stop calls interleave, two writer goroutines never run at
\* once: the writes they serialise can never overlap each other.
AtMostOneWriter ==
    \A g, h \in Gens :
        (writer[g] \notin {"none", "exited"} /\ writer[h] \notin {"none", "exited"})
            => g = h

\* What submitTrafficWrite returns tells the truth: an outcome means the write
\* ran exactly once and it is that run's outcome; "queue full" means it did not
\* run and is not going to; the "stopped before write completed" error is never
\* returned, for a writer never exits with an accepted request left.
ResultMatchesWrite ==
    \A r \in Requests :
        /\ applied[r] <= 1
        /\ result[r] \in Outcome => applied[r] = 1 /\ result[r] = answer[r]
        /\ result[r] = "full" => applied[r] = 0
        /\ result[r] # "stopped"

\* Once a writer has closed done, and so before any StopTrafficWriter that
\* waits for it returns, every request it accepted has been applied.
StopDrainsAccepted ==
    \A r \in Requests :
        (pc[r] \in {"wait", "recheck"} /\ DoneClosed(gen[r])) => answer[r] # "none"

\* Once no lifecycle call is under way and every controller's last one was a
\* Start, there is a live writer, also after Start/Stop cycles (the SIGHUP
\* restart of the comment on StartTrafficWriter) and also when a Start
\* returned early because it met a writer that another Stop was draining.
StartLeavesLiveWriter ==
    (\A c \in Controllers : lastCall[c] = "start" /\ ctl[c] = "idle")
        => cur # 0 /\ cur \notin cancelled /\ ~DoneClosed(cur)

\* No call of submitTrafficWrite blocks for ever, whatever the controllers do.
EveryCallReturns ==
    \A r \in Requests : pc[r] = "lock" ~> pc[r] = "returned"

\* StopTrafficWriter returns: the writer it waits for drains and exits.
StopReturns ==
    \A c \in Controllers : ctl[c] = "waitDone" ~> ctl[c] = "idle"

\* The writer keeps the contract its callers rely on (WriteContract): a write
\* that is acknowledged was performed once, a refused one never is.
status == [r \in Requests |->
    CASE pc[r] = "idle" -> "idle"
      [] pc[r] # "idle" /\ applied[r] = 0 ->
            IF pc[r] = "returned" THEN "refused" ELSE "called"
      [] OTHER -> IF pc[r] = "returned" THEN "acked" ELSE "done"]

Contract == INSTANCE WriteContract WITH Requests <- Requests, status <- status

ImplementsContract == Contract!FairSpec
=============================================================================
