------------------------ MODULE TrafficWriterProofs ------------------------
(***************************************************************************)
(* Safety of the traffic writer for any set of requests and controllers,   *)
(* any queue size and any number of Start/Stop cycles.                     *)
(***************************************************************************)
EXTENDS TrafficWriter, TLAPS

\* Only the current generation can have a running writer; a writer that is
\* draining or gone was cancelled; a writer that is gone left an empty queue.
GenInv ==
    /\ cur <= gens
    /\ \A g \in Gens : g > gens <=> writer[g] = "none"
    /\ \A g \in Gens : g # cur => writer[g] \in {"none", "exited"}
    /\ \A g \in Gens : writer[g] \in {"drain", "drainApply", "exited"} => g \in cancelled
    /\ \A g \in Gens : writer[g] \in {"none", "exited"} => queue[g] = <<>>
    /\ \A g \in cancelled : writer[g] # "none"
    /\ \A g \in Gens : taken[g] = None <=> writer[g] \notin {"apply", "drainApply"}

\* Stop clears the state only for a writer that has exited.
CtlInv ==
    \A c \in Controllers :
        /\ ctl[c] \in {"waitDone", "clear"} => stopGen[c] \in Gens
        /\ ctl[c] = "clear" => DoneClosed(stopGen[c])

\* A submitter blocked on the channel holds twMu, so nobody can cancel or
\* replace the generation it is sending to.
LockInv ==
    /\ \A r \in Requests : pc[r] = "enqueue" =>
        mu = r /\ gen[r] = cur /\ cur # 0 /\ cur \notin cancelled
    /\ mu # None => pc[mu] = "enqueue"

\* A request is known to its queue and writer exactly while it is unanswered.
ReqInv ==
    \A r \in Requests :
        /\ pc[r] \in {"idle", "lock", "enqueue", "inline"} =>
            applied[r] = 0 /\ answer[r] = "none" /\ result[r] = "none"
        /\ pc[r] = "inlineDone" =>
            applied[r] = 1 /\ answer[r] # "none" /\ result[r] = "none"
        /\ pc[r] \in {"wait", "recheck"} =>
            /\ gen[r] \in Gens
            /\ writer[gen[r]] # "none"
            /\ result[r] = "none"
            /\ answer[r] # "none" => applied[r] = 1
            /\ answer[r] = "none" => applied[r] = 0
            /\ answer[r] = "none" =>
                \/ taken[gen[r]] = r
                \/ \E i \in 1..Len(queue[gen[r]]) : queue[gen[r]][i] = r
        /\ pc[r] = "recheck" => writer[gen[r]] = "exited"
        /\ pc[r] = "returned" =>
            \/ result[r] \in Outcome /\ applied[r] = 1 /\ result[r] = answer[r]
            \/ result[r] = "full" /\ applied[r] = 0 /\ answer[r] = "none"

\* What sits in a channel is an unanswered request of that generation, once.
QueueInv ==
    \A g \in Gens : \A i \in 1..Len(queue[g]) :
        /\ pc[queue[g][i]] = "wait"
        /\ gen[queue[g][i]] = g
        /\ answer[queue[g][i]] = "none"
        /\ taken[g] # queue[g][i]
        /\ \A j \in 1..Len(queue[g]) : queue[g][j] = queue[g][i] => i = j

\* What a writer is applying is an unanswered request of its generation.
TakenInv ==
    \A g \in Gens : taken[g] # None =>
        pc[taken[g]] = "wait" /\ gen[taken[g]] = g /\ answer[taken[g]] = "none"

IInv == TypeOK /\ GenInv /\ CtlInv /\ LockInv /\ ReqInv /\ QueueInv /\ TakenInv

-----------------------------------------------------------------------------
\* The types, and the capacity of the channel, are preserved by every step.
LEMMA TypeStep == TypeOK /\ [Next]_vars => TypeOK'
<1> SUFFICES ASSUME TypeOK, [Next]_vars PROVE TypeOK'
    OBVIOUS
<1> USE QueueAssumption, GenAssumption, NoneAssumption
        DEF TypeOK, Gens, Outcome, Pc, Result, WriterPc
<1>1. ASSUME NEW c \in Controllers, StartTrafficWriter(c) PROVE TypeOK'
    <2>1. CASE StartFindsWriter(c)
        BY <2>1 DEF StartFindsWriter, reqVars, genVars
    <2>2. CASE StartSpawns(c)
        BY <2>2 DEF StartSpawns, reqVars
    <2>3. QED BY <1>1, <2>1, <2>2 DEF StartTrafficWriter
<1>2. ASSUME NEW c \in Controllers, StopTrafficWriter(c) PROVE TypeOK'
    <2>1. CASE StopFindsNothing(c)
        BY <2>1 DEF StopFindsNothing, reqVars, genVars
    <2>2. CASE StopCancels(c)
        BY <2>2 DEF StopCancels, reqVars
    <2>3. CASE StopSeesDone(c)
        BY <2>3 DEF StopSeesDone, reqVars, genVars
    <2>4. CASE StopClears(c)
        BY <2>4 DEF StopClears, reqVars
    <2>5. QED BY <1>2, <2>1, <2>2, <2>3, <2>4 DEF StopTrafficWriter, StopProceeds
<1>3. ASSUME NEW g \in Gens, runTrafficWriter(g) PROVE TypeOK'
    <2>1. ASSUME NEW n \in WriterPc, TakeFrom(g, n) PROVE TypeOK'
        <3>1. /\ queue[g] \in Seq(Requests) /\ queue[g] # <<>>
              /\ Len(queue[g]) \in Nat /\ Len(queue[g]) <= QueueSize
            BY <2>1 DEF TakeFrom
        <3>2. /\ Head(queue[g]) \in Requests /\ Tail(queue[g]) \in Seq(Requests)
              /\ Len(Tail(queue[g])) <= QueueSize
            BY <3>1
        <3>3. queue' \in [Gens -> Seq(Requests)]
            BY <2>1, <3>2 DEF TakeFrom
        <3>4. \A h \in Gens : Len(queue'[h]) <= QueueSize
            BY <2>1, <3>2 DEF TakeFrom
        <3>5. taken' \in [Gens -> Requests \cup {None}]
            BY <2>1, <3>2 DEF TakeFrom
        <3>6. writer' \in [Gens -> WriterPc]
            BY <2>1 DEF TakeFrom
        <3>7. QED BY <2>1, <3>3, <3>4, <3>5, <3>6 DEF TakeFrom, reqVars, ctlVars
    <2>2. ASSUME NEW n \in WriterPc, ApplyTaken(g, n) PROVE TypeOK'
        <3>1. /\ taken' \in [Gens -> Requests \cup {None}]
              /\ writer' \in [Gens -> WriterPc]
            BY <2>2 DEF ApplyTaken
        <3>2. /\ applied' \in [Requests -> Nat]
              /\ answer' \in [Requests -> Outcome \cup {"none"}]
            <4>1. PICK o \in Outcome : Finish(taken[g], o)
                BY <2>2 DEF ApplyTaken
            <4>2. answer' \in [Requests -> Outcome \cup {"none"}]
                BY <4>1 DEF Finish
            <4>3. applied' \in [Requests -> Nat]
                <5>1. CASE taken[g] \in Requests
                    BY <4>1, <5>1 DEF Finish
                <5>2. CASE taken[g] \notin Requests
                    <6>1. applied' = applied
                        BY <4>1, <5>2, Zenon DEF Finish
                    <6>2. QED BY <6>1
                <5>3. QED BY <5>1, <5>2
            <4>4. QED BY <4>2, <4>3
        <3>3. QED BY <2>2, <3>1, <3>2 DEF ApplyTaken, ctlVars
    <2>3. CASE WriterTakes(g) \/ DrainTakes(g)
        BY <2>1, <2>3 DEF WriterTakes, DrainTakes
    <2>4. CASE WriterApplies(g) \/ DrainApplies(g)
        BY <2>2, <2>4 DEF WriterApplies, DrainApplies
    <2>5. CASE WriterCancelled(g) \/ DrainExits(g)
        BY <2>5 DEF WriterCancelled, DrainExits, reqVars, ctlVars
    <2>6. QED BY <1>3, <2>3, <2>4, <2>5 DEF runTrafficWriter
<1>4. ASSUME NEW r \in Requests, SubmitCalls(r) PROVE TypeOK'
    BY <1>4 DEF SubmitCalls, genVars, ctlVars
<1>5. ASSUME NEW r \in Requests, SubmitProceeds(r) PROVE TypeOK'
    <2>1. CASE SubmitGoesInline(r)
        BY <2>1 DEF SubmitGoesInline, genVars, ctlVars
    <2>2. CASE SubmitHoldsLock(r)
        BY <2>2 DEF SubmitHoldsLock, genVars, ctlVars
    <2>3. CASE SubmitEnqueues(r)
        <3>1. CASE gen[r] \in Gens
            <4>1. queue[gen[r]] \in Seq(Requests) /\ Len(queue[gen[r]]) < QueueSize
                BY <2>3, <3>1 DEF SubmitEnqueues
            <4>2. /\ Append(queue[gen[r]], r) \in Seq(Requests)
                  /\ Len(Append(queue[gen[r]], r)) <= QueueSize
                BY <4>1
            <4>3. queue' \in [Gens -> Seq(Requests)]
                BY <2>3, <3>1, <4>2 DEF SubmitEnqueues
            <4>4. \A h \in Gens : Len(queue'[h]) <= QueueSize
                BY <2>3, <3>1, <4>2 DEF SubmitEnqueues
            <4>5. QED BY <2>3, <4>3, <4>4 DEF SubmitEnqueues, ctlVars
        <3>2. CASE gen[r] \notin Gens
            <4>1. queue' = queue
                BY <2>3, <3>2 DEF SubmitEnqueues
            <4>2. QED BY <2>3, <4>1 DEF SubmitEnqueues, ctlVars
        <3>3. QED BY <3>1, <3>2
    <2>4. CASE SubmitTimesOut(r)
        BY <2>4 DEF SubmitTimesOut, genVars, ctlVars
    <2>5. CASE SubmitAppliesInline(r)
        BY <2>5 DEF SubmitAppliesInline, Finish, genVars, ctlVars
    <2>6. CASE SubmitGetsAnswer(r)
        BY <2>6 DEF SubmitGetsAnswer, genVars, ctlVars
    <2>7. CASE SubmitSeesDone(r)
        BY <2>7 DEF SubmitSeesDone, genVars, ctlVars
    <2>8. CASE SubmitRechecks(r)
        BY <2>8 DEF SubmitRechecks, genVars, ctlVars
    <2>9. QED BY <1>5, <2>1, <2>2, <2>3, <2>4, <2>5, <2>6, <2>7, <2>8
              DEF SubmitProceeds
<1>6. CASE UNCHANGED vars
    BY <1>6 DEF vars, reqVars, genVars, ctlVars
<1>7. QED BY <1>1, <1>2, <1>3, <1>4, <1>5, <1>6 DEF Next

\* TypeOK is an invariant of the traffic writer: in particular no channel ever
\* holds more than trafficWriterQueueSize requests.
THEOREM TypeCorrect == Spec => []TypeOK
<1>1. Init => TypeOK
    BY QueueAssumption, GenAssumption, NoneAssumption
       DEF Init, TypeOK, Gens, Outcome, Pc, Result, WriterPc
<1>2. QED BY <1>1, TypeStep, PTL DEF Spec

-----------------------------------------------------------------------------
\* Every lifecycle call preserves the inductive invariant.
LEMMA ControllerStep ==
    ASSUME IInv, TypeOK', NEW c \in Controllers,
           StartTrafficWriter(c) \/ StopTrafficWriter(c)
    PROVE  IInv'
<1> USE GenAssumption, NoneAssumption DEF IInv
<1>1. CASE StartFindsWriter(c)
    <2> USE <1>1 DEF StartFindsWriter, reqVars, genVars, DoneClosed
    <2>1. GenInv' BY DEF GenInv
    <2>2. CtlInv' BY DEF CtlInv
    <2>3. LockInv' BY DEF LockInv
    <2>4. ReqInv' BY DEF ReqInv
    <2>5. QueueInv' BY DEF QueueInv
    <2>6. TakenInv' BY DEF TakenInv
    <2>7. QED BY <2>1, <2>2, <2>3, <2>4, <2>5, <2>6
<1>2. CASE StartSpawns(c)
    <2> USE <1>2 DEF StartSpawns, reqVars, DoneClosed
    <2>a. /\ gens + 1 \in Gens
          /\ writer'[gens + 1] = "select"
          /\ \A g \in Gens : g # gens + 1 => writer'[g] = writer[g]
        BY DEF TypeOK, Gens
    <2>b. writer[gens + 1] = "none"
        BY <2>a DEF GenInv, TypeOK, Gens
    <2>c. \A g \in Gens : g # gens + 1 => (g > gens <=> g > gens + 1)
        BY DEF TypeOK, Gens
    <2>1. GenInv'
        <3>1. (cur <= gens)'
            BY DEF TypeOK
        <3>2. (\A g \in Gens : g > gens <=> writer[g] = "none")'
            <4>1. ASSUME NEW g \in Gens PROVE g > gens + 1 <=> writer'[g] = "none"
                <5>1. CASE g = gens + 1
                    BY <2>a, <5>1 DEF TypeOK, Gens
                <5>2. CASE g # gens + 1
                    BY <2>a, <2>c, <5>2 DEF GenInv
                <5>3. QED BY <5>1, <5>2
            <4>2. QED BY <4>1
        <3>3. (\A g \in Gens : g # cur => writer[g] \in {"none", "exited"})'
            <4>1. ASSUME NEW g \in Gens, g # gens + 1
                  PROVE  writer'[g] \in {"none", "exited"}
                <5>1. CASE g = cur
                    BY <2>a, <4>1, <5>1 DEF Gens
                <5>2. CASE g # cur
                    BY <2>a, <4>1, <5>2 DEF GenInv
                <5>3. QED BY <5>1, <5>2
            <4>2. QED BY <4>1
        <3>4. /\ (\A g \in Gens : writer[g] \in {"drain", "drainApply", "exited"}
                                    => g \in cancelled)'
              /\ (\A g \in Gens : writer[g] \in {"none", "exited"} => queue[g] = <<>>)'
              /\ (\A g \in cancelled : writer[g] # "none")'
            BY <2>a, <2>b DEF GenInv, TypeOK
        <3>5. (\A g \in Gens : taken[g] = None <=> writer[g] \notin {"apply", "drainApply"})'
            BY <2>a, <2>b DEF GenInv
        <3>6. QED BY <3>1, <3>2, <3>3, <3>4, <3>5 DEF GenInv
    <2>2. CtlInv'
        <3>1. ASSUME NEW d \in Controllers, ctl[d] = "clear"
              PROVE  stopGen[d] \in Gens /\ writer'[stopGen[d]] = "exited"
            BY <2>a, <2>b, <3>1 DEF CtlInv
        <3>2. QED BY <3>1 DEF CtlInv
    <2>3. LockInv' BY DEF LockInv
    <2>4. ReqInv'
        BY <2>a, <2>b DEF ReqInv
    <2>5. QueueInv' BY DEF QueueInv
    <2>6. TakenInv' BY DEF TakenInv
    <2>7. QED BY <2>1, <2>2, <2>3, <2>4, <2>5, <2>6
<1>3. CASE StopFindsNothing(c)
    <2> USE <1>3 DEF StopFindsNothing, reqVars, genVars, DoneClosed
    <2>1. GenInv' BY DEF GenInv, TypeOK, Gens
    <2>2. CtlInv' BY DEF CtlInv, TypeOK, Gens
    <2>3. LockInv' BY DEF LockInv
    <2>4. ReqInv' BY DEF ReqInv
    <2>5. QueueInv' BY DEF QueueInv
    <2>6. TakenInv' BY DEF TakenInv
    <2>7. QED BY <2>1, <2>2, <2>3, <2>4, <2>5, <2>6
<1>4. CASE StopCancels(c)
    <2> USE <1>4 DEF StopCancels, reqVars, DoneClosed
    <2>1. GenInv' BY DEF GenInv, TypeOK, Gens
    <2>2. CtlInv' BY DEF CtlInv, TypeOK, Gens
    <2>3. LockInv' BY DEF LockInv
    <2>4. ReqInv' BY DEF ReqInv
    <2>5. QueueInv' BY DEF QueueInv
    <2>6. TakenInv' BY DEF TakenInv
    <2>7. QED BY <2>1, <2>2, <2>3, <2>4, <2>5, <2>6
<1>5. CASE StopSeesDone(c)
    <2> USE <1>5 DEF StopSeesDone, reqVars, genVars, DoneClosed
    <2>1. GenInv' BY DEF GenInv, TypeOK, Gens
    <2>2. CtlInv' BY DEF CtlInv, TypeOK, Gens
    <2>3. LockInv' BY DEF LockInv
    <2>4. ReqInv' BY DEF ReqInv
    <2>5. QueueInv' BY DEF QueueInv
    <2>6. TakenInv' BY DEF TakenInv
    <2>7. QED BY <2>1, <2>2, <2>3, <2>4, <2>5, <2>6
<1>6. CASE StopClears(c)
    <2> USE <1>6 DEF StopClears, reqVars, DoneClosed
    <2>1. GenInv' BY DEF GenInv, TypeOK, Gens, CtlInv
    <2>2. CtlInv' BY DEF CtlInv, TypeOK, Gens
    <2>3. LockInv' BY DEF LockInv
    <2>4. ReqInv' BY DEF ReqInv
    <2>5. QueueInv' BY DEF QueueInv
    <2>6. TakenInv' BY DEF TakenInv
    <2>7. QED BY <2>1, <2>2, <2>3, <2>4, <2>5, <2>6
<1>7. QED BY <1>1, <1>2, <1>3, <1>4, <1>5, <1>6
          DEF StartTrafficWriter, StopTrafficWriter, StopProceeds

-----------------------------------------------------------------------------
\* Moving the head of a channel into the writer's hand preserves the invariant:
\* the request stays known to exactly one of the two.
LEMMA TakeStep ==
    ASSUME IInv, TypeOK', NEW g \in Gens, NEW next,
           \/ writer[g] = "select" /\ next = "apply"
           \/ writer[g] = "drain" /\ next = "drainApply",
           TakeFrom(g, next)
    PROVE  IInv'
<1> DEFINE r0 == Head(queue[g])
<1> USE NoneAssumption DEF IInv, TakeFrom, reqVars, ctlVars
<1>1. /\ queue[g] \in Seq(Requests) /\ queue[g] # <<>>
      /\ Len(queue[g]) \in Nat \ {0}
    BY DEF TypeOK
<1>2. /\ r0 \in Requests /\ r0 = queue[g][1] /\ 1 \in 1..Len(queue[g])
      /\ Len(Tail(queue[g])) = Len(queue[g]) - 1
      /\ \A i \in 1..Len(Tail(queue[g])) :
            i + 1 \in 1..Len(queue[g]) /\ Tail(queue[g])[i] = queue[g][i + 1]
      /\ \A i \in 1..Len(queue[g]) : i # 1 => i - 1 \in 1..Len(Tail(queue[g]))
    BY <1>1
<1>3. /\ queue'[g] = Tail(queue[g]) /\ taken'[g] = r0 /\ writer'[g] = next
      /\ \A h \in Gens : h # g => /\ queue'[h] = queue[h]
                                  /\ taken'[h] = taken[h]
                                  /\ writer'[h] = writer[h]
    BY DEF TypeOK
<1>4. pc[r0] = "wait" /\ gen[r0] = g /\ answer[r0] = "none"
    BY <1>2 DEF QueueInv
<1>5. GenInv'
    BY <1>2, <1>3 DEF GenInv
<1>6. CtlInv' /\ LockInv'
    BY <1>3 DEF CtlInv, LockInv, DoneClosed
<1>7. ReqInv'
    <2>1. ASSUME NEW r \in Requests, pc[r] \in {"wait", "recheck"}, answer[r] = "none"
          PROVE  \/ taken'[gen[r]] = r
                 \/ \E i \in 1..Len(queue'[gen[r]]) : queue'[gen[r]][i] = r
        <3>1. CASE gen[r] # g
            BY <1>3, <2>1, <3>1 DEF ReqInv
        <3>2. CASE gen[r] = g
            <4>1. taken[g] = None
                BY DEF GenInv
            <4>2. PICK i \in 1..Len(queue[g]) : queue[g][i] = r
                BY <2>1, <3>2, <4>1 DEF ReqInv
            <4>3. CASE i = 1
                BY <1>2, <1>3, <3>2, <4>2, <4>3
            <4>4. CASE i # 1
                <5>1. i - 1 \in 1..Len(Tail(queue[g])) /\ (i - 1) + 1 = i
                    BY <1>2, <4>4
                <5>2. Tail(queue[g])[i - 1] = r
                    BY <1>2, <4>2, <5>1
                <5>3. queue'[gen[r]] = Tail(queue[g])
                    BY <1>3, <3>2
                <5>4. QED BY <5>1, <5>2, <5>3
            <4>5. QED BY <4>3, <4>4
        <3>3. QED BY <3>1, <3>2
    <2>2. ASSUME NEW r \in Requests, gen[r] \in Gens
          PROVE  /\ writer[gen[r]] # "none" => writer'[gen[r]] # "none"
                 /\ writer[gen[r]] = "exited" => writer'[gen[r]] = "exited"
        BY <1>3, <2>2
    <2>3. QED BY <2>1, <2>2 DEF ReqInv
<1>8. QueueInv'
    <2>1. ASSUME NEW h \in Gens, NEW i \in 1..Len(queue'[h])
          PROVE  /\ pc[queue'[h][i]] = "wait"
                 /\ gen[queue'[h][i]] = h
                 /\ answer[queue'[h][i]] = "none"
                 /\ taken'[h] # queue'[h][i]
                 /\ \A j \in 1..Len(queue'[h]) : queue'[h][j] = queue'[h][i] => i = j
        <3>1. CASE h # g
            BY <1>3, <2>1, <3>1 DEF QueueInv
        <3>2. CASE h = g
            <4>1. i + 1 \in 1..Len(queue[g]) /\ queue'[g][i] = queue[g][i + 1]
                BY <1>2, <1>3, <3>2
            <4>2. i + 1 # 1 /\ i \in Int
                BY <1>1, <1>2, <1>3, <3>2
            <4>3. r0 # queue[g][i + 1]
                BY <1>2, <4>1, <4>2 DEF QueueInv
            <4>4. \A j \in 1..Len(queue'[g]) : queue'[g][j] = queue'[g][i] => i = j
                <5>1. ASSUME NEW j \in 1..Len(queue'[g]), queue'[g][j] = queue'[g][i]
                      PROVE  i = j
                    <6>1. j + 1 \in 1..Len(queue[g]) /\ queue'[g][j] = queue[g][j + 1]
                        BY <1>2, <1>3
                    <6>2. i + 1 = j + 1
                        BY <4>1, <5>1, <6>1 DEF QueueInv
                    <6>3. QED BY <4>2, <6>2
                <5>2. QED BY <5>1
            <4>5. QED BY <1>3, <3>2, <4>1, <4>3, <4>4 DEF QueueInv
        <3>3. QED BY <3>1, <3>2
    <2>2. QED BY <2>1 DEF QueueInv
<1>9. TakenInv'
    BY <1>2, <1>3, <1>4 DEF TakenInv
<1>10. QED BY <1>5, <1>6, <1>7, <1>8, <1>9

\* Applying the request in hand answers it, and only it.
LEMMA ApplyStep ==
    ASSUME IInv, TypeOK', NEW g \in Gens, NEW next,
           \/ writer[g] = "apply" /\ next = "select"
           \/ writer[g] = "drainApply" /\ next = "drain",
           ApplyTaken(g, next)
    PROVE  IInv'
<1> DEFINE r0 == taken[g]
<1> USE NoneAssumption DEF IInv, ApplyTaken, ctlVars
<1>1. /\ r0 \in Requests
      /\ pc[r0] = "wait" /\ gen[r0] = g /\ answer[r0] = "none" /\ applied[r0] = 0
    BY DEF GenInv, TakenInv, ReqInv, TypeOK
<1>2. /\ taken'[g] = None /\ writer'[g] = next
      /\ \A h \in Gens : h # g => taken'[h] = taken[h] /\ writer'[h] = writer[h]
    BY DEF TypeOK
<1>3. /\ answer'[r0] \in Outcome /\ applied'[r0] = 1
      /\ \A r \in Requests : r # r0 => answer'[r] = answer[r] /\ applied'[r] = applied[r]
    BY <1>1 DEF Finish, TypeOK
<1>4. answer'[r0] # "none"
    BY <1>3 DEF Outcome
<1>5. GenInv'
    BY <1>2 DEF GenInv
<1>6. CtlInv' /\ LockInv'
    BY <1>2 DEF CtlInv, LockInv, DoneClosed
<1>7. ReqInv'
    <2>1. ASSUME NEW r \in Requests, gen[r] \in Gens
          PROVE  /\ writer[gen[r]] # "none" => writer'[gen[r]] # "none"
                 /\ writer[gen[r]] = "exited" => writer'[gen[r]] = "exited"
                 /\ r # r0 /\ taken[gen[r]] = r => taken'[gen[r]] = r
        BY <1>2, <2>1
    <2>2. QED BY <1>1, <1>3, <1>4, <2>1 DEF ReqInv
<1>8. QueueInv'
    <2>1. ASSUME NEW h \in Gens, NEW i \in 1..Len(queue[h])
          PROVE  queue[h][i] \in Requests /\ queue[h][i] # r0
        <3>1. queue[h] \in Seq(Requests)
            BY DEF TypeOK
        <3>2. queue[h][i] \in Requests
            BY <3>1
        <3>3. gen[queue[h][i]] = h /\ taken[h] # queue[h][i]
            BY DEF QueueInv
        <3>4. QED BY <1>1, <3>2, <3>3
    <2>2. ASSUME NEW h \in Gens, NEW i \in 1..Len(queue[h])
          PROVE  taken'[h] # queue[h][i]
        BY <1>2, <2>1 DEF QueueInv
    <2>3. QED BY <1>3, <2>1, <2>2 DEF QueueInv
<1>9. TakenInv'
    <2>1. ASSUME NEW h \in Gens, taken'[h] # None
          PROVE  h # g /\ taken'[h] = taken[h] /\ taken[h] \in Requests /\ taken[h] # r0
        BY <1>1, <1>2, <2>1 DEF TakenInv, TypeOK
    <2>2. QED BY <1>3, <2>1 DEF TakenInv
<1>10. QED BY <1>5, <1>6, <1>7, <1>8, <1>9

\* Every step of a writer goroutine preserves the inductive invariant.
LEMMA WriterStep ==
    ASSUME IInv, TypeOK', NEW g \in Gens, runTrafficWriter(g)
    PROVE  IInv'
<1>1. CASE WriterTakes(g) \/ DrainTakes(g)
    BY <1>1, TakeStep DEF WriterTakes, DrainTakes
<1>2. CASE WriterApplies(g) \/ DrainApplies(g)
    BY <1>2, ApplyStep DEF WriterApplies, DrainApplies
<1>3. CASE WriterCancelled(g) \/ DrainExits(g)
    <2> USE <1>3 DEF WriterCancelled, DrainExits, reqVars, ctlVars, IInv
    <2>1. /\ writer[g] \in {"select", "drain"} /\ writer'[g] \in {"drain", "exited"}
          /\ g \in cancelled /\ (writer'[g] = "exited" => queue[g] = <<>>)
          /\ \A h \in Gens : h # g => writer'[h] = writer[h]
        BY DEF TypeOK, GenInv
    <2>2. GenInv'
        <3>1. ASSUME NEW h \in Gens
              PROVE  /\ h > gens <=> writer'[h] = "none"
                     /\ h # cur => writer'[h] \in {"none", "exited"}
                     /\ writer'[h] \in {"drain", "drainApply", "exited"} => h \in cancelled
                     /\ writer'[h] \in {"none", "exited"} => queue[h] = <<>>
                     /\ h \in cancelled => writer'[h] # "none"
                     /\ taken[h] = None <=> writer'[h] \notin {"apply", "drainApply"}
            <4>1. CASE h = g
                BY <2>1, <4>1 DEF GenInv
            <4>2. CASE h # g
                BY <2>1, <4>2 DEF GenInv
            <4>3. QED BY <4>1, <4>2
        <3>2. QED BY <3>1 DEF GenInv, TypeOK
    <2>3. CtlInv'
        BY <2>1 DEF CtlInv, DoneClosed
    <2>4. LockInv'
        BY DEF LockInv
    <2>5. ReqInv'
        <3>1. ASSUME NEW r \in Requests, gen[r] \in Gens
              PROVE  /\ writer[gen[r]] # "none" => writer'[gen[r]] # "none"
                     /\ writer[gen[r]] = "exited" => writer'[gen[r]] = "exited"
            BY <2>1, <3>1
        <3>2. QED BY <3>1 DEF ReqInv
    <2>6. QueueInv' /\ TakenInv'
        BY DEF QueueInv, TakenInv
    <2>7. QED BY <2>2, <2>3, <2>4, <2>5, <2>6
<1>4. QED BY <1>1, <1>2, <1>3 DEF runTrafficWriter

-----------------------------------------------------------------------------
\* Every step of submitTrafficWrite preserves the inductive invariant.
LEMMA SubmitStep ==
    ASSUME IInv, TypeOK', NEW r \in Requests, SubmitCalls(r) \/ SubmitProceeds(r)
    PROVE  IInv'
<1> USE NoneAssumption DEF IInv, genVars, ctlVars
<1>q. ASSUME NEW g \in Gens, NEW i \in 1..Len(queue[g])
      PROVE  queue[g][i] \in Requests
    <2>1. queue[g] \in Seq(Requests)
        BY DEF TypeOK
    <2>2. QED BY <2>1
<1>1. CASE SubmitCalls(r) \/ SubmitGoesInline(r)
    <2> USE <1>1 DEF SubmitCalls, SubmitGoesInline
    <2>1. /\ pc[r] \in {"idle", "lock"} /\ pc'[r] \in {"lock", "inline"}
          /\ \A s \in Requests : s # r => pc'[s] = pc[s]
        BY DEF TypeOK
    <2>2. GenInv' /\ CtlInv'
        BY DEF GenInv, CtlInv, DoneClosed
    <2>3. LockInv'
        BY <2>1 DEF LockInv, TypeOK
    <2>4. ReqInv'
        BY <2>1 DEF ReqInv
    <2>5. QueueInv' /\ TakenInv'
        <3>1. ASSUME NEW g \in Gens, NEW i \in 1..Len(queue[g])
              PROVE  queue[g][i] \in Requests /\ queue[g][i] # r
            BY <1>q, <2>1 DEF QueueInv
        <3>2. ASSUME NEW g \in Gens, taken[g] # None
              PROVE  taken[g] \in Requests /\ taken[g] # r
            BY <2>1, <3>2 DEF TakenInv, TypeOK
        <3>3. QueueInv'
            BY <2>1, <3>1 DEF QueueInv
        <3>4. TakenInv'
            BY <2>1, <3>2 DEF TakenInv
        <3>5. QED BY <3>3, <3>4
    <2>6. QED BY <2>2, <2>3, <2>4, <2>5
<1>2. CASE SubmitHoldsLock(r)
    <2> USE <1>2 DEF SubmitHoldsLock
    <2>1. /\ pc[r] = "lock" /\ pc'[r] = "enqueue" /\ gen'[r] = cur
          /\ \A s \in Requests : s # r => pc'[s] = pc[s] /\ gen'[s] = gen[s]
        BY DEF TypeOK
    <2>2. GenInv' /\ CtlInv'
        BY DEF GenInv, CtlInv, DoneClosed
    <2>3. LockInv'
        BY <2>1 DEF LockInv
    <2>4. ReqInv'
        BY <2>1 DEF ReqInv
    <2>5. QueueInv' /\ TakenInv'
        BY <1>q, <2>1 DEF QueueInv, TakenInv, TypeOK
    <2>6. QED BY <2>2, <2>3, <2>4, <2>5
<1>3. CASE SubmitEnqueues(r)
    <2> USE <1>3 DEF SubmitEnqueues
    <2> DEFINE g == gen[r]
    <2>1. /\ pc[r] = "enqueue" /\ mu = r /\ g = cur /\ g \in Gens /\ g \notin cancelled
          /\ writer[g] \notin {"none", "exited"} /\ answer[r] = "none"
          /\ applied[r] = 0 /\ result[r] = "none"
        BY DEF LockInv, GenInv, ReqInv, TypeOK, Gens
    <2>2. /\ queue[g] \in Seq(Requests) /\ Len(queue[g]) \in Nat
          /\ Len(Append(queue[g], r)) = Len(queue[g]) + 1
          /\ \A i \in 1..Len(queue[g]) : Append(queue[g], r)[i] = queue[g][i]
          /\ Append(queue[g], r)[Len(queue[g]) + 1] = r
        BY <2>1 DEF TypeOK
    <2>3. /\ queue'[g] = Append(queue[g], r)
          /\ \A h \in Gens : h # g => queue'[h] = queue[h]
          /\ pc'[r] = "wait" /\ \A s \in Requests : s # r => pc'[s] = pc[s]
        BY <2>1 DEF TypeOK
    <2>4. GenInv'
        BY <2>1, <2>3 DEF GenInv
    <2>5. CtlInv'
        BY DEF CtlInv, DoneClosed
    <2>6. LockInv'
        BY <2>1, <2>3 DEF LockInv
    <2>7. ReqInv'
        <3>1. \E i \in 1..Len(queue'[g]) : queue'[g][i] = r
            <4>1. Len(queue[g]) + 1 \in 1..Len(queue'[g])
                BY <2>2, <2>3
            <4>2. QED BY <2>2, <2>3, <4>1
        <3>2. ASSUME NEW s \in Requests, NEW h \in Gens,
                     \E i \in 1..Len(queue[h]) : queue[h][i] = s
              PROVE  \E i \in 1..Len(queue'[h]) : queue'[h][i] = s
            BY <2>2, <2>3, <3>2
        <3>3. QED BY <2>1, <2>3, <3>1, <3>2 DEF ReqInv
    <2>8. QueueInv'
        <3>1. ASSUME NEW h \in Gens, NEW i \in 1..Len(queue'[h])
              PROVE  /\ pc'[queue'[h][i]] = "wait"
                     /\ gen[queue'[h][i]] = h
                     /\ answer[queue'[h][i]] = "none"
                     /\ taken[h] # queue'[h][i]
                     /\ \A j \in 1..Len(queue'[h]) : queue'[h][j] = queue'[h][i] => i = j
            <4>1. CASE h # g
                BY <1>q, <2>1, <2>3, <3>1, <4>1 DEF QueueInv
            <4>2. CASE h = g
                <5>1. \A j \in 1..Len(queue[g]) :
                        queue'[g][j] = queue[g][j] /\ queue[g][j] # r
                    BY <2>1, <2>2, <2>3 DEF QueueInv
                <5>2. queue'[g][Len(queue[g]) + 1] = r
                    BY <2>2, <2>3
                <5>3. \A j \in 1..Len(queue'[g]) :
                        j \in 1..Len(queue[g]) \/ j = Len(queue[g]) + 1
                    BY <2>2, <2>3
                <5>4. taken[g] # r
                    BY <2>1 DEF TakenInv
                <5>5. CASE i = Len(queue[g]) + 1
                    BY <2>1, <2>3, <4>2, <5>1, <5>2, <5>3, <5>4, <5>5
                <5>6. CASE i \in 1..Len(queue[g])
                    BY <1>q, <2>1, <2>3, <4>2, <5>1, <5>2, <5>3, <5>6 DEF QueueInv
                <5>7. QED BY <3>1, <4>2, <5>3, <5>5, <5>6
            <4>3. QED BY <4>1, <4>2
        <3>2. QED BY <3>1 DEF QueueInv
    <2>9. TakenInv'
        BY <2>1, <2>3 DEF TakenInv, TypeOK
    <2>10. QED BY <2>4, <2>5, <2>6, <2>7, <2>8, <2>9
<1>4. CASE SubmitTimesOut(r)
    <2> USE <1>4 DEF SubmitTimesOut
    <2>1. /\ pc[r] = "enqueue" /\ mu = r /\ pc'[r] = "returned" /\ result'[r] = "full"
          /\ \A s \in Requests : s # r => pc'[s] = pc[s] /\ result'[s] = result[s]
        BY DEF TypeOK, LockInv
    <2>2. GenInv' /\ CtlInv'
        BY DEF GenInv, CtlInv, DoneClosed
    <2>3. LockInv'
        BY <2>1 DEF LockInv
    <2>4. ReqInv'
        BY <2>1 DEF ReqInv
    <2>5. QueueInv' /\ TakenInv'
        BY <1>q, <2>1 DEF QueueInv, TakenInv, TypeOK
    <2>6. QED BY <2>2, <2>3, <2>4, <2>5
<1>5. CASE SubmitAppliesInline(r)
    <2> USE <1>5 DEF SubmitAppliesInline
    <2>1. /\ pc[r] = "inline" /\ pc'[r] = "inlineDone"
          /\ answer'[r] \in Outcome /\ applied'[r] = 1
          /\ \A s \in Requests : s # r => /\ pc'[s] = pc[s]
                                          /\ answer'[s] = answer[s]
                                          /\ applied'[s] = applied[s]
        BY DEF TypeOK, ReqInv, Finish
    <2>2. answer'[r] # "none"
        BY <2>1 DEF Outcome
    <2>3. GenInv' /\ CtlInv'
        BY DEF GenInv, CtlInv, DoneClosed
    <2>4. LockInv'
        BY <2>1 DEF LockInv, TypeOK
    <2>5. ReqInv'
        BY <2>1, <2>2 DEF ReqInv
    <2>6. QueueInv'
        <3>1. ASSUME NEW g \in Gens, NEW i \in 1..Len(queue[g])
              PROVE  queue[g][i] \in Requests /\ queue[g][i] # r
            BY <1>q, <2>1 DEF QueueInv
        <3> QED BY <2>1, <3>1 DEF QueueInv
    <2>7. TakenInv'
        BY <2>1 DEF TakenInv, TypeOK
    <2>8. QED BY <2>3, <2>4, <2>5, <2>6, <2>7
<1>6. CASE SubmitGetsAnswer(r) \/ SubmitRechecks(r)
    <2> USE <1>6 DEF SubmitGetsAnswer, SubmitRechecks
    <2>1. answer[r] # "none"
        BY DEF ReqInv, GenInv
    <2>2. /\ pc[r] \in {"inlineDone", "wait", "recheck"} /\ pc'[r] = "returned"
          /\ result'[r] = answer[r] /\ answer[r] \in Outcome
          /\ \A s \in Requests : s # r => pc'[s] = pc[s] /\ result'[s] = result[s]
        BY <2>1 DEF TypeOK
    <2>3. GenInv' /\ CtlInv'
        BY DEF GenInv, CtlInv, DoneClosed
    <2>4. LockInv'
        BY <2>2 DEF LockInv, TypeOK
    <2>5. ReqInv'
        BY <2>1, <2>2 DEF ReqInv
    <2>6. QueueInv' /\ TakenInv'
        <3>1. ASSUME NEW g \in Gens, NEW i \in 1..Len(queue[g])
              PROVE  queue[g][i] \in Requests /\ queue[g][i] # r
            BY <1>q, <2>1, <2>2 DEF QueueInv
        <3>2. ASSUME NEW g \in Gens, taken[g] # None
              PROVE  taken[g] \in Requests /\ taken[g] # r
            BY <2>1, <2>2, <3>2 DEF TakenInv, TypeOK
        <3>3. QueueInv'
            BY <2>1, <2>2, <3>1 DEF QueueInv
        <3>4. TakenInv'
            BY <2>1, <2>2, <3>2 DEF TakenInv
        <3>5. QED BY <3>3, <3>4
    <2>7. QED BY <2>3, <2>4, <2>5, <2>6
<1>7. CASE SubmitSeesDone(r)
    <2> USE <1>7 DEF SubmitSeesDone
    <2>1. /\ pc[r] = "wait" /\ pc'[r] = "recheck" /\ gen[r] \in Gens
          /\ writer[gen[r]] = "exited"
          /\ \A s \in Requests : s # r => pc'[s] = pc[s]
        BY DEF TypeOK, ReqInv, DoneClosed
    <2>2. queue[gen[r]] = <<>> /\ taken[gen[r]] = None
        BY <2>1 DEF GenInv
    <2>3. GenInv' /\ CtlInv'
        BY DEF GenInv, CtlInv, DoneClosed
    <2>4. LockInv'
        BY <2>1 DEF LockInv, TypeOK
    <2>5. ReqInv'
        BY <2>1 DEF ReqInv
    <2>6. QueueInv' /\ TakenInv'
        <3>1. ASSUME NEW g \in Gens, NEW i \in 1..Len(queue[g])
              PROVE  queue[g][i] \in Requests /\ queue[g][i] # r
            BY <1>q, <2>1, <2>2 DEF QueueInv
        <3>2. ASSUME NEW g \in Gens, taken[g] # None
              PROVE  taken[g] \in Requests /\ taken[g] # r
            BY <2>1, <2>2, <3>2 DEF TakenInv, TypeOK
        <3>3. QueueInv'
            BY <2>1, <2>2, <3>1 DEF QueueInv
        <3>4. TakenInv'
            BY <2>1, <2>2, <3>2 DEF TakenInv
        <3>5. QED BY <3>3, <3>4
    <2>7. QED BY <2>3, <2>4, <2>5, <2>6
<1>8. QED BY <1>1, <1>2, <1>3, <1>4, <1>5, <1>6, <1>7 DEF SubmitProceeds

-----------------------------------------------------------------------------
\* The conjunction is an inductive invariant of the specification.
THEOREM Invariance == Spec => []IInv
<1>1. Init => IInv
    <2>1. Init => TypeOK
        BY QueueAssumption, GenAssumption, NoneAssumption
           DEF Init, TypeOK, Gens, Outcome, Pc, Result, WriterPc
    <2>2. Init => GenInv /\ CtlInv /\ LockInv /\ ReqInv /\ QueueInv /\ TakenInv
        BY GenAssumption, NoneAssumption
           DEF Init, GenInv, CtlInv, LockInv, ReqInv, QueueInv, TakenInv, Gens
    <2>3. QED BY <2>1, <2>2 DEF IInv
<1>2. IInv /\ [Next]_vars => IInv'
    <2> SUFFICES ASSUME IInv, [Next]_vars PROVE IInv'
        OBVIOUS
    <2>1. TypeOK'
        BY TypeStep DEF IInv
    <2>2. CASE Next
        BY <2>1, <2>2, ControllerStep, WriterStep, SubmitStep DEF Next
    <2>3. CASE UNCHANGED vars
        BY <2>1, <2>3 DEF vars, reqVars, genVars, ctlVars, IInv, GenInv, CtlInv,
                          LockInv, ReqInv, QueueInv, TakenInv, DoneClosed
    <2>4. QED BY <2>2, <2>3
<1>3. QED BY <1>1, <1>2, PTL DEF Spec

\* Start and Stop calls, in any interleaving of any number of goroutines, never
\* let two runTrafficWriter goroutines run at once.
THEOREM WritersNeverOverlap == Spec => []AtMostOneWriter
<1>1. IInv => AtMostOneWriter
    BY DEF IInv, GenInv, AtMostOneWriter
<1>2. QED BY <1>1, Invariance, PTL

\* The value submitTrafficWrite returns is truthful: an outcome stands for one
\* run of the write, "queue full" for none, and the error "traffic writer
\* stopped before write completed" is unreachable.
THEOREM ResultsAreTruthful == Spec => []ResultMatchesWrite
<1>1. IInv => ResultMatchesWrite
    <2> SUFFICES ASSUME IInv, NEW r \in Requests
                 PROVE  /\ applied[r] <= 1
                        /\ result[r] \in Outcome => applied[r] = 1 /\ result[r] = answer[r]
                        /\ result[r] = "full" => applied[r] = 0
                        /\ result[r] # "stopped"
        BY DEF ResultMatchesWrite
    <2>1. pc[r] \in Pc
        BY DEF IInv, TypeOK
    <2>2. QED BY <2>1 DEF IInv, ReqInv, Pc, Outcome
<1>2. QED BY <1>1, Invariance, PTL

\* A writer that has closed its done channel has applied every request that was
\* ever accepted for it, so nothing is lost by StopTrafficWriter.
THEOREM StopLosesNothing == Spec => []StopDrainsAccepted
<1>1. IInv => StopDrainsAccepted
    <2> SUFFICES ASSUME IInv, NEW r \in Requests, pc[r] \in {"wait", "recheck"},
                        DoneClosed(gen[r]), answer[r] = "none"
                 PROVE  FALSE
        BY DEF StopDrainsAccepted
    <2>1. gen[r] \in Gens /\ writer[gen[r]] = "exited"
        BY DEF IInv, ReqInv, DoneClosed
    <2>2. queue[gen[r]] = <<>> /\ taken[gen[r]] = None
        BY <2>1 DEF IInv, GenInv
    <2>3. QED BY <2>2, NoneAssumption DEF IInv, ReqInv
<1>2. QED BY <1>1, Invariance, PTL

-----------------------------------------------------------------------------
\* A cancelled current generation is in the hands of a Stop that has not
\* returned, and with no state at all some controller's last call is no Start.
LiveInv ==
    /\ cur \in cancelled => \E c \in Controllers : ctl[c] # "idle" /\ stopGen[c] = cur
    /\ cur = 0 => \E c \in Controllers : lastCall[c] # "start"

\* A Stop is the only step that cancels and, when it clears the state, leaves
\* its own mark; a Start is the only other one that changes the state.
LEMMA LiveStep == IInv /\ IInv' /\ LiveInv /\ [Next]_vars => LiveInv'
<1> SUFFICES ASSUME IInv, IInv', LiveInv, [Next]_vars PROVE LiveInv'
    OBVIOUS
<1> USE GenAssumption DEF LiveInv
<1>0. TypeOK /\ GenInv /\ CtlInv /\ TypeOK' /\ GenInv'
    BY DEF IInv
<1>1. ASSUME NEW c \in Controllers, StartTrafficWriter(c) PROVE LiveInv'
    <2>1. CASE StartFindsWriter(c)
        BY <2>1 DEF StartFindsWriter, genVars
    <2>2. CASE StartSpawns(c)
        <3>1. cur' = gens + 1 /\ gens + 1 \in Gens /\ cancelled' = cancelled
            BY <1>0, <2>2 DEF StartSpawns, TypeOK, Gens
        <3>2. writer[gens + 1] = "none"
            BY <1>0, <3>1 DEF GenInv, TypeOK, Gens
        <3>3. gens + 1 \notin cancelled
            BY <1>0, <3>2 DEF GenInv
        <3>4. cur' # 0
            BY <3>1 DEF Gens
        <3>5. QED BY <3>1, <3>3, <3>4
    <2>3. QED BY <1>1, <2>1, <2>2 DEF StartTrafficWriter
<1>2. ASSUME NEW c \in Controllers, StopTrafficWriter(c) PROVE LiveInv'
    <2>1. CASE StopFindsNothing(c)
        BY <1>0, <2>1 DEF StopFindsNothing, genVars, TypeOK
    <2>2. CASE StopCancels(c)
        BY <1>0, <2>2 DEF StopCancels, TypeOK
    <2>3. CASE StopSeesDone(c)
        BY <1>0, <2>3 DEF StopSeesDone, genVars, TypeOK
    <2>4. CASE StopClears(c)
        <3>1. CASE cur = stopGen[c]
            <4>1. cur' = 0 /\ lastCall'[c] = "stop"
                BY <1>0, <2>4, <3>1 DEF StopClears, TypeOK
            <4>2. 0 \notin cancelled'
                BY <1>0 DEF TypeOK, Gens
            <4>3. QED BY <4>1, <4>2
        <3>2. CASE cur # stopGen[c]
            BY <1>0, <2>4, <3>2 DEF StopClears, TypeOK
        <3>3. QED BY <3>1, <3>2
    <2>5. QED BY <1>2, <2>1, <2>2, <2>3, <2>4 DEF StopTrafficWriter, StopProceeds
<1>3. ASSUME NEW g \in Gens, runTrafficWriter(g) PROVE LiveInv'
    BY <1>3 DEF runTrafficWriter, WriterTakes, WriterApplies, WriterCancelled, DrainTakes,
                DrainApplies, DrainExits, TakeFrom, ApplyTaken, ctlVars
<1>4. ASSUME NEW r \in Requests, SubmitCalls(r) \/ SubmitProceeds(r) PROVE LiveInv'
    BY <1>4 DEF SubmitCalls, SubmitProceeds, SubmitGoesInline, SubmitHoldsLock,
                SubmitEnqueues, SubmitTimesOut, SubmitAppliesInline, SubmitGetsAnswer,
                SubmitSeesDone, SubmitRechecks, genVars, ctlVars
<1>5. CASE UNCHANGED vars
    BY <1>5 DEF vars, genVars, ctlVars
<1>6. QED BY <1>1, <1>2, <1>3, <1>4, <1>5 DEF Next

\* With any number of controllers that start and stop the writer in any order,
\* once all of them have returned and each called Start last there is a writer
\* that is neither cancelled nor gone. A Start that found a writer that a Stop was
\* about to end is no exception: that Stop's caller has still to call Start.
THEOREM StartsLeaveLiveWriter ==
    ASSUME Controllers # {}
    PROVE  Spec => []StartLeavesLiveWriter
<1>1. Init => LiveInv
    BY DEF Init, LiveInv
<1>2. IInv /\ LiveInv => StartLeavesLiveWriter
    <2> SUFFICES ASSUME IInv, LiveInv,
                        \A c \in Controllers : lastCall[c] = "start" /\ ctl[c] = "idle"
                 PROVE  cur # 0 /\ cur \notin cancelled /\ ~DoneClosed(cur)
        BY DEF StartLeavesLiveWriter
    <2>1. cur # 0 /\ cur \notin cancelled
        BY DEF LiveInv
    <2>2. cur \in Gens
        BY <2>1, GenAssumption DEF IInv, TypeOK, Gens
    <2>3. QED BY <2>1, <2>2 DEF IInv, GenInv, DoneClosed
<1>3. QED BY <1>1, <1>2, LiveStep, Invariance, PTL DEF Spec

-----------------------------------------------------------------------------
(* The safety part of the refinement of WriteContract *)

\* What the contract sees of a request is decided by pc and applied.
StatusOf(r) ==
    IF pc[r] = "idle" THEN "idle"
    ELSE IF applied[r] = 0 THEN IF pc[r] = "returned" THEN "refused" ELSE "called"
    ELSE IF pc[r] = "returned" THEN "acked" ELSE "done"

LEMMA StatusIs ==
    /\ status = [r \in Requests |-> StatusOf(r)]
    /\ status' = [r \in Requests |-> StatusOf(r)']
<1>1. status = [r \in Requests |-> StatusOf(r)]
    BY Zenon DEF status, StatusOf
<1>2. status' = [r \in Requests |-> StatusOf(r)']
    BY Zenon DEF status, StatusOf
<1>3. QED BY <1>1, <1>2

\* A step that moves one request from one status to another is that move of the
\* contract.
LEMMA StatusMoves ==
    ASSUME NEW r \in Requests, NEW from, NEW to,
           StatusOf(r) = from, StatusOf(r)' = to,
           \A q \in Requests \ {r} : StatusOf(q)' = StatusOf(q)
    PROVE  Contract!Move(r, from, to)
<1>1. status' = [status EXCEPT ![r] = to]
    BY StatusIs
<1>2. QED BY <1>1, StatusIs DEF Contract!Move

\* Running a request's function is the contract's Perform: it is in a writer's
\* hand or in its caller's, and has not run before.
LEMMA FinishPerforms ==
    ASSUME IInv, NEW r \in Requests, pc[r] \in {"wait", "inline"}, applied[r] = 0,
           \E o \in Outcome : Finish(r, o),
           pc' = pc \/ (pc[r] = "inline" /\ pc' = [pc EXCEPT ![r] = "inlineDone"])
    PROVE  Contract!Perform(r)
<1>1. applied' = [applied EXCEPT ![r] = 1]
    BY DEF Finish, IInv, TypeOK
<1>2. applied'[r] = 1 /\ \A q \in Requests \ {r} : applied'[q] = applied[q]
    BY <1>1 DEF IInv, TypeOK
<1>3. pc'[r] \in {"wait", "inline", "inlineDone"} /\ \A q \in Requests \ {r} : pc'[q] = pc[q]
    BY DEF IInv, TypeOK
<1>4. QED
    BY <1>2, <1>3, StatusMoves DEF StatusOf, Contract!Perform

\* Every step of the traffic writer is a step of the contract or leaves the
\* status of all requests alone.
LEMMA ContractStep == IInv /\ [Next]_vars => [Contract!Next]_status
<1> SUFFICES ASSUME IInv, [Next]_vars PROVE [Contract!Next]_status
    OBVIOUS
<1>0. TypeOK /\ ReqInv /\ TakenInv /\ GenInv
    BY DEF IInv
<1>a. pc' = pc /\ applied' = applied => UNCHANGED status
    BY StatusIs DEF StatusOf
<1>b. ASSUME NEW r \in Requests, Contract!Call(r) \/ Contract!Answer(r)
      PROVE  [Contract!Next]_status
    BY <1>b DEF Contract!Next
<1>1. ASSUME NEW c \in Controllers, StartTrafficWriter(c) \/ StopTrafficWriter(c)
      PROVE  [Contract!Next]_status
    BY <1>1, <1>a DEF StartTrafficWriter, StartFindsWriter, StartSpawns, StopTrafficWriter,
                      StopFindsNothing, StopCancels, StopProceeds, StopSeesDone, StopClears, reqVars
<1>2. ASSUME NEW g \in Gens, runTrafficWriter(g) PROVE [Contract!Next]_status
    <2>1. CASE WriterApplies(g) \/ DrainApplies(g)
        <3>1. taken[g] # None /\ taken[g] \in Requests
            BY <1>0, <2>1 DEF GenInv, WriterApplies, DrainApplies, TypeOK
        <3>2. pc[taken[g]] = "wait" /\ applied[taken[g]] = 0
            BY <1>0, <3>1 DEF TakenInv, ReqInv
        <3>3. (\E o \in Outcome : Finish(taken[g], o)) /\ pc' = pc
            BY <2>1 DEF WriterApplies, DrainApplies, ApplyTaken
        <3>4. Contract!Perform(taken[g])
            BY <3>1, <3>2, <3>3, FinishPerforms
        <3>5. QED BY <1>b, <3>1, <3>4 DEF Contract!Answer
    <2>2. CASE WriterTakes(g) \/ WriterCancelled(g) \/ DrainTakes(g) \/ DrainExits(g)
        BY <2>2, <1>a DEF WriterTakes, WriterCancelled, DrainTakes, DrainExits, TakeFrom, reqVars
    <2>3. QED BY <1>2, <2>1, <2>2 DEF runTrafficWriter
<1>3. ASSUME NEW r \in Requests, SubmitCalls(r) \/ SubmitProceeds(r)
      PROVE  [Contract!Next]_status
    <2>1. CASE SubmitCalls(r)
        <3>1. StatusOf(r) = "idle" /\ StatusOf(r)' = "called"
            BY <1>0, <2>1 DEF SubmitCalls, StatusOf, ReqInv, TypeOK
        <3>2. \A q \in Requests \ {r} : StatusOf(q)' = StatusOf(q)
            BY <1>0, <2>1 DEF SubmitCalls, StatusOf, TypeOK
        <3>3. QED BY <1>b, <3>1, <3>2, StatusMoves DEF Contract!Call
    <2>2. CASE SubmitGoesInline(r) \/ SubmitHoldsLock(r) \/ SubmitEnqueues(r) \/ SubmitSeesDone(r)
        <3>1. \A q \in Requests : StatusOf(q)' = StatusOf(q)
            BY <1>0, <2>2 DEF SubmitGoesInline, SubmitHoldsLock, SubmitEnqueues, SubmitSeesDone,
                              StatusOf, TypeOK
        <3>2. QED BY <3>1, StatusIs
    <2>3. CASE SubmitTimesOut(r)
        <3>1. StatusOf(r) = "called" /\ StatusOf(r)' = "refused"
            BY <1>0, <2>3 DEF SubmitTimesOut, StatusOf, ReqInv, TypeOK
        <3>2. \A q \in Requests \ {r} : StatusOf(q)' = StatusOf(q)
            BY <1>0, <2>3 DEF SubmitTimesOut, StatusOf, TypeOK
        <3>3. QED BY <1>b, <3>1, <3>2, StatusMoves DEF Contract!Answer, Contract!Refuse
    <2>4. CASE SubmitAppliesInline(r)
        <3>1. Contract!Perform(r)
            BY <1>0, <2>4, FinishPerforms DEF SubmitAppliesInline, ReqInv
        <3>2. QED BY <1>b, <3>1 DEF Contract!Answer
    <2>5. CASE SubmitGetsAnswer(r) \/ SubmitRechecks(r)
        <3>1. pc[r] \in {"inlineDone", "wait", "recheck"} /\ pc' = [pc EXCEPT ![r] = "returned"]
              /\ applied' = applied
            BY <2>5 DEF SubmitGetsAnswer, SubmitRechecks
        <3>2. answer[r] # "none"
            <4>1. CASE SubmitGetsAnswer(r)
                BY <4>1 DEF SubmitGetsAnswer
            <4>2. CASE SubmitRechecks(r)
                <5>1. pc[r] = "recheck" /\ gen[r] \in Gens /\ writer[gen[r]] = "exited"
                    BY <1>0, <4>2 DEF SubmitRechecks, ReqInv
                <5>2. queue[gen[r]] = <<>> /\ taken[gen[r]] = None
                    BY <1>0, <5>1 DEF GenInv
                <5>3. QED BY <1>0, <5>1, <5>2, NoneAssumption DEF ReqInv
            <4>3. QED BY <2>5, <4>1, <4>2
        <3>3. applied[r] = 1
            BY <1>0, <3>1, <3>2 DEF ReqInv
        <3>4. StatusOf(r) = "done" /\ StatusOf(r)' = "acked"
            BY <1>0, <3>1, <3>3 DEF StatusOf, TypeOK
        <3>5. \A q \in Requests \ {r} : StatusOf(q)' = StatusOf(q)
            BY <1>0, <3>1 DEF StatusOf, TypeOK
        <3>6. QED BY <1>b, <3>4, <3>5, StatusMoves DEF Contract!Answer, Contract!Ack
    <2>6. QED BY <1>3, <2>1, <2>2, <2>3, <2>4, <2>5 DEF SubmitProceeds
<1>4. CASE UNCHANGED vars
    BY <1>4, <1>a DEF vars, reqVars
<1>5. QED BY <1>1, <1>2, <1>3, <1>4 DEF Next

\* The traffic writer implements the contract of its callers as far as safety
\* goes: whatever queue, lock and Start/Stop cycles do, each write is seen to be
\* called, performed at most once and then acknowledged, or refused and never
\* performed.
THEOREM WriterImplementsContract == Spec => Contract!Spec
<1>1. Init => Contract!Init
    BY StatusIs DEF Init, StatusOf, Contract!Init
<1>2. QED BY <1>1, ContractStep, Invariance, PTL DEF Spec, Contract!Spec
=============================================================================
