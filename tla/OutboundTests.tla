--------------------------- MODULE OutboundTests ---------------------------
(***************************************************************************)
(* Testing outbounds from the Xray page (hooks/useXraySetting.ts): one     *)
(* outbound, or all of them in two lanes, a wide one for TCP probes and a  *)
(* single one for probes that need a core of their own.  Results are kept  *)
(* by the INDEX of the outbound, and the list can change meanwhile.        *)
(***************************************************************************)
EXTENDS Integers, Sequences, FiniteSets, SequencesExt

CONSTANTS
    Lanes,         \* TCP probes at once (8 in the code)
    MaxListEdits

VARIABLES
    list,       \* outbounds in the template: [name, udp]
    states,     \* outboundTestStates: index -> [testing, of]; of is the outbound probed
    queues,     \* [tcp, http]: what testAllOutbounds has not started, [index, out]
    probing,    \* probes at the server: [index, out, lane]
    testingAll, listEdits

testVars == <<list, states, queues, probing, testingAll, listEdits>>

Ob(n, udp) == [name |-> n, udp |-> udp]
NoOb == Ob("none", FALSE)
Untested == [testing |-> FALSE, of |-> NoOb]
Initially == <<Ob("a", FALSE), Ob("blocked", FALSE), Ob("c", TRUE), Ob("b", FALSE)>>
Size == Len(Initially)

Init ==
    /\ list = Initially
    /\ states = [i \in 1 .. Size |-> Untested]
    /\ queues = [tcp |-> <<>>, http |-> <<>>]
    /\ probing = {} /\ testingAll = FALSE /\ listEdits = 0

Start(i, o, lane) ==
    /\ states' = [states EXCEPT ![i] = [testing |-> TRUE, of |-> NoOb]]
    /\ probing' = probing \cup {[index |-> i, out |-> o, lane |-> lane]}

\* The button of one row, which is busy while that row is tested
TestOne(i) ==
    /\ i \in DOMAIN list /\ ~states[i].testing /\ list[i].name # "blocked"
    /\ Start(i, list[i], "single")
    /\ UNCHANGED <<list, queues, testingAll, listEdits>>

\* What testAllOutbounds probes, at its index in the template
Testable == SelectSeq([i \in DOMAIN list |-> [index |-> i, out |-> list[i]]], LAMBDA x : x.out.name # "blocked")

\* testAllOutbounds in TCP mode: what needs UDP goes to the single lane
TestAll ==
    /\ list # <<>> /\ ~testingAll
    /\ testingAll' = TRUE
    /\ queues' = [tcp |-> SelectSeq(Testable, LAMBDA x : ~x.out.udp), http |-> SelectSeq(Testable, LAMBDA x : x.out.udp)]
    /\ UNCHANGED <<list, states, probing, listEdits>>

InLane(lane) == Cardinality({p \in probing : p.lane = lane})

\* A worker of the lane takes the next item
NextItem(lane) ==
    /\ testingAll /\ queues[lane] # <<>>
    /\ InLane(lane) < (IF lane = "tcp" THEN Lanes ELSE 1)
    /\ LET item == Head(queues[lane]) IN Start(item.index, item.out, lane)
    /\ queues' = [queues EXCEPT ![lane] = Tail(@)]
    /\ UNCHANGED <<list, testingAll, listEdits>>

\* A verdict, good or bad, lands at the index it was asked for
ProbeReturns(p) ==
    /\ p \in probing /\ probing' = probing \ {p}
    /\ states' = [states EXCEPT ![p.index] = [testing |-> FALSE, of |-> p.out]]
    /\ UNCHANGED <<list, queues, testingAll, listEdits>>

\* Both lanes are drained
AllDone ==
    /\ testingAll /\ queues.tcp = <<>> /\ queues.http = <<>> /\ InLane("tcp") = 0 /\ InLane("http") = 0
    /\ testingAll' = FALSE
    /\ UNCHANGED <<list, states, queues, probing, listEdits>>

\* The table moves a row; results stay where they were
MoveRow(i) ==
    /\ i \in DOMAIN list /\ i < Len(list) /\ listEdits < MaxListEdits /\ listEdits' = listEdits + 1
    /\ list' = [list EXCEPT ![i] = list[i + 1], ![i + 1] = list[i]]
    /\ UNCHANGED <<states, queues, probing, testingAll>>

Next ==
    \/ \E i \in 1 .. Size : TestOne(i) \/ MoveRow(i)
    \/ TestAll \/ AllDone
    \/ \E lane \in {"tcp", "http"} : NextItem(lane)
    \/ \E p \in probing : ProbeReturns(p)

Spec == Init /\ [][Next]_testVars

-----------------------------------------------------------------------------
TypeOK ==
    /\ \A p \in probing : p.index \in 1 .. Size /\ p.lane \in {"tcp", "http", "single"}
    /\ \A i \in 1 .. Size : states[i].testing \in BOOLEAN

\* Never more than one probe of the single lane, nor more than the lane is
\* wide, runs for testAllOutbounds, also when it is pressed twice.
LanesBounded == InLane("http") <= 1 /\ InLane("tcp") <= Lanes

\* A row shows the verdict of another outbound only after the list changed.
VerdictIsOfRow ==
    listEdits = 0 => \A i \in 1 .. Size : states[i].of \in {NoOb, list[i]}

\* A row marked as being tested has a probe on its way.
BusyHasProbe == \A i \in 1 .. Size : states[i].testing => \E p \in probing : p.index = i
=============================================================================
