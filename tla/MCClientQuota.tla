---------------------------- MODULE MCClientQuota ----------------------------
(* The plans of the TLC instances of ClientQuota. *)
EXTENDS ClientQuota

\* A quota of one unit of traffic; a delayed start of one unit of time with
\* automatic renewal; a client switched off.
Quota   == [enable |-> TRUE,  total |-> 1, expiry |-> 0,  reset |-> 0]
Delayed == [enable |-> TRUE,  total |-> 0, expiry |-> -1, reset |-> 1]
Off     == [enable |-> FALSE, total |-> 1, expiry |-> 0,  reset |-> 0]
ThreePlans == {Quota, Delayed, Off}
=============================================================================
