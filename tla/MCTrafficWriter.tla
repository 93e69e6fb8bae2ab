--------------------------- MODULE MCTrafficWriter ---------------------------
(* TLC instance of TrafficWriter: two submitters, two controllers. *)
EXTENDS TrafficWriter

CONSTANTS r1, r2, c1, c2

TwoRequests    == {r1, r2}
TwoControllers == {c1, c2}
=============================================================================
