------------------------------ MODULE MCClient ------------------------------
(* Client with one light value on each side of the threshold, a gesture    *)
(* that turns the page and one (DIR_NEAR) that does not.                   *)
EXTENDS Client

MCReadings == {49, 50}
MCGestures == {1, 5}
=============================================================================
