------------------------------ MODULE MCCbfifo ------------------------------
(***************************************************************************)
(* A buffer of four slots and two items: the indices wrap, the buffer      *)
(* fills and drains at every offset, and slots hold stale items.           *)
(***************************************************************************)
EXTENDS Cbfifo

CONSTANTS a, b

MCItem == {a, b}
=============================================================================
