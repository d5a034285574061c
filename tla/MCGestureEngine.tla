-------------------------- MODULE MCGestureEngine --------------------------
(***************************************************************************)
(* GestureEngine with a few shapes of batches, and GestureSetup with two   *)
(* failures anywhere and three calls after the sensor was set up.          *)
(*                                                                         *)
(* A behaviour is of one of two kinds: the sensor is set up and switched,  *)
(* or it is read.                                                          *)
(***************************************************************************)
EXTENDS GestureEngine

CONSTANTS MaxFails, MaxCalls

VARIABLES sets_up, enable, plain, fields, call, steps, setup_result, calls, fails, clean

Even   == Sample(50, 50, 50, 50)
Tilted == Sample(55, 45, 55, 45)    \* 10 on both axes
Slant  == Sample(90, 30, 99, 15)    \* 50 up against down, 73 left against right
Half   == Sample(0, 0, 50, 50)      \* loud on one axis alone, and level

Batch(n, first, last) == [i \in 1 .. n |-> IF i = 1 THEN first ELSE last]

MCBatches ==
  {Batch(5, Even, Even), Batch(5, Even, Tilted), Batch(5, Slant, Half),
   Batch(4, Slant, Half)}

Setup == INSTANCE GestureSetup WITH result <- setup_result

setupVars == <<enable, plain, fields, call, steps, setup_result, calls, fails, clean>>

MCInit ==
  /\ Init
  /\ sets_up \in BOOLEAN
  /\ Setup!Init
  /\ ~sets_up => enable = {} /\ fields = Setup!Zeros

MCNext ==
  /\ \/ ~sets_up /\ Next /\ UNCHANGED setupVars
     \/ sets_up /\ Setup!Next /\ UNCHANGED vars
  /\ UNCHANGED sets_up

MCSpec == MCInit /\ [][MCNext]_<<vars, setupVars, sets_up>>
-----------------------------------------------------------------------------
\* No stray feature is turned on (GestureSetup).
EnableIsSane == Setup!EnableIsSane

\* A call without a failure leaves the sensor as asked (GestureSetup).
SensorAsAsked == Setup!SensorAsAsked
=============================================================================
