---------------------------- MODULE MCIndications ----------------------------
(***************************************************************************)
(* Instances of Indications: the two characteristics, a queue of two, and  *)
(* enough values and connections to fill it, to drain it directly and by   *)
(* the timer, and to carry it over into a second connection.               *)
(*                                                                         *)
(* A behaviour is of one of two kinds: either all that Indications allows  *)
(* may happen; or the client leaves its subscriptions alone and is in time *)
(* with its confirmations, and what is due must happen.                    *)
(***************************************************************************)
EXTENDS Indications

CONSTANTS Light, Gesture

VARIABLE calm

MCChars == {Light, Gesture}

Calm == INSTANCE Indications WITH MayDisable <- FALSE, MayTimeout <- FALSE,
                                  MaxValues <- 3

MCInit == Init /\ calm \in BOOLEAN

MCNext ==
  /\ \/ ~calm /\ Next
     \/ calm /\ Calm!Next
  /\ UNCHANGED calm

MCSpec == MCInit /\ [][MCNext]_<<vars, calm>> /\ Fairness
-----------------------------------------------------------------------------
\* InFlightMeansPending, as long as no confirmation finds the descriptor
\* changed and none times out.
FlagWhenCalm == calm => InFlightMeansPending

\* QueueDrains, as long as the client confirms what it receives.
DrainsWhenCalm == calm => Calm!QueueDrains
=============================================================================
