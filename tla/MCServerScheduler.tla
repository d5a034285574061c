------------------------- MODULE MCServerScheduler -------------------------
(***************************************************************************)
(* ServerScheduler with one reading on each side of the threshold.         *)
(*                                                                         *)
(* A behaviour is of one of two kinds: either the main loop may be late by *)
(* any time and PB0 is pressed; or the loop keeps up with the timer, but   *)
(* CNT may pass the old COMP1 while the new one is set.                    *)
(***************************************************************************)
EXTENDS ServerScheduler

VARIABLE keeps_up

MCReadings == {50, 51}

InTime == INSTANCE ServerScheduler WITH MayPress <- FALSE, Prompt <- TRUE,
                                        MayMatchOld <- TRUE

MCInit == Init /\ keeps_up \in BOOLEAN

MCNext ==
  /\ \/ ~keeps_up /\ Next
     \/ keeps_up /\ InTime!Next
  /\ UNCHANGED keeps_up

MCSpec == MCInit /\ [][MCNext]_<<vars, keeps_up>> /\ InTime!Fairness
-----------------------------------------------------------------------------
\* SettledBeforeConversion, as long as no old COMP1 is matched.
SettledUnlessOld == keeps_up \/ SettledBeforeConversion

\* StopsOnlyInVain, when the loop keeps up.
StopsInVainInTime == keeps_up => StopsOnlyInVain
=============================================================================
