----------------------------- MODULE MCPairing -----------------------------
(***************************************************************************)
(* The two devices with a second link and a second pairing.                *)
(*                                                                         *)
(* A behaviour is of one of two kinds: either links, pairings and devices  *)
(* fail; or nothing does, but other signals join those of the buttons.     *)
(***************************************************************************)
EXTENDS Pairing

VARIABLE undisturbed

Undisturbed == INSTANCE Pairing WITH
  MaxLinks <- 1, MaxAttempts <- 1, MaxResets <- 0,
  MayDrop <- FALSE, MayFail <- FALSE, MayMix <- TRUE

MCInit == Init /\ undisturbed \in BOOLEAN

MCNext ==
  /\ \/ ~undisturbed /\ Next
     \/ undisturbed /\ Undisturbed!Next
  /\ UNCHANGED undisturbed

mcvars == <<vars, undisturbed>>

(* The fairness of Pairing, for the behaviours in which nothing fails.     *)
Then(A) == undisturbed /\ A /\ UNCHANGED undisturbed

MCFairness ==
  /\ WF_mcvars(Then(Undisturbed!Connect)) /\ WF_mcvars(Then(Undisturbed!ReadRefused))
  /\ WF_mcvars(Then(Pair))
  /\ \A s \in Sides :
       /\ WF_mcvars(Then(Handle(s))) /\ WF_mcvars(Then(ExternalSignal(s)))
       /\ SF_mcvars(Then(signal[s] = {"PB0"} /\ ExternalSignal(s)))
       /\ SF_mcvars(Then(prompt[s] /\ signal[s] = {} /\ Undisturbed!PB0(s)))

MCSpec == MCInit /\ [][MCNext]_mcvars /\ MCFairness
-----------------------------------------------------------------------------
\* PairingSucceeds, when nothing fails.
SucceedsUndisturbed == undisturbed => PairingSucceeds
=============================================================================
