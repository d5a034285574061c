----------------------------- MODULE MCLetimer -----------------------------
(***************************************************************************)
(* Letimer at eight ticks a second, and LetimerClock on the same counter.  *)
(* WORD is scaled with the frequency: 2^32 for 8192 Hz is 2^22 for 8 Hz.   *)
(*                                                                         *)
(* A behaviour is of one of three kinds: interrupts are late by any time;  *)
(* or they are taken within a tick, and what is due must happen; or time   *)
(* stamps are taken while waits come to their ends.                        *)
(***************************************************************************)
EXTENDS Letimer

CONSTANT MaxPeriods

VARIABLES setting, milliseconds, reading, stamp, reloads, lost, read_at

MCWord  == 4194304
MCWaits == {250000, 625000, 1000000}
MCLive  == {250000, 625000}

Prompted == INSTANCE Letimer WITH Prompt <- TRUE, Waits <- MCLive
Clock == INSTANCE LetimerClock WITH UsesComp1 <- TRUE

clockVars == <<milliseconds, reading, stamp, reloads, lost, read_at>>
mcvars == <<vars, clockVars, setting>>

MCInit ==
  /\ Init
  /\ Clock!Init
  /\ setting \in {"late", "prompt", "clock"}

MCNext ==
  /\ \/ setting = "late" /\ Next /\ UNCHANGED clockVars
     \/ setting = "prompt" /\ Prompted!Next /\ UNCHANGED clockVars
     \/ /\ setting = "clock"
        /\ Clock!Next
        /\ UNCHANGED <<comp1, comp1_ien, pc, counterwait, irqVars, polledVars>>
  /\ UNCHANGED setting

(* The fairness of Letimer, for prompt interrupts.                         *)
Promptly(A) == setting = "prompt" /\ A /\ UNCHANGED <<clockVars, setting>>

MCFairness ==
  /\ WF_mcvars(Promptly(Prompted!Tick)) /\ WF_mcvars(Promptly(LETIMER0_IRQHandler))
  /\ WF_mcvars(Promptly(IntClear \/ CompareSet \/ IntEnable))
  /\ SF_mcvars(Promptly(EndPoll))

MCSpec == MCInit /\ [][MCNext]_mcvars /\ MCFairness
-----------------------------------------------------------------------------
\* Waits end when interrupts are taken within a tick: those for COMP1, and the
\* polled ones with a target above 0.
WaitsEndInTime == setting = "prompt" => WaitEnds /\ EndsUnlessAtZero

\* The periods of LetimerClock add up.
PeriodsAddUp == setting = "clock" => Clock!PeriodsAddUp

\* Time stamps are as close as LetimerClock says.
StampIsClose == setting = "clock" => Clock!StampIsClose
=============================================================================
