---------------------------- MODULE LetimerClock ----------------------------
(***************************************************************************)
(* The time stamps of the log: the count of periods that LETIMER0's        *)
(* handler keeps in milliseconds, and letimerMilliseconds (irq.c:72-81),   *)
(* which adds the counter to it.  Times are in ticks of the counter, a     *)
(* period counting as LETIMER_CTR_VAL of them, as in the code.             *)
(*                                                                         *)
(* Of COMP1, modelled in Letimer, it only matters here that its flag may   *)
(* come up with any tick while a wait is under way.                        *)
(***************************************************************************)
EXTENDS Integers

CONSTANTS LETIMER_CTR_VAL,
          UsesComp1,         \* timerWaitUs_irq is called: the server
          Prompt,            \* whether an interrupt is taken within a tick
          MaxPeriods         \* bound: reloads

VARIABLES
  cnt,           \* CNT
  uf_flag,       \* IF.UF
  comp1_flag,    \* IF.COMP1 and IEN.COMP1
  milliseconds,  \* the static count, in periods
  reading,       \* letimerMilliseconds: the counter it has read, or -1
  stamp,         \* the last time stamp
  reloads,       \* history: periods since the start
  lost,          \* history: underflows no one counted
  read_at        \* history: the time when the counter was read

timerVars == <<cnt, uf_flag, comp1_flag>>
stampVars == <<reading, stamp, read_at>>
vars == <<timerVars, milliseconds, stampVars, reloads, lost>>

\* The time since the start.
Now == reloads * LETIMER_CTR_VAL + (LETIMER_CTR_VAL - cnt)

Init ==
  /\ cnt = LETIMER_CTR_VAL
  /\ uf_flag = FALSE
  /\ comp1_flag = FALSE
  /\ milliseconds = 0
  /\ reading = -1
  /\ stamp = 0
  /\ reloads = 0
  /\ lost = 0
  /\ read_at = 0

Flags == (IF uf_flag THEN {"UF"} ELSE {}) \cup (IF comp1_flag THEN {"COMP1"} ELSE {})

\* The handler is never late by a whole period.
Tick ==
  /\ Prompt => Flags = {}
  /\ cnt = 0 => ~uf_flag /\ reloads < MaxPeriods
  /\ cnt' = IF cnt = 0 THEN LETIMER_CTR_VAL ELSE cnt - 1
  /\ uf_flag' = (uf_flag \/ cnt = 0)
  /\ comp1_flag' \in {comp1_flag, comp1_flag \/ UsesComp1}
  /\ reloads' = IF cnt = 0 THEN reloads + 1 ELSE reloads
  /\ UNCHANGED <<milliseconds, stampVars, lost>>

\* Faulty variant: the period is counted for every interrupt.
CountsAll == TRUE

\* The period is counted when the underflow comes by itself.
CountsPeriod == Flags = {"UF"}

LETIMER0_IRQHandler ==
  /\ Flags # {}
  /\ uf_flag' = FALSE
  /\ comp1_flag' = FALSE
  /\ milliseconds' = IF CountsPeriod THEN milliseconds + 1 ELSE milliseconds
  /\ lost' = IF uf_flag /\ Flags # {"UF"} THEN lost + 1 ELSE lost
  /\ UNCHANGED <<cnt, stampVars, reloads>>

\* letimerMilliseconds reads the counter ...
ReadCounter ==
  /\ reading = -1
  /\ reading' = cnt
  /\ read_at' = Now
  /\ UNCHANGED <<timerVars, milliseconds, stamp, reloads, lost>>

\* Faulty variant: the operands are swapped.
StampSwapped == milliseconds * LETIMER_CTR_VAL + (reading - LETIMER_CTR_VAL)

Stamp == milliseconds * LETIMER_CTR_VAL + (LETIMER_CTR_VAL - reading)

\* ... and then the periods.
ReadPeriods ==
  /\ reading # -1
  /\ reading' = -1
  /\ stamp' = Stamp
  /\ UNCHANGED <<timerVars, milliseconds, reloads, lost, read_at>>

Next == Tick \/ LETIMER0_IRQHandler \/ ReadCounter \/ ReadPeriods

Spec == Init /\ [][Next]_vars
-----------------------------------------------------------------------------
(* Properties.                                                             *)

\* Type invariant.
TypeOK ==
  /\ cnt \in 0 .. LETIMER_CTR_VAL
  /\ uf_flag \in BOOLEAN
  /\ comp1_flag \in BOOLEAN
  /\ milliseconds \in Nat
  /\ reading \in {-1} \cup (0 .. LETIMER_CTR_VAL)
  /\ stamp \in Nat
  /\ reloads \in 0 .. MaxPeriods
  /\ lost \in Nat
  /\ read_at \in Nat

\* Every period is counted, about to be counted, or lost to a COMP1 that came
\* together with the underflow (irq.c:53): nothing is counted twice.
PeriodsAddUp ==
  milliseconds + lost + (IF uf_flag THEN 1 ELSE 0) = reloads

\* "Returns the number of seconds since the system startup." (irq.h:24): a time
\* stamp is ahead by a period at most, when the underflow comes between
\* its two reads, and behind by the periods lost and the one pending.
StampIsClose ==
  reading # -1 =>
    /\ Stamp <= Now + LETIMER_CTR_VAL
    /\ Stamp >= read_at - (lost + 1) * LETIMER_CTR_VAL
=============================================================================
