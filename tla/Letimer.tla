------------------------------ MODULE Letimer ------------------------------
(***************************************************************************)
(* LETIMER0 and the two waits of src/src/timers.c that are built on it:    *)
(* timerWaitUs_irq, which sets COMP1 and lets the interrupt of irq.c tell  *)
(* of its end, and timerWaitUs_polled, which spins on the counter.         *)
(*                                                                         *)
(* The counter runs down from LETIMER_CTR_VAL to 0 and is reloaded by the  *)
(* next tick.  The main loop is in one call at a time, and both the timer  *)
(* and the interrupt handler go on between any two of its accesses to the  *)
(* registers.                                                              *)
(***************************************************************************)
EXTENDS Integers

CONSTANTS LETIMER_PERIOD_MS,
          ACTUAL_CLOCK_FREQ,
          WORD,              \* 2^32, or less where the frequency is scaled
          Waits,             \* the waits asked for, in microseconds
          Prompt,            \* whether an interrupt is taken within a tick
          Snug               \* whether clearing and setting COMP1 share a tick

MICROSECOND     == 1000000
UINT_CALC_MAX   == 500000
LETIMER_CTR_VAL == (LETIMER_PERIOD_MS * ACTUAL_CLOCK_FREQ) \div 1000

\* The callers ask for whole milliseconds; nothing else is rounded away.
ASSUME TimerAssumption ==
  /\ LETIMER_PERIOD_MS \in Nat \ {0}
  /\ ACTUAL_CLOCK_FREQ \in Nat \ {0}
  /\ WORD \in Nat
  /\ UINT_CALC_MAX * ACTUAL_CLOCK_FREQ < WORD
  /\ LETIMER_PERIOD_MS * ACTUAL_CLOCK_FREQ < WORD
  /\ LETIMER_CTR_VAL > 0
ASSUME WaitsAssumption ==
  \A us \in Waits : us \in Nat \ {0} /\ us % 1000 = 0
ASSUME FlagAssumption == Prompt \in BOOLEAN /\ Snug \in BOOLEAN

VARIABLES
  cnt,           \* CNT
  comp1,         \* COMP1
  uf_flag,       \* IF.UF
  comp1_flag,    \* IF.COMP1
  comp1_ien,     \* IEN.COMP1; IEN.UF is always set
  pc,            \* where the main loop is in a call
  counterwait,   \* of the call the main loop is in
  irq_us,        \* us_wait of the last timerWaitUs_irq
  irq_ticks,     \* history: ticks since it read the counter
  polled_us,     \* us_wait of the last timerWaitUs_polled
  polled_from,   \* history: the counter it read
  polled_ticks   \* history: ticks since then

timerVars  == <<cnt, comp1, uf_flag, comp1_flag, comp1_ien>>
irqVars    == <<irq_us, irq_ticks>>
polledVars == <<polled_us, polled_from, polled_ticks>>
vars == <<timerVars, pc, counterwait, irqVars, polledVars>>

\* Bound of the histories: more than any wait asks for.
MaxTicks == LETIMER_CTR_VAL + 1
Later(ticks) == IF ticks < MaxTicks THEN ticks + 1 ELSE ticks
-----------------------------------------------------------------------------
(* The arithmetic both waits have in common.                               *)

\* us_wait after the two range checks.
InRange(us) ==
  IF us <= MICROSECOND \div ACTUAL_CLOCK_FREQ THEN 0
  ELSE IF us >= LETIMER_PERIOD_MS * 1000 THEN LETIMER_PERIOD_MS * 1000
  ELSE us

\* Faulty variant: large waits are multiplied first.
reqcounterWraps(us) ==
  ((InRange(us) * ACTUAL_CLOCK_FREQ) % WORD) \div MICROSECOND

reqcounter(us) ==
  IF InRange(us) > UINT_CALC_MAX
  THEN (((InRange(us) \div 1000) * ACTUAL_CLOCK_FREQ) % WORD) \div 1000
  ELSE ((InRange(us) * ACTUAL_CLOCK_FREQ) % WORD) \div MICROSECOND

\* Faulty variant: no check for the rollover; counterwait is a uint16_t.
CounterwaitWraps(counterval, req) == (counterval - req) % 65536

\* The value of CNT to wait for.
Counterwait(counterval, req) ==
  IF counterval >= req THEN counterval - req
  ELSE LETIMER_CTR_VAL - (req - counterval)

\* What the caller means: the ticks of the time asked for, a period at most.
Asked(us) == (InRange(us) * ACTUAL_CLOCK_FREQ) \div MICROSECOND
-----------------------------------------------------------------------------
(* LETIMER0Init sets CNT and COMP0; COMP1 is 0 out of reset.               *)
Init ==
  /\ cnt = LETIMER_CTR_VAL
  /\ comp1 = 0
  /\ uf_flag = FALSE
  /\ comp1_flag = FALSE
  /\ comp1_ien = FALSE
  /\ pc = "idle"
  /\ counterwait = 0
  /\ irq_us = 0
  /\ irq_ticks = 0
  /\ polled_us = 0
  /\ polled_from = 0
  /\ polled_ticks = 0

\* LETIMER_IntGetEnabled
Flags == (IF uf_flag THEN {"UF"} ELSE {})
           \cup (IF comp1_flag /\ comp1_ien THEN {"COMP1"} ELSE {})

Tick ==
  /\ Prompt => Flags = {}
  /\ Snug => pc # "set"
  /\ cnt' = IF cnt = 0 THEN LETIMER_CTR_VAL ELSE cnt - 1
  /\ uf_flag' = (uf_flag \/ cnt = 0)
  /\ comp1_flag' = (comp1_flag \/ cnt' = comp1)
  /\ irq_ticks' = Later(irq_ticks)
  /\ polled_ticks' = Later(polled_ticks)
  /\ UNCHANGED <<comp1, comp1_ien, pc, counterwait, irq_us, polled_us, polled_from>>

\* Flags are cleared whether or not they are acted upon.  COMP1 by itself
\* ends the wait: its interrupt is disabled and the scheduler told.
LETIMER0_IRQHandler ==
  /\ Flags # {}
  /\ uf_flag' = FALSE
  /\ comp1_flag' = (comp1_flag /\ "COMP1" \notin Flags)
  /\ comp1_ien' = (comp1_ien /\ Flags # {"COMP1"})
  /\ UNCHANGED <<cnt, comp1, pc, counterwait, irqVars, polledVars>>
-----------------------------------------------------------------------------
(* timerWaitUs_irq.  Its caller does not call it again before COMP1 came.  *)

BeginWait(us) ==
  /\ pc = "idle"
  /\ ~comp1_ien
  /\ pc' = "clear"
  /\ counterwait' = Counterwait(cnt, reqcounter(us))
  /\ irq_us' = us
  /\ irq_ticks' = 0
  /\ UNCHANGED <<timerVars, polledVars>>

\* Faulty variant: what COMP1 flagged before is kept.
IntClearNothing ==
  /\ pc = "clear"
  /\ pc' = "set"
  /\ UNCHANGED <<timerVars, counterwait, irqVars, polledVars>>

IntClear ==
  /\ pc = "clear"
  /\ pc' = "set"
  /\ comp1_flag' = FALSE
  /\ UNCHANGED <<cnt, comp1, uf_flag, comp1_ien, counterwait, irqVars, polledVars>>

CompareSet ==
  /\ pc = "set"
  /\ pc' = "enable"
  /\ comp1' = counterwait
  /\ UNCHANGED <<cnt, uf_flag, comp1_flag, comp1_ien, counterwait, irqVars, polledVars>>

IntEnable ==
  /\ pc = "enable"
  /\ pc' = "idle"
  /\ comp1_ien' = TRUE
  /\ UNCHANGED <<cnt, comp1, uf_flag, comp1_flag, counterwait, irqVars, polledVars>>

(* timerWaitUs_polled: counterwait is left when the counter is below it.   *)

BeginPoll(us) ==
  /\ pc = "idle"
  /\ pc' = "polling"
  /\ counterwait' = Counterwait(cnt, reqcounter(us))
  /\ polled_us' = us
  /\ polled_from' = cnt
  /\ polled_ticks' = 0
  /\ UNCHANGED <<timerVars, irqVars>>

\* Faulty variant: one tick more, to be safe.
PollIsOverLater == pc = "polling" /\ cnt + 1 < counterwait

PollIsOver == pc = "polling" /\ cnt < counterwait

EndPoll ==
  /\ PollIsOver
  /\ pc' = "idle"
  /\ UNCHANGED <<timerVars, counterwait, irqVars, polledVars>>

MainLoop ==
  \/ \E us \in Waits : BeginWait(us) \/ BeginPoll(us)
  \/ IntClear \/ CompareSet \/ IntEnable \/ EndPoll

Next == Tick \/ LETIMER0_IRQHandler \/ MainLoop

Spec == Init /\ [][Next]_vars

(* The timer runs, its interrupt is taken, a call goes on.  The polling    *)
(* loop reads the counter many times in each tick.                         *)
Fairness ==
  /\ WF_vars(Tick) /\ WF_vars(LETIMER0_IRQHandler)
  /\ WF_vars(IntClear \/ CompareSet \/ IntEnable)
  /\ SF_vars(EndPoll)

FairSpec == Spec /\ Fairness
-----------------------------------------------------------------------------
(* Properties.                                                             *)

\* Type invariant.
TypeOK ==
  /\ cnt \in 0 .. LETIMER_CTR_VAL
  /\ comp1 \in 0 .. LETIMER_CTR_VAL
  /\ uf_flag \in BOOLEAN
  /\ comp1_flag \in BOOLEAN
  /\ comp1_ien \in BOOLEAN
  /\ pc \in {"idle", "clear", "set", "enable", "polling"}
  /\ counterwait \in 0 .. LETIMER_CTR_VAL
  /\ irq_us \in Waits \cup {0}
  /\ irq_ticks \in 0 .. MaxTicks
  /\ polled_us \in Waits \cup {0}
  /\ polled_from \in 0 .. LETIMER_CTR_VAL
  /\ polled_ticks \in 0 .. MaxTicks

\* COMP1 does not tell of the end of a wait before the time asked for has
\* passed, wherever the counter stood, also across a reload and whatever the
\* interrupt handler does in between (timers.c:69-111).
WaitIsLongEnough ==
  comp1_ien /\ comp1_flag => irq_ticks >= Asked(irq_us)

\* A wait for COMP1 comes to its end, also when the handler throws away a
\* COMP1 that coincides with an underflow (irq.c:53-69).
WaitEnds == comp1_ien ~> ~comp1_ien

\* "Has upper and lower limit checks and a timer rollover check as well."
\* (timers.h:49-51): a polled wait is cut short by a reload on its way, which
\* its loop does not expect, and by nothing else.
ShortOnlyAcrossReload ==
  PollIsOver /\ polled_ticks < Asked(polled_us) => polled_from < reqcounter(polled_us)

\* The polled wait ends unless it waits for a counter below 0, as it does when
\* it is called with the counter at the number of ticks asked for.
EndsUnlessAtZero == pc = "polling" /\ counterwait # 0 ~> pc = "idle"
=============================================================================
