--------------------------- MODULE LetimerProofs ---------------------------
(***************************************************************************)
(* What Letimer promises for every frequency and period of the timer: the  *)
(* arithmetic of the waits stays within the counter, an interrupt-driven   *)
(* wait is long enough, and a polled one is short across a reload only;    *)
(* and what LetimerClock promises for every period: none is forgotten, and *)
(* a time stamp is as close as the lost ones let it be.                    *)
(***************************************************************************)
EXTENDS MCLetimer, TLAPS

\* A product grows with its factor.
LEMMA ProductGrows ==
  ASSUME NEW a \in Nat, NEW b \in Nat, NEW c \in Nat, a <= b
  PROVE  a * c <= b * c
<1>1. PICK d \in Nat : b = a + d
  BY b - a \in Nat
<1>2. d * c \in Nat
  OBVIOUS
<1>3. b * c = a * c + d * c
  BY <1>1
<1> QED
  BY <1>2, <1>3

\* The top of the counter is a natural number.
LEMMA TopType == LETIMER_CTR_VAL \in Nat \ {0}
<1>1. LETIMER_PERIOD_MS * ACTUAL_CLOCK_FREQ \in Nat
  BY TimerAssumption
<1> QED
  BY <1>1, TimerAssumption DEF LETIMER_CTR_VAL

\* A wait that passed the range checks is no longer than a period, and still
\* in whole milliseconds.
LEMMA RangeChecked ==
  ASSUME NEW us \in Waits \cup {0}
  PROVE  /\ InRange(us) \in Nat
         /\ InRange(us) <= 1000 * LETIMER_PERIOD_MS
         /\ InRange(us) % 1000 = 0
<1>1. us \in Nat /\ us % 1000 = 0
  BY WaitsAssumption
<1>2. LETIMER_PERIOD_MS \in Nat
  BY TimerAssumption
<1> QED
  BY <1>1, <1>2 DEF InRange

\* Neither branch of the calculation overflows, both compute the ticks of the
\* time asked for, and these are a period's at most.
LEMMA ReqCounter ==
  ASSUME NEW us \in Waits \cup {0}
  PROVE  /\ reqcounter(us) = Asked(us)
         /\ reqcounter(us) \in 0 .. LETIMER_CTR_VAL
<1> DEFINE w == InRange(us)
           f == ACTUAL_CLOCK_FREQ
           p == LETIMER_PERIOD_MS
           k == w \div 1000
<1>1. f \in Nat /\ p \in Nat /\ WORD \in Nat /\ UINT_CALC_MAX * f < WORD /\ p * f < WORD
  BY TimerAssumption
<1>2. w \in Nat /\ w <= 1000 * p /\ w % 1000 = 0
  BY RangeChecked
<1>3. k \in Nat /\ w = 1000 * k /\ k <= p
  <2> HIDE DEF w
  <2> QED
    BY <1>1, <1>2
<1> HIDE DEF k, w, f, p
<1>4. k * f \in Nat /\ p * f \in Nat /\ k * f <= p * f
  BY <1>1, <1>3, ProductGrows
<1>5. w * f = 1000 * (k * f)
  BY <1>1, <1>3
<1>6. (w * f) \div MICROSECOND = (k * f) \div 1000
  BY <1>4, <1>5 DEF MICROSECOND
<1>7. (k * f) \div 1000 \in Nat /\ (k * f) \div 1000 <= (p * f) \div 1000
  BY <1>4
<1>8. CASE w > UINT_CALC_MAX
  <2>1. (k * f) % WORD = k * f
    BY <1>1, <1>4
  <2> QED
    BY <2>1, <1>6, <1>7, <1>8 DEF reqcounter, Asked, LETIMER_CTR_VAL, k, w, f, p
<1>9. CASE ~(w > UINT_CALC_MAX)
  <2>1. w * f <= UINT_CALC_MAX * f
    BY <1>1, <1>2, <1>9, ProductGrows DEF UINT_CALC_MAX
  <2>2. w * f \in Nat
    BY <1>4, <1>5
  <2>3. (w * f) % WORD = w * f
    BY <1>1, <2>1, <2>2 DEF UINT_CALC_MAX
  <2> QED
    BY <2>3, <1>6, <1>7, <1>9 DEF reqcounter, Asked, LETIMER_CTR_VAL, w, f, p
<1> QED
  BY <1>8, <1>9

\* The value waited for is one the counter takes.
LEMMA CounterwaitType ==
  ASSUME NEW us \in Waits, NEW c \in 0 .. LETIMER_CTR_VAL
  PROVE  Counterwait(c, reqcounter(us)) \in 0 .. LETIMER_CTR_VAL
BY TopType, ReqCounter DEF Counterwait
-----------------------------------------------------------------------------
(* Types.                                                                  *)

\* Every value stays in its range (timers.c:69-149, irq.c:43-70).
THEOREM TypeCorrect == Spec => []TypeOK
<1> USE TopType
<1>1. Init => TypeOK
  <2> SUFFICES ASSUME Init PROVE TypeOK
    OBVIOUS
  <2>1. uf_flag \in BOOLEAN /\ comp1_flag \in BOOLEAN /\ comp1_ien \in BOOLEAN
    BY Zenon DEF Init
  <2> QED
    BY <2>1 DEF Init, TypeOK, MaxTicks
<1>2. TypeOK /\ [Next]_vars => TypeOK'
  <2> SUFFICES ASSUME TypeOK, [Next]_vars PROVE TypeOK'
    OBVIOUS
  <2> USE DEF TypeOK, MaxTicks
  <2>1. CASE Tick
    <3>1. Later(irq_ticks) \in 0 .. MaxTicks /\ Later(polled_ticks) \in 0 .. MaxTicks
      BY DEF Later
    <3>2. cnt' \in 0 .. LETIMER_CTR_VAL
      BY <2>1 DEF Tick
    <3>3. uf_flag' \in BOOLEAN /\ comp1_flag' \in BOOLEAN
      BY <2>1 DEF Tick
    <3> QED
      BY <2>1, <3>1, <3>2, <3>3 DEF Tick
  <2>2. CASE LETIMER0_IRQHandler
    BY <2>2 DEF LETIMER0_IRQHandler, irqVars, polledVars
  <2>3. ASSUME NEW us \in Waits, BeginWait(us) PROVE TypeOK'
    BY <2>3, CounterwaitType DEF BeginWait, timerVars, polledVars
  <2>4. ASSUME NEW us \in Waits, BeginPoll(us) PROVE TypeOK'
    BY <2>4, CounterwaitType DEF BeginPoll, timerVars, irqVars
  <2>5. CASE IntClear
    BY <2>5 DEF IntClear, irqVars, polledVars
  <2>6. CASE CompareSet
    BY <2>6 DEF CompareSet, irqVars, polledVars
  <2>7. CASE IntEnable
    BY <2>7 DEF IntEnable, irqVars, polledVars
  <2>8. CASE EndPoll
    BY <2>8 DEF EndPoll, timerVars, irqVars, polledVars
  <2>9. CASE UNCHANGED vars
    BY <2>9 DEF vars, timerVars, irqVars, polledVars
  <2> QED
    BY <2>1, <2>2, <2>3, <2>4, <2>5, <2>6, <2>7, <2>8, <2>9 DEF Next, MainLoop
<1> QED
  BY <1>1, <1>2, PTL DEF Spec
-----------------------------------------------------------------------------
(* The wait for COMP1.                                                     *)

\* The ticks from c until the counter comes to t next.
Distance(c, t) == IF c > t THEN c - t ELSE c + LETIMER_CTR_VAL + 1 - t

\* COMP1, or what it is about to be set to.
Target == IF pc \in {"clear", "set"} THEN counterwait ELSE comp1

\* What passed and what is left of a wait add up to the time asked for; a
\* match with COMP1 means that it has passed.
WaitInv ==
  /\ irq_ticks + Distance(cnt, Target) >= Asked(irq_us)
  /\ comp1_flag /\ pc \notin {"clear", "set"} => irq_ticks >= Asked(irq_us)
  /\ pc = "set" => ~comp1_flag
  /\ comp1_ien => pc \notin {"clear", "set", "enable"}

\* A wait starts with the whole of its time before it, also across a reload.
LEMMA WaitStarts ==
  ASSUME NEW us \in Waits, NEW c \in 0 .. LETIMER_CTR_VAL
  PROVE  Distance(c, Counterwait(c, reqcounter(us))) >= Asked(us)
BY TopType, ReqCounter DEF Distance, Counterwait

\* A tick takes one off the distance, and starts a whole turn at its end.
LEMMA DistanceTicks ==
  ASSUME NEW c \in 0 .. LETIMER_CTR_VAL, NEW t \in 0 .. LETIMER_CTR_VAL,
         NEW d, d = IF c = 0 THEN LETIMER_CTR_VAL ELSE c - 1
  PROVE  /\ d # t => Distance(d, t) = Distance(c, t) - 1
         /\ d = t => Distance(c, t) = 1 /\ Distance(d, t) = LETIMER_CTR_VAL + 1
BY TopType DEF Distance

\* The interrupt that ends a wait never comes early, as long as no tick falls
\* between clearing COMP1's flag and setting COMP1 (timers.c:69-111).
THEOREM LongEnough == ASSUME Snug PROVE Spec => []WaitIsLongEnough
<1> USE TopType
<1>1. Init => WaitInv
  <2>1. Asked(0) = 0
    BY TimerAssumption DEF Asked, InRange, MICROSECOND
  <2> QED
    BY <2>1 DEF Init, WaitInv, Distance, Target
<1>2. TypeOK /\ WaitInv /\ [Next]_vars => WaitInv'
  <2> SUFFICES ASSUME TypeOK, WaitInv, [Next]_vars PROVE WaitInv'
    OBVIOUS
  <2>0. Asked(irq_us) \in 0 .. LETIMER_CTR_VAL
    BY ReqCounter DEF TypeOK
  <2>1. CASE Tick
    <3>1. Target \in 0 .. LETIMER_CTR_VAL /\ Target' = Target /\ irq_us' = irq_us
      BY <2>1 DEF Tick, Target, TypeOK
    <3>2. cnt' = IF cnt = 0 THEN LETIMER_CTR_VAL ELSE cnt - 1
      BY <2>1 DEF Tick
    <3>3. irq_ticks' = Later(irq_ticks) /\ pc' = pc /\ comp1' = comp1 /\ pc # "set"
      BY <2>1 DEF Tick
    <3>4. /\ cnt' # Target => Distance(cnt', Target) = Distance(cnt, Target) - 1
          /\ cnt' = Target => /\ Distance(cnt, Target) = 1
                              /\ Distance(cnt', Target) = LETIMER_CTR_VAL + 1
      BY <3>1, <3>2, DistanceTicks DEF TypeOK
    <3>5. Distance(cnt, Target) \in Int
      BY <3>1 DEF Distance, TypeOK
    <3>6. irq_ticks' \in Nat /\ (irq_ticks' = irq_ticks + 1 \/ irq_ticks' = MaxTicks)
      BY <3>3 DEF Later, TypeOK, MaxTicks
    <3>7. Distance(cnt', Target) >= 0
      BY <3>1, <3>2 DEF Distance, TypeOK
    <3>8. irq_ticks' + Distance(cnt', Target) >= Asked(irq_us)
      BY <2>0, <3>4, <3>5, <3>6, <3>7 DEF WaitInv, TypeOK, MaxTicks
    <3>9. (irq_ticks + Distance(cnt, Target) >= Asked(irq_us))'
      BY <3>1, <3>8 DEF Distance
    <3>10. (comp1_flag /\ pc \notin {"clear", "set"} => irq_ticks >= Asked(irq_us))'
      <4> SUFFICES ASSUME comp1_flag', pc \notin {"clear", "set"}
                   PROVE  irq_ticks' >= Asked(irq_us)
        BY <3>1, <3>3 DEF Asked
      <4>1. CASE comp1_flag
        BY <4>1, <2>0, <3>6 DEF WaitInv, TypeOK, MaxTicks
      <4>2. CASE cnt' = comp1
        <5>1. Target = comp1
          BY DEF Target
        <5> QED
          BY <4>2, <5>1, <2>0, <3>4, <3>6 DEF WaitInv, TypeOK, MaxTicks
      <4> QED
        BY <2>1, <4>1, <4>2 DEF Tick
    <3>11. (comp1_ien => pc \notin {"clear", "set", "enable"})'
      BY <2>1, <3>3 DEF Tick, WaitInv
    <3> QED
      BY <3>3, <3>9, <3>10, <3>11 DEF WaitInv
  <2>2. CASE LETIMER0_IRQHandler
    BY <2>2 DEF LETIMER0_IRQHandler, irqVars, polledVars, WaitInv, Target, Distance, Asked, TypeOK
  <2>3. ASSUME NEW us \in Waits, BeginWait(us) PROVE WaitInv'
    <3>1. Distance(cnt, Counterwait(cnt, reqcounter(us))) >= Asked(us)
      BY WaitStarts DEF TypeOK
    <3>2. Target' = Counterwait(cnt, reqcounter(us)) /\ cnt' = cnt
      BY <2>3 DEF BeginWait, Target, timerVars
    <3>3. irq_us' = us /\ irq_ticks' = 0 /\ pc' = "clear"
      BY <2>3 DEF BeginWait
    <3>4. Counterwait(cnt, reqcounter(us)) \in 0 .. LETIMER_CTR_VAL
      BY CounterwaitType DEF TypeOK
    <3>5. 0 + Distance(cnt, Counterwait(cnt, reqcounter(us)))
            = Distance(cnt, Counterwait(cnt, reqcounter(us)))
      BY <3>4 DEF Distance, TypeOK
    <3>6. comp1_ien' = FALSE
      BY <2>3 DEF BeginWait, timerVars, TypeOK
    <3> QED
      BY <3>1, <3>2, <3>3, <3>5, <3>6 DEF WaitInv, Distance, Target, Asked
  <2>4. ASSUME NEW us \in Waits, BeginPoll(us) PROVE WaitInv'
    <3>1. Target' = Target /\ cnt' = cnt /\ comp1_flag' = comp1_flag
      BY <2>4 DEF BeginPoll, Target, timerVars
    <3>2. irq_us' = irq_us /\ irq_ticks' = irq_ticks /\ pc = "idle" /\ pc' = "polling"
      BY <2>4 DEF BeginPoll, irqVars
    <3> QED
      BY <3>1, <3>2 DEF WaitInv
  <2>5. CASE IntClear
    BY <2>5 DEF IntClear, irqVars, polledVars, WaitInv, Target
  <2>6. CASE CompareSet
    BY <2>6 DEF CompareSet, irqVars, polledVars, WaitInv, Target
  <2>7. CASE IntEnable
    BY <2>7 DEF IntEnable, irqVars, polledVars, WaitInv, Target
  <2>8. CASE EndPoll
    BY <2>8 DEF EndPoll, PollIsOver, timerVars, irqVars, polledVars, WaitInv, Target
  <2>9. CASE UNCHANGED vars
    BY <2>9 DEF vars, timerVars, irqVars, polledVars, WaitInv, Target
  <2> QED
    BY <2>1, <2>2, <2>3, <2>4, <2>5, <2>6, <2>7, <2>8, <2>9 DEF Next, MainLoop
<1>3. WaitInv => WaitIsLongEnough
  BY DEF WaitInv, WaitIsLongEnough
<1> QED
  BY <1>1, <1>2, <1>3, TypeCorrect, PTL DEF Spec
-----------------------------------------------------------------------------
(* The polled wait.                                                        *)

\* While it polls, the counter falls short of where it was by no more than the
\* ticks that passed, and it waits for what it computed from there.
PollInv ==
  /\ cnt + polled_ticks >= polled_from
  /\ pc = "polling" => counterwait = Counterwait(polled_from, reqcounter(polled_us))

\* A polled wait that ends early is one whose way led across a reload
\* (timers.c:113-149).
THEOREM ShortAcrossReload == Spec => []ShortOnlyAcrossReload
<1> USE TopType
<1>1. Init => PollInv
  BY DEF Init, PollInv
<1>2. TypeOK /\ PollInv /\ [Next]_vars => PollInv'
  <2> SUFFICES ASSUME TypeOK, PollInv, [Next]_vars PROVE PollInv'
    OBVIOUS
  <2>1. CASE Tick
    <3>1. polled_ticks' \in Nat /\ (polled_ticks' = polled_ticks + 1 \/ polled_ticks' = MaxTicks)
      BY <2>1 DEF Tick, Later, TypeOK, MaxTicks
    <3>2. cnt' = LETIMER_CTR_VAL \/ (cnt > 0 /\ cnt' = cnt - 1)
      BY <2>1 DEF Tick, TypeOK
    <3>3. cnt' + polled_ticks' >= polled_from
      BY <3>1, <3>2 DEF PollInv, TypeOK, MaxTicks
    <3> QED
      BY <2>1, <3>3 DEF Tick, PollInv, Counterwait, reqcounter
  <2>2. CASE LETIMER0_IRQHandler
    BY <2>2 DEF LETIMER0_IRQHandler, irqVars, polledVars, PollInv
  <2>3. ASSUME NEW us \in Waits, BeginWait(us) PROVE PollInv'
    BY <2>3 DEF BeginWait, timerVars, polledVars, PollInv
  <2>4. ASSUME NEW us \in Waits, BeginPoll(us) PROVE PollInv'
    BY <2>4 DEF BeginPoll, timerVars, PollInv, TypeOK
  <2>5. CASE IntClear
    BY <2>5 DEF IntClear, polledVars, PollInv
  <2>6. CASE CompareSet
    BY <2>6 DEF CompareSet, polledVars, PollInv
  <2>7. CASE IntEnable
    BY <2>7 DEF IntEnable, polledVars, PollInv
  <2>8. CASE EndPoll
    BY <2>8 DEF EndPoll, timerVars, polledVars, PollInv
  <2>9. CASE UNCHANGED vars
    BY <2>9 DEF vars, timerVars, polledVars, PollInv
  <2> QED
    BY <2>1, <2>2, <2>3, <2>4, <2>5, <2>6, <2>7, <2>8, <2>9 DEF Next, MainLoop
<1>3. TypeOK /\ PollInv => ShortOnlyAcrossReload
  <2> SUFFICES ASSUME TypeOK, PollInv, PollIsOver, polled_from >= reqcounter(polled_us)
               PROVE  polled_ticks >= Asked(polled_us)
    BY ReqCounter DEF ShortOnlyAcrossReload, TypeOK
  <2>1. reqcounter(polled_us) = Asked(polled_us) /\ reqcounter(polled_us) \in Nat
    BY ReqCounter, TopType DEF TypeOK
  <2>2. counterwait = polled_from - reqcounter(polled_us)
    BY DEF PollInv, PollIsOver, Counterwait
  <2>3. cnt < counterwait
    BY DEF PollIsOver
  <2> QED
    BY <2>1, <2>2, <2>3 DEF PollInv, TypeOK
<1> QED
  BY <1>1, <1>2, <1>3, TypeCorrect, PTL DEF Spec
-----------------------------------------------------------------------------
(* The clock: what LetimerClock promises for every length and number of    *)
(* periods, stated of the behaviours of MCLetimer.                         *)

P == LETIMER_CTR_VAL

\* While letimerMilliseconds is under way, the counter was read in a period
\* that has passed or still runs.
ReadInv == reading # -1 => \E r \in 0 .. reloads : read_at = r * P + (P - reading)

ClockInv == Clock!TypeOK /\ Clock!PeriodsAddUp /\ ReadInv

\* Each step keeps the types and the sum of the periods.
LEMMA ClockTypeStep ==
  ASSUME P \in Nat \ {0}, MaxPeriods \in Nat, Clock!TypeOK, Clock!PeriodsAddUp, [Clock!Next]_Clock!vars
  PROVE  Clock!TypeOK' /\ Clock!PeriodsAddUp'
<1> USE DEF Clock!TypeOK, Clock!PeriodsAddUp, P
<1>1. CASE Clock!Tick
  <2>1. reloads' \in 0 .. MaxPeriods /\ cnt' \in 0 .. P
    <3>1. CASE cnt = 0
      BY <1>1, <3>1 DEF Clock!Tick
    <3>2. CASE cnt # 0
      BY <1>1, <3>2 DEF Clock!Tick
    <3> QED
      BY <3>1, <3>2
  <2>2. uf_flag' \in BOOLEAN /\ comp1_flag' \in BOOLEAN
    BY <1>1, Zenon DEF Clock!Tick
  <2>3. Clock!PeriodsAddUp'
    <3>1. CASE cnt = 0
      <4>1. uf_flag' = TRUE /\ uf_flag = FALSE
        BY <1>1, <3>1, Zenon DEF Clock!Tick
      <4> QED
        BY <1>1, <3>1, <4>1 DEF Clock!Tick, Clock!stampVars
    <3>2. CASE cnt # 0
      <4>1. uf_flag' = uf_flag
        BY <1>1, <3>2, Zenon DEF Clock!Tick
      <4> QED
        BY <1>1, <3>2, <4>1 DEF Clock!Tick, Clock!stampVars
    <3> QED
      BY <3>1, <3>2
  <2> QED
    BY <1>1, <2>1, <2>2, <2>3 DEF Clock!Tick, Clock!stampVars
<1>2. CASE Clock!LETIMER0_IRQHandler
  <2>1. uf_flag' = FALSE /\ comp1_flag' = FALSE
    BY <1>2 DEF Clock!LETIMER0_IRQHandler
  <2>2. milliseconds' \in Nat /\ lost' \in Nat
    BY <1>2 DEF Clock!LETIMER0_IRQHandler
  <2>3. Clock!PeriodsAddUp'
    <3>1. CASE uf_flag /\ ~comp1_flag
      <4>1. Clock!Flags = {"UF"}
        BY <3>1 DEF Clock!Flags
      <4> QED
        BY <1>2, <2>1, <3>1, <4>1 DEF Clock!LETIMER0_IRQHandler, Clock!CountsPeriod
    <3>2. CASE uf_flag /\ comp1_flag
      <4>1. Clock!Flags # {"UF"}
        BY <3>2 DEF Clock!Flags
      <4> QED
        BY <1>2, <2>1, <3>2, <4>1 DEF Clock!LETIMER0_IRQHandler, Clock!CountsPeriod
    <3>3. CASE ~uf_flag
      <4>1. Clock!Flags # {"UF"}
        BY <3>3 DEF Clock!Flags
      <4> QED
        BY <1>2, <2>1, <3>3, <4>1 DEF Clock!LETIMER0_IRQHandler, Clock!CountsPeriod
    <3> QED
      BY <3>1, <3>2, <3>3
  <2> QED
    BY <1>2, <2>1, <2>2, <2>3 DEF Clock!LETIMER0_IRQHandler, Clock!stampVars
<1>3. CASE Clock!ReadCounter
  <2>1. Clock!Now \in Nat
    <3>1. reloads * P \in Nat
      OBVIOUS
    <3> QED
      BY <3>1 DEF Clock!Now
  <2> QED
    BY <1>3, <2>1 DEF Clock!ReadCounter, Clock!timerVars
<1>4. CASE Clock!ReadPeriods
  <2>1. reading \in 0 .. P
    BY <1>4 DEF Clock!ReadPeriods
  <2>2. milliseconds * P \in Nat
    OBVIOUS
  <2>3. Clock!Stamp \in Nat
    BY <2>1, <2>2 DEF Clock!Stamp
  <2> QED
    BY <1>4, <2>3 DEF Clock!ReadPeriods, Clock!timerVars
<1>5. CASE UNCHANGED Clock!vars
  BY <1>5 DEF Clock!vars, Clock!timerVars, Clock!stampVars
<1> QED
  BY <1>1, <1>2, <1>3, <1>4, <1>5 DEF Clock!Next

\* Each step keeps what is known of the reading.
LEMMA ClockReadStep ==
  ASSUME P \in Nat \ {0}, MaxPeriods \in Nat, Clock!TypeOK, ReadInv, [Clock!Next]_Clock!vars
  PROVE  ReadInv'
<1>1. CASE Clock!ReadCounter
  <2>1. reading' = cnt /\ read_at' = reloads' * P + (P - reading') /\ reloads' \in 0 .. reloads'
    BY <1>1 DEF Clock!ReadCounter, Clock!Now, Clock!TypeOK, P
  <2> QED
    BY <2>1 DEF ReadInv
<1>2. CASE Clock!ReadPeriods
  BY <1>2 DEF Clock!ReadPeriods, ReadInv
<1>3. CASE Clock!Tick \/ Clock!LETIMER0_IRQHandler \/ UNCHANGED Clock!vars
  <2>1. reading' = reading /\ read_at' = read_at
    BY <1>3 DEF Clock!Tick, Clock!LETIMER0_IRQHandler, Clock!vars, Clock!stampVars
  <2>2. reloads \in Nat /\ reloads' \in {reloads, reloads + 1}
    BY <1>3 DEF Clock!Tick, Clock!LETIMER0_IRQHandler, Clock!vars, Clock!TypeOK
  <2>3. 0 .. reloads \subseteq 0 .. reloads'
    BY <2>2
  <2> QED
    BY <2>1, <2>3 DEF ReadInv
<1> QED
  BY <1>1, <1>2, <1>3 DEF Clock!Next

\* The invariant says how far a stamp may be off.
LEMMA ClockClose ==
  ASSUME P \in Nat \ {0}, ClockInv
  PROVE  Clock!StampIsClose
<1> SUFFICES ASSUME reading # -1
             PROVE  Clock!Stamp <= Clock!Now + P /\ Clock!Stamp >= read_at - (lost + 1) * P
  BY DEF Clock!StampIsClose, P
<1>1. /\ reading \in 0 .. P /\ cnt \in 0 .. P
      /\ milliseconds \in Nat /\ lost \in Nat /\ reloads \in Nat /\ read_at \in Nat
  BY DEF ClockInv, Clock!TypeOK, P
<1>2. milliseconds <= reloads /\ reloads <= milliseconds + (lost + 1)
  BY <1>1 DEF ClockInv, Clock!TypeOK, Clock!PeriodsAddUp
<1>3. PICK r \in 0 .. reloads : read_at = r * P + (P - reading)
  BY DEF ClockInv, ReadInv
<1>4. milliseconds * P \in Nat /\ reloads * P \in Nat /\ r * P \in Nat /\ (lost + 1) * P \in Nat
  BY <1>1
<1>5. milliseconds * P <= reloads * P
  BY <1>1, <1>2, ProductGrows
<1>6. r * P <= milliseconds * P + (lost + 1) * P
  <2>1. r <= milliseconds + (lost + 1) /\ milliseconds + (lost + 1) \in Nat
    BY <1>1, <1>2
  <2>2. r * P <= (milliseconds + (lost + 1)) * P
    BY <1>1, <2>1, ProductGrows
  <2>3. (milliseconds + (lost + 1)) * P = milliseconds * P + (lost + 1) * P
    BY <1>1
  <2> QED
    BY <2>2, <2>3
<1>7. Clock!Stamp = milliseconds * P + (P - reading) /\ Clock!Now = reloads * P + (P - cnt)
  BY DEF Clock!Stamp, Clock!Now, P
<1> HIDE DEF P
<1> QED
  BY <1>1, <1>3, <1>4, <1>5, <1>6, <1>7

\* What holds of the behaviours in which stamps are taken.
WhenClock == setting = "clock" => ClockInv

LEMMA ClockStarts ==
  ASSUME MaxPeriods \in Nat, Clock!Init
  PROVE  ClockInv
<1>1. uf_flag \in BOOLEAN /\ comp1_flag \in BOOLEAN
  BY Zenon DEF Clock!Init
<1>2. Clock!TypeOK
  BY <1>1, TopType DEF Clock!Init, Clock!TypeOK
<1>3. Clock!PeriodsAddUp
  BY DEF Clock!Init, Clock!PeriodsAddUp
<1> QED
  BY <1>2, <1>3 DEF Clock!Init, ClockInv, ReadInv

LEMMA ClockInductive ==
  ASSUME MaxPeriods \in Nat
  PROVE  MCSpec => []WhenClock
<1>1. MCInit => WhenClock
  BY ClockStarts DEF MCInit, WhenClock
<1>2. WhenClock /\ [MCNext]_mcvars => WhenClock'
  <2> SUFFICES ASSUME WhenClock, [MCNext]_mcvars, setting' = "clock"
               PROVE  ClockInv'
    BY DEF WhenClock
  <2>1. setting = "clock"
    BY DEF MCNext, mcvars
  <2>2. [Clock!Next]_Clock!vars
    <3>1. CASE MCNext
      <4>1. setting # "late" /\ setting # "prompt"
        BY <2>1
      <4>2. Clock!Next
        BY <3>1, <4>1, Zenon DEF MCNext
      <4> QED
        BY <4>2
    <3>2. CASE UNCHANGED mcvars
      BY <3>2 DEF mcvars, clockVars, vars, timerVars, Clock!vars, Clock!timerVars, Clock!stampVars
    <3> QED
      BY <3>1, <3>2
  <2>3. ClockInv
    BY <2>1 DEF WhenClock
  <2> QED
    BY <2>2, <2>3, TopType, ClockTypeStep, ClockReadStep DEF ClockInv, P
<1> QED
  BY <1>1, <1>2, PTL DEF MCSpec

\* Every period is counted, about to be, or lost to a coinciding COMP1: for
\* every length of the period and every order of ticks and handler (irq.c:43-70).
THEOREM PeriodsAccountedFor ==
  ASSUME MaxPeriods \in Nat
  PROVE  MCSpec => []PeriodsAddUp
<1>1. WhenClock => PeriodsAddUp
  BY DEF WhenClock, ClockInv, PeriodsAddUp
<1> QED
  BY <1>1, ClockInductive, PTL

\* A time stamp is ahead by a period at most and behind by the periods lost
\* and one, wherever the handler comes between its two reads (irq.c:72-81).
THEOREM StampsAreClose ==
  ASSUME MaxPeriods \in Nat
  PROVE  MCSpec => []StampIsClose
<1>1. WhenClock => StampIsClose
  BY TopType, ClockClose DEF WhenClock, StampIsClose, P
<1> QED
  BY <1>1, ClockInductive, PTL
=============================================================================
