-------------------------- MODULE SchedulerProofs --------------------------
(***************************************************************************)
(* What the server's interrupt handlers and state machines keep, for every *)
(* set of readings, any number of gestures, and every interleaving of the  *)
(* interrupts with the main loop.                                          *)
(*                                                                         *)
(* The pending mask is the difficulty: a comparison with one number says   *)
(* only that these bits were raised since the last round.  The invariant   *)
(* says which interrupt a mask stands for.  Bit 1 never comes alone, so    *)
(* that the mask {1, 2} can only be COMP1's (with an underflow or without) *)
(* and not a button press completed by something else, and the mask {4}    *)
(* can only be the ADC's.                                                  *)
(***************************************************************************)
EXTENDS MCServerScheduler, TLAPS

\* Which mask can be pending in which state.
MaskInv ==
  /\ signals # {1}
  /\ signals = evtLETIMER0_COMP1 => currentste = "START_CONV" /\ ~comp1_ien
  /\ signals = evtADC0_SINGLE => currentste = "MEASURE" /\ adc = "idle"

\* COMP1 is set up in POWERUP and armed in START_CONV alone.
TimerInv ==
  /\ comp1_ien => currentste = "START_CONV"
  /\ main = "arming" => currentste = "POWERUP"

\* A conversion belongs to MEASURE, and MEASURE to a sensor with power.
SampleInv ==
  /\ adc # "idle" => currentste = "MEASURE"
  /\ currentste # "POWERUP" \/ main = "arming" => sensor_on

\* Where COMP1 has matched since the power came: not before the flag of an
\* armed COMP1, its mask, or a conversion.
WaitInv ==
  /\ main = "arming" => ~comp1_flag
  /\ comp1_ien /\ comp1_flag => settled
  /\ signals = evtLETIMER0_COMP1 => settled
  /\ currentste = "MEASURE" => settled

\* gesture_main's state follows the last reading.
LightInv ==
  /\ State_Gesture = "GESTURE_ENABLE" <=> ambient > Threshold
  /\ State_Gesture = "GESTURE_ENABLE" => gesture_on /\ seen_light
  /\ seen_light /\ State_Gesture = "GESTURE_IDLE" => ~gesture_on

IInv ==
  /\ TypeOK /\ NoPhantomGesture
  /\ MaskInv /\ TimerInv /\ SampleInv /\ LightInv

-----------------------------------------------------------------------------
LEMMA TypeStep ==
  ASSUME IInv, [Next]_vars PROVE TypeOK'
<1> USE ReadingAssumption, WaveAssumption DEF IInv, TypeOK, evtLETIMER0_UF,
        evtLETIMER0_COMP1, evtADC0_SINGLE, evtButtonPressed, evtGestureInt,
        loopVars, timerVars, adcVars, gpioVars, gestureVars, lightVars
<1>1. CASE Underflow
  BY <1>1 DEF Underflow
<1>2. CASE Comp1Match
  BY <1>2 DEF Comp1Match
<1>3. CASE Converted
  BY <1>3 DEF Converted
<1>4. CASE PressButton
  BY <1>4 DEF PressButton
<1>5. CASE Wave
  BY <1>5 DEF Wave
<1>6. CASE LETIMER0_IRQHandler
  <2>1. uf_flag' \in BOOLEAN /\ comp1_flag' \in BOOLEAN /\ comp1_ien' \in BOOLEAN
    BY <1>6, Zenon DEF LETIMER0_IRQHandler
  <2>2. signals' \subseteq {1, 2, 4}
    BY <1>6 DEF LETIMER0_IRQHandler
  <2>3. UNCHANGED <<loopVars, adcVars, gpioVars, gestureVars, lightVars>>
    BY <1>6 DEF LETIMER0_IRQHandler
  <2>4. QED BY <2>1, <2>2, <2>3
<1>7. CASE ADC0_IRQHandler
  BY <1>7 DEF ADC0_IRQHandler
<1>8. CASE GPIO_EVEN_IRQHandler
  BY <1>8 DEF GPIO_EVEN_IRQHandler
<1>9. CASE Dispatch
  <2>1. currentste' \in {"POWERUP", "START_CONV", "MEASURE"}
        /\ ambient' \in Readings \cup {0}
        /\ adc' \in {"idle", "converting", "flagged"}
    BY <1>9 DEF Dispatch, ambientLightStateMachine
  <2>2. State_Gesture' \in {"GESTURE_IDLE", "GESTURE_ENABLE"}
        /\ gpio_flags' \subseteq {"PB0", "PF0"}
    BY <1>9 DEF Dispatch, gesture_main
  <2>3. main' \in {"loop", "arming", "gesture", "reading", "pausing"}
        /\ signals' \subseteq {1, 2, 4}
    BY <1>9 DEF Dispatch
  <2>4. seen_light' \in BOOLEAN
    BY <1>9, Zenon DEF Dispatch, ambientLightStateMachine
  <2>5. comp1_flag' \in BOOLEAN
    BY <1>9, Zenon DEF Dispatch, ambientLightStateMachine, PowerUp
  <2>6. sensor_on' \in BOOLEAN /\ settled' \in BOOLEAN
    BY <1>9, Zenon DEF Dispatch, ambientLightStateMachine, PowerUp
  <2>7. gesture_on' \in BOOLEAN
    BY <1>9, Zenon DEF Dispatch, gesture_main
  <2>8. UNCHANGED <<uf_flag, comp1_ien, adc_data, gpio_nvic, gvalid, waves, sends>>
    BY <1>9 DEF Dispatch
  <2>9. QED BY <2>1, <2>2, <2>3, <2>4, <2>5, <2>6, <2>7, <2>8
<1>10. CASE ArmComp1
  BY <1>10 DEF ArmComp1
<1>11. CASE BeginRead
  <2>1. gpio_nvic' \in BOOLEAN
    BY <1>11, Zenon DEF BeginRead
  <2>2. QED BY <1>11, <2>1 DEF BeginRead
<1>12. CASE readGesture
  <2>1. gvalid' \in BOOLEAN
    BY <1>12, Zenon DEF readGesture
  <2>2. sends' \in 0 .. MaxWaves
    BY <1>12 DEF readGesture, NoPhantomGesture
  <2>3. QED BY <1>12, <2>1, <2>2 DEF readGesture
<1>13. CASE EndRead
  BY <1>13 DEF EndRead
<1>14. CASE UNCHANGED vars
  BY <1>14 DEF vars
<1>15. QED
  BY <1>1, <1>2, <1>3, <1>4, <1>5, <1>6, <1>7, <1>8, <1>9, <1>10, <1>11,
     <1>12, <1>13, <1>14 DEF Next, Hardware, Interrupt, MainLoop

LEMMA PhantomStep ==
  ASSUME IInv, [Next]_vars PROVE NoPhantomGesture'
<1> USE WaveAssumption DEF IInv, TypeOK, NoPhantomGesture, loopVars,
        timerVars, adcVars, gpioVars, gestureVars, lightVars
<1>1. CASE Underflow
  BY <1>1 DEF Underflow
<1>2. CASE Comp1Match
  BY <1>2 DEF Comp1Match
<1>3. CASE Converted
  BY <1>3 DEF Converted
<1>4. CASE PressButton
  BY <1>4 DEF PressButton
<1>5. CASE Wave
  BY <1>5 DEF Wave
<1>6. CASE LETIMER0_IRQHandler
  BY <1>6 DEF LETIMER0_IRQHandler, LetimerFlags
<1>7. CASE ADC0_IRQHandler
  BY <1>7 DEF ADC0_IRQHandler
<1>8. CASE GPIO_EVEN_IRQHandler
  BY <1>8 DEF GPIO_EVEN_IRQHandler
<1>9. CASE Dispatch
  BY <1>9 DEF Dispatch, ambientLightStateMachine, PowerUp, PowersUp,
     StartsConv, Measures, gesture_main, Switches, ReadsGesture
<1>10. CASE ArmComp1
  BY <1>10 DEF ArmComp1
<1>11. CASE BeginRead
  BY <1>11 DEF BeginRead
<1>12. CASE readGesture
  BY <1>12 DEF readGesture
<1>13. CASE EndRead
  BY <1>13 DEF EndRead
<1>14. CASE UNCHANGED vars
  BY <1>14 DEF vars
<1>15. QED
  BY <1>1, <1>2, <1>3, <1>4, <1>5, <1>6, <1>7, <1>8, <1>9, <1>10, <1>11,
     <1>12, <1>13, <1>14 DEF Next, Hardware, Interrupt, MainLoop

LEMMA MaskStep ==
  ASSUME IInv, [Next]_vars PROVE MaskInv'
<1> USE DEF IInv, TypeOK, MaskInv, TimerInv, SampleInv, evtLETIMER0_UF,
        evtLETIMER0_COMP1, evtADC0_SINGLE, evtButtonPressed, evtGestureInt,
        loopVars, timerVars, adcVars, gpioVars, gestureVars, lightVars
<1>1. CASE Underflow
  BY <1>1 DEF Underflow
<1>2. CASE Comp1Match
  BY <1>2 DEF Comp1Match
<1>3. CASE Converted
  BY <1>3 DEF Converted
<1>4. CASE PressButton
  BY <1>4 DEF PressButton
<1>5. CASE Wave
  BY <1>5 DEF Wave
<1>6. CASE LETIMER0_IRQHandler
  BY <1>6 DEF LETIMER0_IRQHandler, LetimerFlags
<1>7. CASE ADC0_IRQHandler
  BY <1>7 DEF ADC0_IRQHandler
<1>8. CASE GPIO_EVEN_IRQHandler
  BY <1>8 DEF GPIO_EVEN_IRQHandler
<1>9. CASE Dispatch
  BY <1>9 DEF Dispatch, ambientLightStateMachine, PowerUp, PowersUp,
     StartsConv, Measures, gesture_main, Switches, ReadsGesture
<1>10. CASE ArmComp1
  BY <1>10 DEF ArmComp1
<1>11. CASE BeginRead
  BY <1>11 DEF BeginRead
<1>12. CASE readGesture
  BY <1>12 DEF readGesture
<1>13. CASE EndRead
  BY <1>13 DEF EndRead
<1>14. CASE UNCHANGED vars
  BY <1>14 DEF vars
<1>15. QED
  BY <1>1, <1>2, <1>3, <1>4, <1>5, <1>6, <1>7, <1>8, <1>9, <1>10, <1>11,
     <1>12, <1>13, <1>14 DEF Next, Hardware, Interrupt, MainLoop

LEMMA TimerStep ==
  ASSUME IInv, [Next]_vars PROVE TimerInv'
<1> USE DEF IInv, TypeOK, MaskInv, TimerInv, SampleInv, evtLETIMER0_UF,
        evtLETIMER0_COMP1, evtADC0_SINGLE, evtButtonPressed, evtGestureInt,
        loopVars, timerVars, adcVars, gpioVars, gestureVars, lightVars
<1>1. CASE Underflow
  BY <1>1 DEF Underflow
<1>2. CASE Comp1Match
  BY <1>2 DEF Comp1Match
<1>3. CASE Converted
  BY <1>3 DEF Converted
<1>4. CASE PressButton
  BY <1>4 DEF PressButton
<1>5. CASE Wave
  BY <1>5 DEF Wave
<1>6. CASE LETIMER0_IRQHandler
  BY <1>6 DEF LETIMER0_IRQHandler, LetimerFlags
<1>7. CASE ADC0_IRQHandler
  BY <1>7 DEF ADC0_IRQHandler
<1>8. CASE GPIO_EVEN_IRQHandler
  BY <1>8 DEF GPIO_EVEN_IRQHandler
<1>9. CASE Dispatch
  BY <1>9 DEF Dispatch, ambientLightStateMachine, PowerUp, PowersUp,
     StartsConv, Measures, gesture_main, Switches, ReadsGesture
<1>10. CASE ArmComp1
  BY <1>10 DEF ArmComp1
<1>11. CASE BeginRead
  BY <1>11 DEF BeginRead
<1>12. CASE readGesture
  BY <1>12 DEF readGesture
<1>13. CASE EndRead
  BY <1>13 DEF EndRead
<1>14. CASE UNCHANGED vars
  BY <1>14 DEF vars
<1>15. QED
  BY <1>1, <1>2, <1>3, <1>4, <1>5, <1>6, <1>7, <1>8, <1>9, <1>10, <1>11,
     <1>12, <1>13, <1>14 DEF Next, Hardware, Interrupt, MainLoop

LEMMA SampleStep ==
  ASSUME IInv, [Next]_vars PROVE SampleInv'
<1> USE DEF IInv, TypeOK, MaskInv, TimerInv, SampleInv, evtLETIMER0_UF,
        evtLETIMER0_COMP1, evtADC0_SINGLE, evtButtonPressed, evtGestureInt,
        loopVars, timerVars, adcVars, gpioVars, gestureVars, lightVars
<1>1. CASE Underflow
  BY <1>1 DEF Underflow
<1>2. CASE Comp1Match
  BY <1>2 DEF Comp1Match
<1>3. CASE Converted
  BY <1>3 DEF Converted
<1>4. CASE PressButton
  BY <1>4 DEF PressButton
<1>5. CASE Wave
  BY <1>5 DEF Wave
<1>6. CASE LETIMER0_IRQHandler
  BY <1>6 DEF LETIMER0_IRQHandler, LetimerFlags
<1>7. CASE ADC0_IRQHandler
  BY <1>7 DEF ADC0_IRQHandler
<1>8. CASE GPIO_EVEN_IRQHandler
  BY <1>8 DEF GPIO_EVEN_IRQHandler
<1>9. CASE Dispatch
  BY <1>9 DEF Dispatch, ambientLightStateMachine, PowerUp, PowersUp,
     StartsConv, Measures, gesture_main, Switches, ReadsGesture
<1>10. CASE ArmComp1
  BY <1>10 DEF ArmComp1
<1>11. CASE BeginRead
  BY <1>11 DEF BeginRead
<1>12. CASE readGesture
  BY <1>12 DEF readGesture
<1>13. CASE EndRead
  BY <1>13 DEF EndRead
<1>14. CASE UNCHANGED vars
  BY <1>14 DEF vars
<1>15. QED
  BY <1>1, <1>2, <1>3, <1>4, <1>5, <1>6, <1>7, <1>8, <1>9, <1>10, <1>11,
     <1>12, <1>13, <1>14 DEF Next, Hardware, Interrupt, MainLoop

LEMMA LightStep ==
  ASSUME IInv, [Next]_vars PROVE LightInv'
<1> USE ReadingAssumption DEF IInv, TypeOK, LightInv, Threshold, loopVars,
        timerVars, adcVars, gpioVars, gestureVars, lightVars
<1>1. CASE Underflow
  BY <1>1 DEF Underflow
<1>2. CASE Comp1Match
  BY <1>2 DEF Comp1Match
<1>3. CASE Converted
  BY <1>3 DEF Converted
<1>4. CASE PressButton
  BY <1>4 DEF PressButton
<1>5. CASE Wave
  BY <1>5 DEF Wave
<1>6. CASE LETIMER0_IRQHandler
  BY <1>6 DEF LETIMER0_IRQHandler, LetimerFlags
<1>7. CASE ADC0_IRQHandler
  BY <1>7 DEF ADC0_IRQHandler
<1>8. CASE GPIO_EVEN_IRQHandler
  BY <1>8 DEF GPIO_EVEN_IRQHandler
<1>9. CASE Dispatch
  <2>1. seen_light' <=> seen_light \/ ambient' > Threshold
    BY <1>9, Zenon DEF Dispatch, ambientLightStateMachine
  <2>2. ambient' \in Nat
    BY <1>9 DEF Dispatch, ambientLightStateMachine
  <2>3. gesture_main
    BY <1>9 DEF Dispatch
  <2>4. CASE Switches(TRUE)
    <3>1. /\ State_Gesture' = "GESTURE_ENABLE" /\ gesture_on' = TRUE
          /\ ambient' > Threshold
      BY <2>2, <2>3, <2>4 DEF gesture_main, Switches
    <3>2. QED BY <2>1, <3>1
  <2>5. CASE Switches(FALSE)
    <3>1. ambient' <= Threshold
      BY <2>5 DEF Switches
    <3>2. ~(ambient' > Threshold) /\ ~Switches(TRUE)
      BY <2>2, <3>1 DEF Switches
    <3>3. State_Gesture' = "GESTURE_IDLE" /\ gesture_on' = FALSE
      BY <2>3, <2>5, <3>2, Zenon DEF gesture_main
    <3>4. QED BY <3>2, <3>3
  <2>6. CASE ~Switches(TRUE) /\ ~Switches(FALSE)
    <3>1. UNCHANGED <<State_Gesture, gesture_on>>
      BY <2>3, <2>6 DEF gesture_main
    <3>2. State_Gesture = "GESTURE_ENABLE" <=> ambient' > Threshold
      BY <2>2, <2>6 DEF Switches
    <3>3. QED BY <2>1, <3>1, <3>2
  <2>7. QED BY <2>4, <2>5, <2>6
<1>10. CASE ArmComp1
  BY <1>10 DEF ArmComp1
<1>11. CASE BeginRead
  BY <1>11 DEF BeginRead
<1>12. CASE readGesture
  BY <1>12 DEF readGesture
<1>13. CASE EndRead
  BY <1>13 DEF EndRead
<1>14. CASE UNCHANGED vars
  BY <1>14 DEF vars
<1>15. QED
  BY <1>1, <1>2, <1>3, <1>4, <1>5, <1>6, <1>7, <1>8, <1>9, <1>10, <1>11,
     <1>12, <1>13, <1>14 DEF Next, Hardware, Interrupt, MainLoop

-----------------------------------------------------------------------------
LEMMA WaitStep ==
  ASSUME ~MayMatchOld, IInv, WaitInv, [Next]_vars PROVE WaitInv'
<1> USE DEF IInv, TypeOK, MaskInv, TimerInv, SampleInv, WaitInv,
        evtLETIMER0_UF, evtLETIMER0_COMP1, evtADC0_SINGLE, evtButtonPressed,
        evtGestureInt, loopVars, timerVars, adcVars, gpioVars, gestureVars,
        lightVars
<1>1. CASE Underflow
  BY <1>1 DEF Underflow
<1>2. CASE Comp1Match
  BY <1>2 DEF Comp1Match
<1>3. CASE Converted
  BY <1>3 DEF Converted
<1>4. CASE PressButton
  BY <1>4 DEF PressButton
<1>5. CASE Wave
  BY <1>5 DEF Wave
<1>6. CASE LETIMER0_IRQHandler
  BY <1>6 DEF LETIMER0_IRQHandler, LetimerFlags
<1>7. CASE ADC0_IRQHandler
  BY <1>7 DEF ADC0_IRQHandler
<1>8. CASE GPIO_EVEN_IRQHandler
  BY <1>8 DEF GPIO_EVEN_IRQHandler
<1>9. CASE Dispatch
  BY <1>9 DEF Dispatch, ambientLightStateMachine, PowerUp, PowersUp,
     StartsConv, Measures, gesture_main, Switches, ReadsGesture
<1>10. CASE ArmComp1
  BY <1>10 DEF ArmComp1
<1>11. CASE BeginRead
  BY <1>11 DEF BeginRead
<1>12. CASE readGesture
  BY <1>12 DEF readGesture
<1>13. CASE EndRead
  BY <1>13 DEF EndRead
<1>14. CASE UNCHANGED vars
  BY <1>14 DEF vars
<1>15. QED
  BY <1>1, <1>2, <1>3, <1>4, <1>5, <1>6, <1>7, <1>8, <1>9, <1>10, <1>11,
     <1>12, <1>13, <1>14 DEF Next, Hardware, Interrupt, MainLoop

LEMMA InitInv == Init => IInv /\ WaitInv
<1> SUFFICES ASSUME Init PROVE IInv /\ WaitInv
  OBVIOUS
<1>1. /\ uf_flag \in BOOLEAN /\ comp1_flag \in BOOLEAN /\ comp1_ien \in BOOLEAN
      /\ gpio_nvic \in BOOLEAN /\ sensor_on \in BOOLEAN
      /\ gesture_on \in BOOLEAN /\ gvalid \in BOOLEAN
      /\ settled \in BOOLEAN /\ seen_light \in BOOLEAN
  BY Zenon DEF Init
<1>2. TypeOK
  BY <1>1, WaveAssumption DEF Init, TypeOK
<1>3. NoPhantomGesture
  BY WaveAssumption DEF Init, NoPhantomGesture
<1>4. MaskInv /\ TimerInv /\ SampleInv /\ WaitInv
  BY DEF Init, MaskInv, TimerInv, SampleInv, WaitInv, evtLETIMER0_COMP1,
     evtADC0_SINGLE
<1>5. LightInv
  BY DEF Init, LightInv, Threshold
<1>6. QED BY <1>2, <1>3, <1>4, <1>5 DEF IInv

LEMMA Inductive == Spec => []IInv
<1>1. IInv /\ [Next]_vars => IInv'
  BY TypeStep, PhantomStep, MaskStep, TimerStep, SampleStep, LightStep DEF IInv
<1>2. QED BY <1>1, InitInv, PTL DEF Spec

\* Every variable keeps its type, and no more gestures are sent than made.
THEOREM TypeCorrect == Spec => []TypeOK
<1>1. IInv => TypeOK
  BY DEF IInv
<1>2. QED BY <1>1, Inductive, PTL

\* No mask, stale flag or late interrupt starts a conversion before COMP1 has
\* matched (scheduler.c:57-66, irq.c:63-68), as long as the counter does not
\* pass the old COMP1 value while timerWaitUs_irq sets the new one.
THEOREM Settled ==
  ASSUME ~MayMatchOld
  PROVE  Spec => []SettledBeforeConversion
<1>1. IInv /\ WaitInv /\ [Next]_vars => WaitInv'
  BY WaitStep
<1>2. IInv /\ WaitInv => SettledBeforeConversion
  BY DEF IInv, SampleInv, WaitInv, SettledBeforeConversion
<1>3. QED BY <1>1, <1>2, InitInv, Inductive, PTL DEF Spec

\* The same for the behaviours of MCServerScheduler: a conversion that starts
\* before COMP1 has matched takes a loop that keeps up with the timer and an old
\* COMP1 that the counter passes while timerWaitUs_irq sets the new one.
THEOREM SettledUnlessOldIsMatched ==
  ASSUME ~MayMatchOld
  PROVE  MCSpec => []SettledUnlessOld
<1> DEFINE MCInv == keeps_up \/ (IInv /\ WaitInv)
<1>1. MCInit => MCInv
  BY InitInv DEF MCInit
<1>2. MCInv /\ [MCNext]_<<vars, keeps_up>> => MCInv'
  <2> SUFFICES ASSUME MCInv, [MCNext]_<<vars, keeps_up>>, ~keeps_up
               PROVE  (IInv /\ WaitInv)'
    BY DEF MCNext
  <2>1. [Next]_vars
    BY DEF MCNext
  <2>2. IInv /\ [Next]_vars => IInv'
    BY TypeStep, PhantomStep, MaskStep, TimerStep, SampleStep, LightStep DEF IInv
  <2> QED
    BY <2>1, <2>2, WaitStep
<1>3. MCInv => SettledUnlessOld
  BY DEF IInv, SampleInv, WaitInv, SettledUnlessOld, SettledBeforeConversion
<1> QED
  BY <1>1, <1>2, <1>3, PTL DEF MCSpec

\* The light sensor has power, and the state machine waits in MEASURE, while a
\* conversion runs or its event is pending (scheduler.c:69-85).
THEOREM Powered == Spec => []PoweredWhileConverting
<1>1. IInv => PoweredWhileConverting
  BY DEF IInv, MaskInv, SampleInv, PoweredWhileConverting, evtADC0_SINGLE
<1>2. QED BY <1>1, Inductive, PTL

\* From the first light reading on, the gesture sensor is on exactly in the
\* light (scheduler.c:98-118).
THEOREM FollowsLight == Spec => []GestureFollowsLight
<1>1. ASSUME IInv PROVE GestureFollowsLight
  <2>1. gesture_on \in BOOLEAN /\ State_Gesture \in {"GESTURE_IDLE", "GESTURE_ENABLE"}
    BY <1>1 DEF IInv, TypeOK
  <2>2. QED BY <1>1, <2>1 DEF IInv, LightInv, GestureFollowsLight
<1>2. QED BY <1>1, Inductive, PTL

\* No coincidence of signals makes the server send a gesture nobody made
\* (scheduler.c:121-132, gesture_main.c:457-460).
THEOREM NoPhantom == Spec => []NoPhantomGesture
<1>1. IInv => NoPhantomGesture
  BY DEF IInv
<1>2. QED BY <1>1, Inductive, PTL
=============================================================================
