-------------------------- MODULE ServerScheduler --------------------------
(***************************************************************************)
(* The server's sensors (DEVICE_IS_BLE_SERVER): the interrupt handlers of  *)
(* src/src/irq.c, the external signal they raise, and the two state        *)
(* machines of src/src/scheduler.c that the main loop runs on it.          *)
(*                                                                         *)
(* sl_bt_external_signal ORs its argument into one pending mask, which the *)
(* stack hands over and clears with the next external-signal event.  The   *)
(* code numbers its events 2 .. 6 and compares the whole mask with one     *)
(* number, so two events raised between two main-loop rounds reach the     *)
(* state machines as a third one, or as none.                              *)
(*                                                                         *)
(* A mask is the set of the bits (1, 2, 4) that are set in it.  Interrupts *)
(* preempt the main loop at any point; its steps are split where that      *)
(* makes a difference.  The polled waits, I2C transfers and the decoding   *)
(* of a gesture only take time here.                                       *)
(***************************************************************************)
EXTENDS Naturals, FiniteSets

CONSTANTS Readings,     \* ADC results, on both sides of the threshold
          MaxWaves,     \* bound: gestures made in front of the sensor
          MayPress,     \* whether PB0 is used
          Prompt,       \* whether an idle main loop samples within a period
          MayMatchOld   \* whether CNT may pass the old COMP1 while it is re-set

ASSUME ReadingAssumption == Readings \subseteq Nat
ASSUME WaveAssumption == MaxWaves \in Nat

VARIABLES
  currentste,      \* state of ambientLightStateMachine
  State_Gesture,   \* state of gesture_main
  ambient,         \* ambient_analog_val
  main,            \* where the main loop is
  signals,         \* stack: the pending external-signal mask
  uf_flag,         \* LETIMER0 IF.UF
  comp1_flag,      \* LETIMER0 IF.COMP1
  comp1_ien,       \* LETIMER0 IEN.COMP1
  adc,             \* ADC0: idle, converting, or its SINGLE flag is up
  adc_data,        \* ADC0 SINGLEDATA
  gpio_flags,      \* GPIO IF, the even pins that have a use
  gpio_nvic,       \* NVIC: GPIO_EVEN is enabled
  sensor_on,       \* the light sensor has power (AMB_pin)
  gesture_on,      \* the APDS-9960 has its engine and its interrupt on
  gvalid,          \* the APDS-9960 has a gesture in its FIFO
  settled,         \* history: COMP1 matched since the light sensor got power
  seen_light,      \* history: a reading was above the threshold
  waves,           \* history: gestures made so far
  sends            \* history: gestures given to send_gesture_value

loopVars == <<currentste, State_Gesture, ambient, main>>
timerVars == <<uf_flag, comp1_flag, comp1_ien>>
adcVars == <<adc, adc_data>>
gpioVars == <<gpio_flags, gpio_nvic>>
gestureVars == <<gesture_on, gvalid, waves, sends>>
lightVars == <<sensor_on, settled, seen_light>>
vars == <<loopVars, signals, timerVars, adcVars, gpioVars, gestureVars, lightVars>>

Threshold == 50

\* enum Events, as masks
evtLETIMER0_UF    == {2}
evtLETIMER0_COMP1 == {1, 2}
evtADC0_SINGLE    == {4}
evtButtonPressed  == {1, 4}
evtGestureInt     == {2, 4}

(* app_init has enabled the gesture sensor; gesture_main starts idle.      *)
Init ==
  /\ currentste = "POWERUP"
  /\ State_Gesture = "GESTURE_IDLE"
  /\ ambient = 0
  /\ main = "loop"
  /\ signals = {}
  /\ uf_flag = FALSE
  /\ comp1_flag = FALSE
  /\ comp1_ien = FALSE
  /\ adc = "idle"
  /\ adc_data = 0
  /\ gpio_flags = {}
  /\ gpio_nvic = TRUE
  /\ sensor_on = FALSE
  /\ gesture_on = TRUE
  /\ gvalid = FALSE
  /\ settled = FALSE
  /\ seen_light = FALSE
  /\ waves = 0
  /\ sends = 0
-----------------------------------------------------------------------------
(* Hardware.                                                               *)

\* A sample takes about a millisecond of the period of a second.
SampleStepUnderWay ==
  main = "loop" /\ (comp1_ien \/ adc # "idle" \/ signals # {})

Underflow ==
  /\ Prompt => ~SampleStepUnderWay
  /\ uf_flag' = TRUE
  /\ UNCHANGED <<loopVars, signals, comp1_flag, comp1_ien, adcVars, gpioVars,
                 gestureVars, lightVars>>

\* While COMP1 is being set up, the counter can only pass its old value.
Comp1Match ==
  /\ main = "arming" => MayMatchOld
  /\ comp1_flag' = TRUE
  /\ settled' = (settled \/ main # "arming")
  /\ UNCHANGED <<loopVars, signals, uf_flag, comp1_ien, adcVars, gpioVars,
                 gestureVars, sensor_on, seen_light>>

Converted ==
  /\ adc = "converting"
  /\ adc' = "flagged"
  /\ adc_data' \in Readings
  /\ UNCHANGED <<loopVars, signals, timerVars, gpioVars, gestureVars, lightVars>>

\* PB0 interrupts on both edges.
PressButton ==
  /\ MayPress
  /\ gpio_flags' = gpio_flags \cup {"PB0"}
  /\ UNCHANGED <<loopVars, signals, timerVars, adcVars, gpio_nvic, gestureVars,
                 lightVars>>

\* The interrupt line is low while the engine is on and the FIFO is not
\* empty, and PF0 interrupts on the falling edge alone.
Wave ==
  /\ waves < MaxWaves
  /\ gesture_on
  /\ waves' = waves + 1
  /\ gvalid' = TRUE
  /\ gpio_flags' = IF gvalid THEN gpio_flags ELSE gpio_flags \cup {"PF0"}
  /\ UNCHANGED <<loopVars, signals, timerVars, adcVars, gpio_nvic, gesture_on,
                 sends, lightVars>>
-----------------------------------------------------------------------------
(* Interrupt handlers.                                                     *)

\* Faulty variant: LETIMER_IntGet, which does not look at the enable bits.
LetimerFlagsAll ==
  (IF uf_flag THEN {"UF"} ELSE {}) \cup (IF comp1_flag THEN {"COMP1"} ELSE {})

\* LETIMER_IntGetEnabled
LetimerFlags ==
  (IF uf_flag THEN {"UF"} ELSE {})
    \cup (IF comp1_flag /\ comp1_ien THEN {"COMP1"} ELSE {})

\* Both flags together equal neither constant and are cleared for nothing.
LETIMER0_IRQHandler ==
  /\ LetimerFlags # {}
  /\ uf_flag' = FALSE
  /\ comp1_flag' = (comp1_flag /\ "COMP1" \notin LetimerFlags)
  /\ signals' = signals \cup (IF LetimerFlags = {"UF"} THEN evtLETIMER0_UF
                              ELSE IF LetimerFlags = {"COMP1"} THEN evtLETIMER0_COMP1
                              ELSE {})
  /\ comp1_ien' = (comp1_ien /\ LetimerFlags # {"COMP1"})
  /\ UNCHANGED <<loopVars, adcVars, gpioVars, gestureVars, lightVars>>

ADC0_IRQHandler ==
  /\ adc = "flagged"
  /\ adc' = "idle"
  /\ signals' = signals \cup evtADC0_SINGLE
  /\ UNCHANGED <<loopVars, timerVars, adc_data, gpioVars, gestureVars, lightVars>>

GPIO_EVEN_IRQHandler ==
  /\ gpio_nvic
  /\ gpio_flags # {}
  /\ gpio_flags' = {}
  /\ signals' = signals \cup (IF gpio_flags = {"PB0"} THEN evtButtonPressed
                              ELSE IF gpio_flags = {"PF0"} THEN evtGestureInt
                              ELSE {})
  /\ UNCHANGED <<loopVars, timerVars, adcVars, gpio_nvic, gestureVars, lightVars>>
-----------------------------------------------------------------------------
(* The main loop: sl_bt_on_event with an external-signal event.            *)

PowersUp(sig)   == currentste = "POWERUP" /\ sig = evtLETIMER0_UF
StartsConv(sig) == currentste = "START_CONV" /\ sig = evtLETIMER0_COMP1

\* Faulty variant: the ADC's bit is tested instead of the whole mask.
MeasuresBit(sig) == currentste = "MEASURE" /\ 4 \in sig
Measures(sig)   == currentste = "MEASURE" /\ sig = evtADC0_SINGLE

\* Faulty variant: a stale COMP1 flag is not cleared.
PowerUpKeepsFlag(sig) ==
  IF PowersUp(sig)
  THEN sensor_on' = TRUE /\ settled' = FALSE /\ UNCHANGED comp1_flag
  ELSE /\ sensor_on' = (sensor_on /\ ~Measures(sig))
       /\ UNCHANGED <<settled, comp1_flag>>

\* gpioAMBSensor, on and off, and the first step of timerWaitUs_irq.
PowerUp(sig) ==
  IF PowersUp(sig)
  THEN sensor_on' = TRUE /\ settled' = FALSE /\ comp1_flag' = FALSE
  ELSE /\ sensor_on' = (sensor_on /\ ~Measures(sig))
       /\ UNCHANGED <<settled, comp1_flag>>

ambientLightStateMachine(sig) ==
  /\ PowerUp(sig)
  /\ adc' = IF StartsConv(sig) THEN "converting" ELSE adc
  /\ ambient' = IF Measures(sig) THEN adc_data ELSE ambient
  /\ seen_light' = (seen_light \/ ambient' > Threshold)
  /\ currentste' = IF StartsConv(sig) THEN "MEASURE"
                   ELSE IF Measures(sig) THEN "POWERUP"
                   ELSE currentste

\* Faulty variant: gesture_main is run before ambientLightStateMachine.
SwitchesEarly(on) ==
  IF on THEN State_Gesture = "GESTURE_IDLE" /\ ambient > Threshold
  ELSE State_Gesture = "GESTURE_ENABLE" /\ ambient <= Threshold

Switches(on) ==
  IF on THEN State_Gesture = "GESTURE_IDLE" /\ ambient' > Threshold
  ELSE State_Gesture = "GESTURE_ENABLE" /\ ambient' <= Threshold
ReadsGesture(sig) ==
  State_Gesture = "GESTURE_ENABLE" /\ ambient' > Threshold /\ sig = evtGestureInt

\* enableGestureSensor raises the interrupt line on what the FIFO still holds.
gesture_main ==
  \/ /\ Switches(TRUE)
     /\ State_Gesture' = "GESTURE_ENABLE"
     /\ gesture_on' = TRUE
     /\ gpio_flags' = IF gvalid /\ ~gesture_on THEN gpio_flags \cup {"PF0"}
                      ELSE gpio_flags
  \/ /\ Switches(FALSE)
     /\ State_Gesture' = "GESTURE_IDLE"
     /\ gesture_on' = FALSE
     /\ UNCHANGED gpio_flags
  \/ /\ ~Switches(TRUE) /\ ~Switches(FALSE)
     /\ UNCHANGED <<State_Gesture, gesture_on, gpio_flags>>

Dispatch ==
  /\ main = "loop"
  /\ signals # {}
  /\ signals' = {}
  /\ ambientLightStateMachine(signals)
  /\ gesture_main
  /\ main' = IF PowersUp(signals) THEN "arming"
             ELSE IF ReadsGesture(signals) THEN "gesture" ELSE "loop"
  /\ UNCHANGED <<uf_flag, comp1_ien, adc_data, gpio_nvic, gvalid, waves, sends>>

\* The rest of timerWaitUs_irq: COMP1 is set and its interrupt enabled.
ArmComp1 ==
  /\ main = "arming"
  /\ main' = "loop"
  /\ comp1_ien' = TRUE
  /\ currentste' = "START_CONV"
  /\ UNCHANGED <<State_Gesture, ambient, signals, uf_flag, comp1_flag, adcVars,
                 gpioVars, gestureVars, lightVars>>

BeginRead ==
  /\ main = "gesture"
  /\ main' = "reading"
  /\ gpio_nvic' = FALSE
  /\ UNCHANGED <<currentste, State_Gesture, ambient, signals, timerVars, adcVars,
                 gpio_flags, gestureVars, lightVars>>

\* Faulty variant: GSTATUS.GVALID is not looked at.
readGestureAnyway ==
  /\ main = "reading"
  /\ main' = "pausing"
  /\ gvalid' = FALSE
  /\ \E found \in BOOLEAN : sends' = IF found THEN sends + 1 ELSE sends
  /\ UNCHANGED <<currentste, State_Gesture, ambient, signals, timerVars, adcVars,
                 gpioVars, gesture_on, waves, lightVars>>

\* readGesture empties the FIFO; what it decodes is sent unless DIR_NONE.
readGesture ==
  /\ main = "reading"
  /\ main' = "pausing"
  /\ gvalid' = FALSE
  /\ \E found \in BOOLEAN : sends' = IF gvalid /\ found THEN sends + 1 ELSE sends
  /\ UNCHANGED <<currentste, State_Gesture, ambient, signals, timerVars, adcVars,
                 gpioVars, gesture_on, waves, lightVars>>

EndRead ==
  /\ main = "pausing"
  /\ main' = "loop"
  /\ gpio_nvic' = TRUE
  /\ UNCHANGED <<currentste, State_Gesture, ambient, signals, timerVars, adcVars,
                 gpio_flags, gestureVars, lightVars>>

Hardware  == Underflow \/ Comp1Match \/ Converted \/ PressButton \/ Wave
Interrupt == LETIMER0_IRQHandler \/ ADC0_IRQHandler \/ GPIO_EVEN_IRQHandler
MainLoop  == Dispatch \/ ArmComp1 \/ BeginRead \/ readGesture \/ EndRead

Next == Hardware \/ Interrupt \/ MainLoop

Spec == Init /\ [][Next]_vars

(* The timer and the ADC never stop, an enabled interrupt is taken, and    *)
(* the super-loop of main.c goes round.  Nobody has to wave or press.      *)
Fairness ==
  /\ WF_vars(Underflow) /\ WF_vars(Comp1Match) /\ WF_vars(Converted)
  /\ WF_vars(LETIMER0_IRQHandler) /\ WF_vars(ADC0_IRQHandler)
  /\ WF_vars(GPIO_EVEN_IRQHandler)
  /\ WF_vars(MainLoop)

FairSpec == Spec /\ Fairness
-----------------------------------------------------------------------------
(* Properties.                                                             *)

\* Type invariant.
TypeOK ==
  /\ currentste \in {"POWERUP", "START_CONV", "MEASURE"}
  /\ State_Gesture \in {"GESTURE_IDLE", "GESTURE_ENABLE"}
  /\ ambient \in Readings \cup {0}
  /\ main \in {"loop", "arming", "gesture", "reading", "pausing"}
  /\ signals \subseteq {1, 2, 4}
  /\ uf_flag \in BOOLEAN
  /\ comp1_flag \in BOOLEAN
  /\ comp1_ien \in BOOLEAN
  /\ adc \in {"idle", "converting", "flagged"}
  /\ adc_data \in Readings \cup {0}
  /\ gpio_flags \subseteq {"PB0", "PF0"}
  /\ gpio_nvic \in BOOLEAN
  /\ sensor_on \in BOOLEAN
  /\ gesture_on \in BOOLEAN
  /\ gvalid \in BOOLEAN
  /\ settled \in BOOLEAN
  /\ seen_light \in BOOLEAN
  /\ waves \in 0 .. MaxWaves
  /\ sends \in 0 .. MaxWaves

\* "Wait for 1mS before starting ADC conversion" (scheduler.c:58): no
\* coalesced mask, stale COMP1 flag or late signal starts a conversion before
\* COMP1 has matched since the sensor was powered.
SettledBeforeConversion == adc = "converting" => settled

\* The light sensor keeps its power, and the state machine its place, for as
\* long as a conversion runs or its result is on the way.
PoweredWhileConverting ==
  (adc # "idle" \/ signals = evtADC0_SINGLE)
     => sensor_on /\ currentste = "MEASURE"

\* Once it has been light, the gesture sensor is on exactly while the last
\* reading was above the threshold, whatever the mask did to the events.
GestureFollowsLight ==
  seen_light => (gesture_on <=> ambient > Threshold)

\* No gesture is sent that nobody made: a mask that happens to equal
\* evtGestureInt (an underflow and a conversion) sends nothing.
NoPhantomGesture == sends + (IF gvalid THEN 1 ELSE 0) <= waves

\* The light is sampled again and again: the server is triggered "when the
\* light falls or rises above a set threshold" (README.md:15).
SamplingGoesOn == []<>(currentste = "MEASURE") /\ []<>(currentste = "POWERUP")

\* The state machine waits for a one-shot interrupt that has come and gone.
WaitsInVain ==
  \/ currentste = "START_CONV" /\ ~comp1_ien /\ ~(evtLETIMER0_COMP1 \subseteq signals)
  \/ currentste = "MEASURE" /\ adc = "idle" /\ ~(evtADC0_SINGLE \subseteq signals)

\* A COMP1 or ADC signal consumed in a mask with another one is the only way
\* for the sampling to stop: no stale flag, lost underflow, early match or
\* reading of a gesture ends it (irq.c:43-70, scheduler.c:40-88).
StopsOnlyInVain == SamplingGoesOn \/ <>WaitsInVain
=============================================================================
