--------------------------- MODULE GestureSetup ---------------------------
(***************************************************************************)
(* The set-up of the APDS-9960 gesture sensor: gesture_init,               *)
(* enableGestureSensor and disableGestureSensor of src/src/gesture_main.c  *)
(* on the driver of src/src/gesture_i2c.c.                                 *)
(*                                                                         *)
(* A call is a sequence of steps, each of which writes a register or reads *)
(* one, changes a field and writes it back.  Any transfer may fail.  The   *)
(* driver answers every transfer with a number that is not 0, a read that  *)
(* failed also with 0xFF for the data, and only setMode looks at that.     *)
(***************************************************************************)
EXTENDS Naturals, Sequences, FiniteSets

CONSTANTS MaxFails,     \* bound: transfers that fail
          MaxCalls      \* bound: calls after the first two

\* The bits of ENABLE.
POWER     == 0
PROXIMITY == 2
WAIT_TIME == 3
GESTURE   == 6
ALL       == 0 .. 7
ERROR     == ALL      \* 0xFF

\* Registers that are written as a whole.
Plain == {"GPENTH", "GEXTH", "GCONF1", "GOFFSET_U", "GOFFSET_D", "GOFFSET_L",
          "GOFFSET_R", "GPULSE", "GCONF3", "WTIME", "PPULSE"}

\* Registers made of fields: what is in them when all their bits are 1.
Ones == [GCONF2  |-> [GGAIN |-> 3, GLDRIVE |-> 3, GWTIME |-> 7, rest |-> 1],
         GCONF4  |-> [GMODE |-> 1, GIEN |-> 1, rest |-> 63],
         CONFIG2 |-> [LED_BOOST |-> 3, rest |-> 63]]
Zeros == [r \in DOMAIN Ones |-> [f \in DOMAIN Ones[r] |-> 0]]

VARIABLES
  enable,     \* the sensor's ENABLE, as the set of its bits
  plain,      \* those registers of Plain that have been given their value
  fields,     \* the sensor's registers made of fields
  call,       \* the call that runs, or ran last
  steps,      \* what is left of it
  result,     \* what it returned
  calls,      \* history: switching calls begun
  fails,      \* history: transfers that failed
  clean       \* history: whether none failed in the call

sensorVars == <<enable, plain, fields>>
vars == <<sensorVars, call, steps, result, calls, fails, clean>>
-----------------------------------------------------------------------------
(* The calls.                                                              *)

ReadId == [op |-> "id"]
Write(r) == [op |-> "write", reg |-> r]
SetField(r, f, v) == [op |-> "field", reg |-> r, field |-> f, val |-> v]
SetMode(bits, on) == [op |-> "mode", bits |-> bits, on |-> on]

\* Faulty variant: the gain is written where the drive current is.
SetGestureGainShifted(gain) == SetField("GCONF2", "GLDRIVE", gain)

SetGestureGain(gain)       == SetField("GCONF2", "GGAIN", gain)
SetGestureLEDDrive(drive)  == SetField("GCONF2", "GLDRIVE", drive)
SetGestureWaitTime(time)   == SetField("GCONF2", "GWTIME", time)
SetGestureIntEnable(on)    == SetField("GCONF4", "GIEN", on)
SetGestureMode(mode)       == SetField("GCONF4", "GMODE", mode)

SetLEDBoost(boost)         == SetField("CONFIG2", "LED_BOOST", boost)

GestureInit ==
  <<ReadId, SetMode(ALL, FALSE), Write("GPENTH"), Write("GEXTH"), Write("GCONF1"),
    SetGestureGain(2), SetGestureLEDDrive(0), SetGestureWaitTime(1),
    Write("GOFFSET_U"), Write("GOFFSET_D"), Write("GOFFSET_L"), Write("GOFFSET_R"),
    Write("GPULSE"), Write("GCONF3"), SetGestureIntEnable(0)>>

EnableGestureSensor ==
  <<Write("WTIME"), Write("PPULSE"), SetLEDBoost(3), SetGestureIntEnable(1),
    SetGestureMode(1), SetMode({POWER}, TRUE), SetMode({WAIT_TIME}, TRUE),
    SetMode({PROXIMITY}, TRUE), SetMode({GESTURE}, TRUE)>>

DisableGestureSensor ==
  <<SetGestureIntEnable(0), SetGestureMode(0), SetMode({GESTURE}, FALSE)>>

Body == [init |-> GestureInit, first |-> EnableGestureSensor,
         enable |-> EnableGestureSensor, disable |-> DisableGestureSensor]

\* A sensor that was not reset with the controller may hold anything of an
\* earlier life; one bit of each register stands for that.
Init ==
  /\ enable \in {{}, {POWER, PROXIMITY, WAIT_TIME, GESTURE}}
  /\ plain = {}
  /\ fields \in {Zeros, [Ones EXCEPT !.GCONF4.rest = 0]}
  /\ call = "none"
  /\ steps = << >>
  /\ result = TRUE
  /\ calls = 0
  /\ fails = 0
  /\ clean = TRUE

\* app_init makes the first two calls; the state machine of scheduler.c does not
\* know of the second and begins with another like it.
NextCall == [none |-> "init", init |-> "first", first |-> "enable",
             enable |-> "disable", disable |-> "enable"]

Begin ==
  /\ steps = << >>
  /\ call' = NextCall[call]
  /\ steps' = Body[call']
  /\ calls' = IF call \in {"none", "init"} THEN calls ELSE calls + 1
  /\ calls' <= MaxCalls
  /\ result' = TRUE
  /\ clean' = TRUE
  /\ UNCHANGED <<sensorVars, fails>>
-----------------------------------------------------------------------------
(* One step: its transfers and what it makes of their results.             *)

Failed(ok) == Cardinality({i \in DOMAIN ok : ~ok[i]})

\* Which of n transfers fail.
Fails(n) == {ok \in [1 .. n -> BOOLEAN] : fails + Failed(ok) <= MaxFails}

Count(ok) ==
  /\ fails' = fails + Failed(ok)
  /\ clean' = (clean /\ Failed(ok) = 0)

Return(val) == steps' = << >> /\ result' = val
GoOn == steps' = Tail(steps) /\ UNCHANGED result

\* A failed read of the ID gives 0xFF, which is none of the three.
DoId(s) ==
  /\ s.op = "id"
  /\ \E ok \in Fails(1) :
       /\ Count(ok)
       /\ IF ok[1] THEN GoOn ELSE Return(FALSE)
  /\ UNCHANGED <<sensorVars>>

\* gesture_Write_Register: "not 0" is taken for success.
DoWrite(s) ==
  /\ s.op = "write"
  /\ \E ok \in Fails(1) :
       /\ Count(ok)
       /\ plain' = IF ok[1] THEN plain \cup {s.reg} ELSE plain
  /\ GoOn
  /\ UNCHANGED <<enable, fields>>

\* What a read returns in the data.
ReadOf(r, ok) == IF ok THEN fields[r] ELSE Ones[r]

DoField(s) ==
  /\ s.op = "field"
  /\ \E ok \in Fails(2) :
       /\ Count(ok)
       /\ fields' = IF ok[2] THEN [fields EXCEPT ![s.reg] =
                                     [ReadOf(s.reg, ok[1]) EXCEPT ![s.field] = s.val]]
                    ELSE fields
  /\ GoOn
  /\ UNCHANGED <<enable, plain>>

WithBits(val, s) == IF s.on THEN val \cup s.bits ELSE val \ s.bits

\* Faulty variant: what getMode gives is not looked at.
DoModeUnchecked(s) ==
  /\ s.op = "mode"
  /\ \E ok \in Fails(2) :
       /\ Count(ok)
       /\ enable' = IF ok[2] THEN WithBits(IF ok[1] THEN enable ELSE ERROR, s) ELSE enable
  /\ GoOn
  /\ UNCHANGED <<plain, fields>>

\* setMode, the one that ends a call when it reads 0xFF.
DoMode(s) ==
  /\ s.op = "mode"
  /\ \/ \E ok \in Fails(1) : ~ok[1] /\ Count(ok) /\ Return(FALSE) /\ UNCHANGED enable
     \/ \E ok \in Fails(2) :
          /\ ok[1]
          /\ Count(ok)
          /\ enable' = IF ok[2] THEN WithBits(enable, s) ELSE enable
          /\ GoOn
  /\ UNCHANGED <<plain, fields>>

Step ==
  /\ steps # << >>
  /\ \/ DoId(Head(steps)) \/ DoWrite(Head(steps))
     \/ DoField(Head(steps)) \/ DoMode(Head(steps))
  /\ UNCHANGED <<call, calls>>

Next == Begin \/ Step

Spec == Init /\ [][Next]_vars
-----------------------------------------------------------------------------
(* Properties.                                                             *)

\* Type invariant.
TypeOK ==
  /\ enable \subseteq ALL
  /\ plain \subseteq Plain
  /\ \A r \in DOMAIN Ones : \A f \in DOMAIN Ones[r] : fields[r][f] \in 0 .. Ones[r][f]
  /\ call \in DOMAIN NextCall
  /\ result \in BOOLEAN
  /\ calls \in 0 .. MaxCalls
  /\ fails \in 0 .. MaxFails
  /\ clean \in BOOLEAN

Done(c) == call = c /\ steps = << >>

\* Whatever transfers fail, no feature of the sensor is ever turned on that
\* the program does not use: what a failed read gives is never written back
\* to ENABLE (gesture_main.c:132-155).
EnableIsSane == enable \subseteq {POWER, PROXIMITY, WAIT_TIME, GESTURE}

\* What gesture_init is to have done, GCONF2's three fields side by side.
Initialised ==
  /\ Plain \ {"WTIME", "PPULSE"} \subseteq plain
  /\ fields.GCONF2.GGAIN = 2 /\ fields.GCONF2.GLDRIVE = 0 /\ fields.GCONF2.GWTIME = 1
  /\ fields.GCONF4.GIEN = 0
  /\ enable = {}

\* A call that met no failure leaves the sensor as asked, whatever the failed
\* ones before it, or an earlier life, have left (gesture_main.c:50-125, 333-399).
SensorAsAsked ==
  /\ (Done("first") \/ Done("enable")) /\ clean =>
       /\ {POWER, PROXIMITY, WAIT_TIME, GESTURE} \subseteq enable
       /\ fields.GCONF4.GIEN = 1 /\ fields.GCONF4.GMODE = 1
       /\ {"WTIME", "PPULSE"} \subseteq plain /\ fields.CONFIG2.LED_BOOST = 3
  /\ Done("disable") /\ clean =>
       /\ GESTURE \notin enable
       /\ fields.GCONF4.GIEN = 0 /\ fields.GCONF4.GMODE = 0
  /\ Done("init") /\ clean => Initialised
=============================================================================
