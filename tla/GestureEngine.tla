--------------------------- MODULE GestureEngine ---------------------------
(***************************************************************************)
(* How the server makes a gesture out of the APDS-9960's samples:          *)
(* readGesture, processGestureData, decodeGesture and                      *)
(* resetGestureParameters of src/src/gesture_main.c.                       *)
(*                                                                         *)
(* One call of readGesture is a loop: every 30 ms it takes the samples     *)
(* that are in the FIFO and works them into a few global accumulators,     *)
(* until there is none; then it decodes the accumulators and resets them.  *)
(* The register functions of gesture_i2c.c return a value that is not zero *)
(* on an error too, with 0xFF as the data, and no caller notices.  Other   *)
(* registers than the status, the level and the FIFO are left out.         *)
(***************************************************************************)
EXTENDS Integers, Sequences, FiniteSetsExt

CONSTANTS Batches,     \* contents of the FIFO: sequences of samples
          MaxBatches,  \* bound: FIFOs read in one call
          MaxReads,    \* bound: calls of readGesture
          MayFail      \* whether an I2C transfer may fail

ASSUME BatchAssumption ==
  \A b \in Batches :
    /\ b \in Seq([u : 0 .. 255, d : 0 .. 255, l : 0 .. 255, r : 0 .. 255])
    /\ Len(b) <= 32
ASSUME BoundAssumption == MaxBatches \in Nat /\ MaxReads \in Nat

VARIABLES
  pc,           \* "idle", "reading", or "corrupt" after an overrun
  ud_delta,     \* gesture_ud_delta_
  lr_delta,     \* gesture_lr_delta_
  ud_count,     \* gesture_ud_count_
  lr_count,     \* gesture_lr_count_
  near_count,   \* gesture_near_count_
  far_count,    \* gesture_far_count_
  state,        \* gesture_state_
  motion,       \* gesture_motion_
  result,       \* what readGesture returned, and the deltas it decoded
  batches,      \* history: FIFOs read in this call
  failed,       \* history: a call has returned on a failed read
  reads         \* history: calls so far

swipeVars == <<ud_delta, lr_delta, ud_count, lr_count>>
stillVars == <<near_count, far_count, state, motion>>
paramVars == <<swipeVars, stillVars>>
historyVars == <<batches, failed, reads>>
vars == <<pc, paramVars, result, historyVars>>

DIR_NONE == 0
DIR_LEFT == 1
DIR_RIGHT == 2
DIR_UP == 3
DIR_DOWN == 4
DIR_NEAR == 5
DIR_FAR == 6
Swipes == DIR_LEFT .. DIR_DOWN
ERROR == 255

GESTURE_THRESHOLD_OUT == 10
GESTURE_SENSITIVITY_1 == 50
GESTURE_SENSITIVITY_2 == 20
MAX_SAMPLES == 32    \* of the arrays u_data, d_data, l_data and r_data

Sample(u, d, l, r) == [u |-> u, d |-> d, l |-> l, r |-> r]
NoResult == [motion |-> DIR_NONE, ud |-> 0, lr |-> 0]
Result(m) == [motion |-> m, ud |-> ud_delta, lr |-> lr_delta]

Init ==
  /\ pc = "idle"
  /\ ud_delta = 0 /\ lr_delta = 0 /\ ud_count = 0 /\ lr_count = 0
  /\ near_count = 0 /\ far_count = 0
  /\ state = "NA_STATE" /\ motion = DIR_NONE
  /\ result = NoResult
  /\ batches = 0 /\ failed = FALSE /\ reads = 0
-----------------------------------------------------------------------------
(* processGestureData.                                                     *)

Abs(x) == IF x < 0 THEN -x ELSE x

\* Division of C; a division by zero gives 0 on this core.
Quotient(a, b) ==
  IF b = 0 THEN 0 ELSE IF a < 0 THEN -((-a) \div b) ELSE a \div b

Ratio(x, y) == Quotient((x - y) * 100, x + y)

Loud(s) ==
  \/ s.u > GESTURE_THRESHOLD_OUT /\ s.d > GESTURE_THRESHOLD_OUT
  \/ s.l > GESTURE_THRESHOLD_OUT /\ s.r > GESTURE_THRESHOLD_OUT

LoudOnes(b) == {i \in DOMAIN b : Loud(b[i])}
First(b) == IF LoudOnes(b) = {} THEN Sample(1, 1, 1, 1) ELSE b[Min(LoudOnes(b))]
Last(b)  == IF LoudOnes(b) = {} THEN Sample(1, 1, 1, 1) ELSE b[Max(LoudOnes(b))]

UpDown(b) == Ratio(Last(b).u, Last(b).d) - Ratio(First(b).u, First(b).d)
LeftRight(b) == Ratio(Last(b).l, Last(b).r) - Ratio(First(b).l, First(b).r)

\* Which way the accumulated difference tells.
Side(delta) ==
  IF delta >= GESTURE_SENSITIVITY_1 THEN 1
  ELSE IF delta <= -GESTURE_SENSITIVITY_1 THEN -1 ELSE 0

IsSmall(d) == Abs(d) < GESTURE_SENSITIVITY_2

\* Ten batches without motion end a swipe that had begun, ...
Settles(ud, lr) ==
  /\ near_count' = IF ud = 0 /\ lr = 0 THEN near_count + 1 ELSE near_count
  /\ UNCHANGED <<far_count, state, motion>>
  /\ \/ /\ IsSmall(ud) /\ IsSmall(lr) /\ near_count' >= 10
        /\ ud_delta' = 0 /\ lr_delta' = 0 /\ ud_count' = 0 /\ lr_count' = 0
     \/ /\ ~(IsSmall(ud) /\ IsSmall(lr) /\ near_count' >= 10)
        /\ ud_delta' = ud_delta + ud
        /\ lr_delta' = lr_delta + lr
        /\ ud_count' = Side(ud_delta + ud)
        /\ lr_count' = Side(lr_delta + lr)

\* ... and, when none had, tell near from far; decodeGesture is called then.
Hovers(ud, lr) ==
  /\ ud_delta' = ud_delta + ud
  /\ lr_delta' = lr_delta + lr
  /\ ud_count' = 0
  /\ lr_count' = 0
  /\ LET small == IsSmall(ud) /\ IsSmall(lr)
         still == ud = 0 /\ lr = 0
         seen  == small /\ near_count' >= 10 /\ far_count' >= 2
     IN  /\ near_count' = IF still THEN near_count + 1 ELSE near_count
         /\ far_count' = IF small /\ ~still THEN far_count + 1 ELSE far_count
         /\ state' = IF seen /\ still THEN "NEAR_STATE"
                     ELSE IF seen /\ ud # 0 /\ lr # 0 THEN "FAR_STATE" ELSE state
         /\ motion' = IF seen /\ state' = "NEAR_STATE" THEN DIR_NEAR
                      ELSE IF seen /\ state' = "FAR_STATE" THEN DIR_FAR ELSE motion

Accumulate(b) ==
  LET ud == UpDown(b)
      lr == LeftRight(b)
  IN  \/ /\ Side(ud_delta + ud) = 0 /\ Side(lr_delta + lr) = 0
         /\ Hovers(ud, lr)
      \/ /\ Side(ud_delta + ud) # 0 \/ Side(lr_delta + lr) # 0
         /\ Settles(ud, lr)

IsEnough(b) == Len(b) > 4

processGestureData(b) ==
  \/ /\ IsEnough(b)
     /\ Accumulate(b)
  \/ /\ ~IsEnough(b)
     /\ UNCHANGED paramVars
-----------------------------------------------------------------------------
(* decodeGesture.                                                          *)

Vertical == IF ud_count = -1 THEN DIR_UP ELSE DIR_DOWN
Horizontal == IF lr_count = -1 THEN DIR_LEFT ELSE DIR_RIGHT

\* Faulty variant: a diagonal is decided for the smaller difference.
SwipeMinor ==
  IF lr_count = 0 THEN Vertical
  ELSE IF ud_count = 0 THEN Horizontal
  ELSE IF Abs(ud_delta) < Abs(lr_delta) THEN Vertical ELSE Horizontal

\* A diagonal goes to the larger difference, to the sides when they are even.
Swipe ==
  IF lr_count = 0 THEN Vertical
  ELSE IF ud_count = 0 THEN Horizontal
  ELSE IF Abs(ud_delta) > Abs(lr_delta) THEN Vertical ELSE Horizontal

Decoded ==
  IF state = "NEAR_STATE" THEN DIR_NEAR
  ELSE IF state = "FAR_STATE" THEN DIR_FAR
  ELSE IF ud_count # 0 \/ lr_count # 0 THEN Swipe
  ELSE motion
-----------------------------------------------------------------------------
(* readGesture and the functions that reset.                               *)

\* Faulty variant: the still batches are not forgotten.
resetGestureParametersButNear ==
  /\ ud_delta' = 0 /\ lr_delta' = 0 /\ ud_count' = 0 /\ lr_count' = 0
  /\ far_count' = 0
  /\ state' = "NA_STATE" /\ motion' = DIR_NONE
  /\ UNCHANGED near_count

resetGestureParameters ==
  /\ ud_delta' = 0 /\ lr_delta' = 0 /\ ud_count' = 0 /\ lr_count' = 0
  /\ near_count' = 0 /\ far_count' = 0
  /\ state' = "NA_STATE" /\ motion' = DIR_NONE

\* GSTATUS.GVALID and ENABLE allow it, or cannot be read.
BeginRead ==
  /\ pc = "idle"
  /\ reads < MaxReads
  /\ pc' = "reading"
  /\ reads' = reads + 1
  /\ batches' = 0
  /\ result' = NoResult
  /\ UNCHANGED <<paramVars, failed>>

\* There is no valid gesture.
NothingToRead ==
  /\ pc = "idle"
  /\ result' = NoResult
  /\ UNCHANGED <<pc, paramVars, historyVars>>

ReadFifo(b) ==
  /\ pc = "reading"
  /\ batches < MaxBatches
  /\ batches' = batches + 1
  /\ processGestureData(b)
  /\ UNCHANGED <<pc, result, failed, reads>>

\* The FIFO is empty: the call returns what it decodes.
EndRead ==
  /\ pc = "reading"
  /\ pc' = "idle"
  /\ result' = Result(Decoded)
  /\ resetGestureParameters
  /\ UNCHANGED historyVars

\* The block read is answered NACK, which is -1 and the one error it tests.
FailBlock ==
  /\ MayFail
  /\ pc = "reading"
  /\ pc' = "idle"
  /\ result' = Result(ERROR)
  /\ failed' = TRUE
  /\ UNCHANGED <<paramVars, batches, reads>>

\* The samples stored when the level is read as 255: (uint8_t) (255 * 4) bytes.
Misread == ((255 * 4) % 256) \div 4

(* The level read fails and gives 255, and the block read that follows     *)
(* succeeds.  The samples stored overrun their arrays before anything is   *)
(* compared with their size, and what happens then is undefined.           *)
FailLevel ==
  /\ MayFail
  /\ pc = "reading"
  /\ Misread > MAX_SAMPLES
  /\ pc' = "corrupt"
  /\ failed' = TRUE
  /\ UNCHANGED <<paramVars, result, batches, reads>>

\* enableGestureSensor and disableGestureSensor, between two gestures.
SwitchSensor ==
  /\ pc = "idle"
  /\ resetGestureParameters
  /\ UNCHANGED <<pc, result, historyVars>>

readGesture ==
  \/ BeginRead
  \/ NothingToRead
  \/ \E b \in Batches : ReadFifo(b)
  \/ EndRead
  \/ FailBlock
  \/ FailLevel

Next == readGesture \/ SwitchSensor

Spec == Init /\ [][Next]_vars
-----------------------------------------------------------------------------
(* Properties.                                                             *)

\* Type invariant.
TypeOK ==
  /\ pc \in {"idle", "reading", "corrupt"}
  /\ ud_delta \in Int /\ lr_delta \in Int
  /\ ud_count \in {-1, 0, 1} /\ lr_count \in {-1, 0, 1}
  /\ near_count \in Nat /\ far_count \in Nat
  /\ state \in {"NA_STATE", "NEAR_STATE", "FAR_STATE"}
  /\ motion \in {DIR_NONE, DIR_NEAR, DIR_FAR}
  /\ result \in [motion : DIR_NONE .. DIR_FAR \cup {ERROR}, ud : Int, lr : Int]
  /\ failed \in BOOLEAN
  /\ batches \in 0 .. MaxBatches
  /\ reads \in 0 .. MaxReads

\* Near and far are told of a hand that stayed: of at least ten batches
\* without motion and two with little of it, all of this call.  Nothing that
\* was counted in an earlier call is counted again, unless one returned on a
\* failed read, which resets nothing (gesture_main.c:487-494, 566-582, 687-700).
HoverTakesTwelve ==
  (result.motion \in {DIR_NEAR, DIR_FAR} /\ ~failed) => batches >= 12

\* The counts, kept apart from the deltas in the code, say what the deltas
\* say after any number of batches, settled swipes included.
CountsFollowDeltas == ud_count = Side(ud_delta) /\ lr_count = Side(lr_delta)

\* What a call returns is what the hand did: a swipe along the axis and in
\* the direction of the larger accumulated difference, and no swipe when
\* neither difference reaches 50, the thresholds of decodeGesture taken
\* from its eight cases (gesture_main.c:734-783).
SwipeFollowsDeltas ==
  LET m == result.motion
      along  == IF m \in {DIR_UP, DIR_DOWN} THEN result.ud ELSE result.lr
      across == IF m \in {DIR_UP, DIR_DOWN} THEN result.lr ELSE result.ud
  IN  /\ m \in Swipes =>
           /\ m \in {DIR_UP, DIR_LEFT} => along <= -50
           /\ m \in {DIR_DOWN, DIR_RIGHT} => along >= 50
           /\ Abs(across) >= 50 => Abs(along) >= Abs(across)
      /\ m = DIR_NONE => Abs(result.ud) < 50 /\ Abs(result.lr) < 50

\* "Number corresponding to gesture. -1 on error." (gesture_main.c:446): what
\* gesture_main sends to the client is a gesture.
ReturnsAGesture == result.motion \in DIR_NONE .. DIR_FAR \cup {-1}
=============================================================================
