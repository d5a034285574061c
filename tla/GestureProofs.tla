--------------------------- MODULE GestureProofs ---------------------------
(***************************************************************************)
(* What the gesture engine keeps for every FIFO content, and any number of *)
(* batches and of gestures.                                                *)
(*                                                                         *)
(* The counts follow the deltas whatever those are.  That near and far     *)
(* take twelve batches needs what the counters count: batches of this call *)
(* and nothing older, and a state that only the counters can bring about.  *)
(***************************************************************************)
EXTENDS MCGestureEngine, WellFoundedInduction, FiniteSetTheorems, TLAPS

LEMMA LeastOf ==
  ASSUME NEW S \in SUBSET Nat, S # {}
  PROVE  \E n \in S : \A m \in S : n <= m
<1> DEFINE R == OpToRel(<, Nat)
<1>1. IsWellFoundedOn(R, Nat)
  BY NatLessThanWellFounded
<1>2. PICK n \in S : \A m \in S : <<m, n>> \notin R
  BY <1>1, WFMin
<1>3. \A i, j \in Nat : i < j => <<i, j>> \in R
  BY DEF OpToRel
<1>4. \A m \in S : ~(m < n)
  <2> HIDE DEF R
  <2> QED
    BY <1>2, <1>3
<1>5. \A i, j \in Nat : ~(i < j) => j <= i
  OBVIOUS
<1> QED
  BY <1>4, <1>5

LEMMA MinOf ==
  ASSUME NEW S \in SUBSET Nat, S # {}
  PROVE  Min(S) \in S
BY LeastOf DEF Min

LEMMA MaxOf ==
  ASSUME NEW k \in Nat, NEW S \in SUBSET (0 .. k), S # {}
  PROVE  Max(S) \in S
<1> DEFINE T == {k - i : i \in S}
<1>1. PICK n \in T : \A m \in T : n <= m
  <2>1. T \in SUBSET Nat /\ T # {}
    <3>1. \A i \in 0 .. k : k - i \in Nat
      OBVIOUS
    <3>2. \A i \in S : k - i \in Nat
      BY <3>1
    <3> QED
      BY <3>2
  <2> HIDE DEF T
  <2> QED
    BY <2>1, LeastOf
<1>2. PICK x \in S : n = k - x
  BY <1>1
<1>3. \A y \in S : x >= y
  <2> TAKE y \in S
  <2>1. k - x <= k - y
    BY <1>1, <1>2
  <2>2. x \in 0 .. k /\ y \in 0 .. k
    OBVIOUS
  <2> QED
    BY <2>1, <2>2
<1> QED
  BY <1>2, <1>3 DEF Max

\* What is compared is a sample, and the quotients of its values are integers.
LEMMA DifferencesAreIntegers ==
  ASSUME NEW b \in Batches
  PROVE  UpDown(b) \in Int /\ LeftRight(b) \in Int
<1> DEFINE Samples == [u : 0 .. 255, d : 0 .. 255, l : 0 .. 255, r : 0 .. 255]
<1>1. b \in Seq(Samples) /\ Len(b) \in Nat /\ DOMAIN b = 1 .. Len(b)
  BY BatchAssumption
<1>2. \A i \in DOMAIN b : b[i] \in Samples
  <2> HIDE DEF Samples
  <2> QED
    BY <1>1
<1>3. Sample(1, 1, 1, 1) \in Samples
  BY DEF Sample
<1>4. First(b) \in Samples /\ Last(b) \in Samples
  <2>1. CASE LoudOnes(b) = {}
    BY <2>1, <1>3 DEF First, Last
  <2>2. CASE LoudOnes(b) # {}
    <3>1. LoudOnes(b) \in SUBSET Nat /\ LoudOnes(b) \in SUBSET (0 .. Len(b))
      BY <1>1 DEF LoudOnes
    <3>2. Min(LoudOnes(b)) \in LoudOnes(b) /\ Max(LoudOnes(b)) \in LoudOnes(b)
      BY <1>1, <2>2, <3>1, MinOf, MaxOf
    <3>3. LoudOnes(b) \subseteq DOMAIN b
      BY DEF LoudOnes
    <3> QED
      BY <1>2, <2>2, <3>2, <3>3 DEF First, Last
  <2> QED
    BY <2>1, <2>2
<1>5. \A x, y \in 0 .. 255 : Ratio(x, y) \in Int
  <2> TAKE x \in 0 .. 255, y \in 0 .. 255
  <2>1. (x - y) * 100 \in Int /\ x + y \in Nat
    OBVIOUS
  <2>2. \A a \in Int, n \in Nat : Quotient(a, n) \in Int
    BY DEF Quotient
  <2> QED
    BY <2>1, <2>2 DEF Ratio
<1>6. \A s \in Samples : /\ Ratio(s.u, s.d) \in Int
                        /\ Ratio(s.l, s.r) \in Int
  BY <1>5
<1> HIDE DEF Samples
<1>7. \A s, t \in Samples :
        /\ Ratio(s.u, s.d) - Ratio(t.u, t.d) \in Int
        /\ Ratio(s.l, s.r) - Ratio(t.l, t.r) \in Int
  BY <1>6
<1> QED
  BY <1>4, <1>7 DEF UpDown, LeftRight
-----------------------------------------------------------------------------
LEMMA TypeStep ==
  ASSUME TypeOK, [Next]_vars PROVE TypeOK'
<1> USE BoundAssumption DEF TypeOK
<1>1. NoResult \in [motion : DIR_NONE .. DIR_FAR \cup {ERROR}, ud : Int, lr : Int]
  BY DEF NoResult, DIR_NONE, DIR_FAR
<1>2. CASE BeginRead
  BY <1>1, <1>2 DEF BeginRead, paramVars, swipeVars, stillVars
<1>3. CASE NothingToRead
  BY <1>1, <1>3 DEF NothingToRead, paramVars, swipeVars, stillVars, historyVars
<1>4. ASSUME NEW b \in Batches, ReadFifo(b) PROVE TypeOK'
  <2>1. UpDown(b) \in Int /\ LeftRight(b) \in Int
    BY DifferencesAreIntegers
  <2>2. \A x \in Int : Side(x) \in {-1, 0, 1}
    BY DEF Side
  <2>3. CASE ~IsEnough(b)
    BY <1>4, <2>3
       DEF ReadFifo, processGestureData, paramVars, swipeVars, stillVars
  <2>4. CASE Hovers(UpDown(b), LeftRight(b))
    <3>1. motion' \in {DIR_NONE, DIR_NEAR, DIR_FAR}
      BY <2>4 DEF Hovers
    <3>2. state' \in {"NA_STATE", "NEAR_STATE", "FAR_STATE"}
      BY <2>4 DEF Hovers
    <3>3. near_count' \in Nat /\ far_count' \in Nat
      BY <2>4 DEF Hovers
    <3>4. ud_delta' \in Int /\ lr_delta' \in Int /\ ud_count' = 0 /\ lr_count' = 0
      BY <2>1, <2>4 DEF Hovers
    <3> QED
      BY <1>4, <3>1, <3>2, <3>3, <3>4 DEF ReadFifo
  <2>5. CASE Settles(UpDown(b), LeftRight(b))
    BY <1>4, <2>1, <2>2, <2>5 DEF ReadFifo, Settles
  <2> QED
    BY <1>4, <2>3, <2>4, <2>5 DEF ReadFifo, processGestureData, Accumulate
<1>5. CASE EndRead
  <2>1. Decoded \in DIR_NONE .. DIR_FAR
    BY DEF Decoded, Swipe, Vertical, Horizontal, DIR_NONE, DIR_LEFT, DIR_RIGHT,
           DIR_UP, DIR_DOWN, DIR_NEAR, DIR_FAR
  <2> QED
    BY <1>5, <2>1
       DEF EndRead, Result, resetGestureParameters, historyVars
<1>6. CASE FailBlock
  BY <1>6 DEF FailBlock, Result, paramVars, swipeVars, stillVars, historyVars
<1>7. CASE FailLevel
  BY <1>7 DEF FailLevel, paramVars, swipeVars, stillVars
<1>8. CASE SwitchSensor
  BY <1>8 DEF SwitchSensor, resetGestureParameters, historyVars
<1>9. CASE UNCHANGED vars
  BY <1>9 DEF vars, paramVars, swipeVars, stillVars, historyVars
<1> QED
  BY <1>2, <1>3, <1>4, <1>5, <1>6, <1>7, <1>8, <1>9 DEF Next, readGesture

\* The accumulators stay integers, whatever the FIFO held.
THEOREM TypeCorrect == Spec => []TypeOK
<1>1. Init => TypeOK
  <2>1. Init => failed \in BOOLEAN
    BY Zenon DEF Init
  <2> QED
    BY <2>1, BoundAssumption DEF Init, TypeOK, NoResult, DIR_NONE, DIR_FAR
<1>2. TypeOK /\ [Next]_vars => TypeOK'
  BY TypeStep
<1> QED
  BY <1>1, <1>2, PTL DEF Spec
-----------------------------------------------------------------------------
LEMMA CountsStep ==
  ASSUME CountsFollowDeltas, [Next]_vars PROVE CountsFollowDeltas'
<1> USE DEF CountsFollowDeltas
<1>1. Side(0) = 0
  BY DEF Side, GESTURE_SENSITIVITY_1
<1>2. ASSUME NEW b \in Batches, ReadFifo(b) PROVE CountsFollowDeltas'
  <2>1. CASE ~IsEnough(b)
    BY <1>2, <2>1
       DEF ReadFifo, processGestureData, paramVars, swipeVars
  <2>2. CASE Accumulate(b)
    <3>1. CASE /\ Side(ud_delta + UpDown(b)) = 0
               /\ Side(lr_delta + LeftRight(b)) = 0
               /\ Hovers(UpDown(b), LeftRight(b))
      BY <3>1 DEF Hovers
    <3>2. CASE Settles(UpDown(b), LeftRight(b))
      BY <1>1, <3>2 DEF Settles
    <3> QED
      BY <2>2, <3>1, <3>2 DEF Accumulate
  <2> QED
    BY <1>2, <2>1, <2>2 DEF ReadFifo, processGestureData
<1>3. ASSUME resetGestureParameters PROVE CountsFollowDeltas'
  BY <1>1, <1>3 DEF resetGestureParameters
<1>4. ASSUME UNCHANGED paramVars PROVE CountsFollowDeltas'
  BY <1>4 DEF paramVars, swipeVars
<1> QED
  BY <1>2, <1>3, <1>4
     DEF Next, readGesture, BeginRead, NothingToRead, EndRead, FailBlock,
         FailLevel, SwitchSensor, vars

\* The counts and the deltas never disagree: not when a swipe settles, and
\* not when a failed read leaves the accumulators as they were.
THEOREM CountsAgree == Spec => []CountsFollowDeltas
<1>1. Init => CountsFollowDeltas
  BY DEF Init, CountsFollowDeltas, Side, GESTURE_SENSITIVITY_1
<1>2. CountsFollowDeltas /\ [Next]_vars => CountsFollowDeltas'
  BY CountsStep
<1> QED
  BY <1>1, <1>2, PTL DEF Spec
-----------------------------------------------------------------------------
LEMMA DecodedFollows ==
  ASSUME TypeOK, CountsFollowDeltas, motion \in {DIR_NONE, DIR_NEAR, DIR_FAR},
         result' = Result(Decoded)
  PROVE  SwipeFollowsDeltas'
<1> USE DEF DIR_NONE, DIR_LEFT, DIR_RIGHT, DIR_UP, DIR_DOWN, DIR_NEAR, DIR_FAR,
            Swipes
<1>1. /\ ud_delta \in Int /\ lr_delta \in Int
      /\ ud_count = Side(ud_delta) /\ lr_count = Side(lr_delta)
  BY DEF TypeOK, CountsFollowDeltas
<1> DEFINE m == Decoded
<1>2. result'.motion = m /\ result'.ud = ud_delta /\ result'.lr = lr_delta
  BY DEF Result
<1>3. CASE m \in {DIR_NEAR, DIR_FAR}
  BY <1>2, <1>3 DEF SwipeFollowsDeltas
<1>4. CASE m \notin {DIR_NEAR, DIR_FAR} /\ ud_count = 0 /\ lr_count = 0
  <2>1. m = DIR_NONE
    BY <1>4 DEF Decoded
  <2>2. Abs(ud_delta) < 50 /\ Abs(lr_delta) < 50
    BY <1>1, <1>4 DEF Abs, Side, GESTURE_SENSITIVITY_1
  <2> QED
    BY <1>2, <2>1, <2>2 DEF SwipeFollowsDeltas
<1>5. CASE m \notin {DIR_NEAR, DIR_FAR} /\ ~(ud_count = 0 /\ lr_count = 0)
  <2>1. m = Swipe
    BY <1>5 DEF Decoded
  <2>2. CASE m \in {DIR_UP, DIR_DOWN}
    <3>1. /\ ud_count # 0
          /\ m = DIR_UP => ud_delta <= -50
          /\ m = DIR_DOWN => ud_delta >= 50
      BY <1>1, <1>5, <2>1, <2>2
         DEF Swipe, Vertical, Horizontal, Side, GESTURE_SENSITIVITY_1
    <3>2. Abs(lr_delta) >= 50 => Abs(ud_delta) >= Abs(lr_delta)
      BY <1>1, <2>1, <2>2
         DEF Swipe, Vertical, Horizontal, Abs, Side, GESTURE_SENSITIVITY_1
    <3> QED
      BY <1>2, <2>2, <3>1, <3>2 DEF SwipeFollowsDeltas
  <2>3. CASE m \in {DIR_LEFT, DIR_RIGHT}
    <3>1. /\ m = DIR_LEFT => lr_delta <= -50
          /\ m = DIR_RIGHT => lr_delta >= 50
      BY <1>1, <1>5, <2>1, <2>3
         DEF Swipe, Vertical, Horizontal, Side, GESTURE_SENSITIVITY_1
    <3>2. Abs(ud_delta) >= 50 => Abs(lr_delta) >= Abs(ud_delta)
      BY <1>1, <2>1, <2>3
         DEF Swipe, Vertical, Horizontal, Abs, Side, GESTURE_SENSITIVITY_1
    <3> QED
      BY <1>2, <2>3, <3>1, <3>2 DEF SwipeFollowsDeltas
  <2> QED
    BY <2>1, <2>2, <2>3 DEF Swipe, Vertical, Horizontal
<1> QED
  BY <1>3, <1>4, <1>5

LEMMA SwipeStep ==
  ASSUME TypeOK, CountsFollowDeltas, SwipeFollowsDeltas, [Next]_vars
  PROVE  SwipeFollowsDeltas'
<1>1. CASE EndRead
  BY <1>1, DecodedFollows DEF EndRead, TypeOK
<1>2. ASSUME result' = NoResult PROVE SwipeFollowsDeltas'
  BY <1>2 DEF SwipeFollowsDeltas, NoResult, Swipes, Abs, DIR_NONE, DIR_LEFT,
              DIR_RIGHT, DIR_UP, DIR_DOWN
<1>3. CASE FailBlock
  BY <1>3 DEF FailBlock, Result, SwipeFollowsDeltas, Swipes, ERROR, DIR_NONE,
              DIR_LEFT, DIR_DOWN
<1>4. ASSUME UNCHANGED result PROVE SwipeFollowsDeltas'
  BY <1>4 DEF SwipeFollowsDeltas
<1> QED
  BY <1>1, <1>2, <1>3, <1>4
     DEF Next, readGesture, BeginRead, NothingToRead, ReadFifo, FailLevel,
         SwitchSensor, vars

\* What readGesture returns is the larger of the accumulated differences,
\* with its sign, on every path, a read after a failed one included.
THEOREM SwipeIsTheLarger == Spec => []SwipeFollowsDeltas
<1>1. Init => SwipeFollowsDeltas
  BY DEF Init, SwipeFollowsDeltas, NoResult, Swipes, Abs, DIR_NONE, DIR_LEFT,
         DIR_RIGHT, DIR_UP, DIR_DOWN
<1>2. TypeOK /\ CountsFollowDeltas /\ SwipeFollowsDeltas /\ [Next]_vars
        => SwipeFollowsDeltas'
  BY SwipeStep
<1> QED
  BY <1>1, <1>2, TypeCorrect, CountsAgree, PTL DEF Spec
-----------------------------------------------------------------------------
\* What the near and far counters stand for, when no read fails.
HoverInv ==
  ~failed =>
    /\ pc # "corrupt"
    /\ pc = "idle" => near_count = 0 /\ far_count = 0
    /\ pc = "reading" => /\ near_count + far_count <= batches
                         /\ result.motion = DIR_NONE
    /\ state # "NA_STATE" \/ motion # DIR_NONE => near_count >= 10 /\ far_count >= 2

LEMMA HoverStep ==
  ASSUME TypeOK, HoverInv, HoverTakesTwelve, [Next]_vars, ~failed'
  PROVE  HoverInv' /\ HoverTakesTwelve'
<1> USE DEF HoverInv, HoverTakesTwelve, DIR_NONE, DIR_NEAR, DIR_FAR
<1>1. CASE BeginRead
  BY <1>1 DEF BeginRead, NoResult, paramVars, stillVars, TypeOK
<1>2. CASE NothingToRead
  BY <1>2 DEF NothingToRead, NoResult, paramVars, stillVars, historyVars
<1>3. ASSUME NEW b \in Batches, ReadFifo(b)
      PROVE  HoverInv' /\ HoverTakesTwelve'
  <2>1. /\ pc = "reading" /\ UNCHANGED <<pc, result, failed>> /\ batches' = batches + 1
        /\ near_count \in Nat /\ far_count \in Nat /\ batches \in Nat
    BY <1>3, BoundAssumption DEF ReadFifo, TypeOK
  <2>2. CASE ~IsEnough(b)
    BY <1>3, <2>1, <2>2 DEF ReadFifo, processGestureData, paramVars, stillVars
  <2>3. CASE Settles(UpDown(b), LeftRight(b))
    <3>1. /\ near_count' = near_count \/ near_count' = near_count + 1
          /\ far_count' = far_count /\ state' = state /\ motion' = motion
      BY <2>3 DEF Settles
    <3>2. near_count' >= near_count /\ near_count' \in Nat
      BY <2>1, <3>1
    <3>3. near_count' + far_count' <= batches'
      BY <2>1, <3>1
    <3>4. state' # "NA_STATE" \/ motion' # DIR_NONE
            => near_count' >= 10 /\ far_count' >= 2
      BY <2>1, <3>1, <3>2
    <3> QED
      BY <2>1, <3>3, <3>4
  <2>4. CASE Hovers(UpDown(b), LeftRight(b))
    <3>1. \/ near_count' = near_count + 1 /\ far_count' = far_count
          \/ near_count' = near_count /\ far_count' = far_count + 1
          \/ near_count' = near_count /\ far_count' = far_count
      BY <2>4 DEF Hovers
    <3>2. \/ UNCHANGED <<state, motion>>
          \/ near_count' >= 10 /\ far_count' >= 2
      BY <2>4 DEF Hovers
    <3>3. near_count' >= near_count /\ far_count' >= far_count
      BY <2>1, <3>1
    <3>4. near_count' + far_count' <= batches'
      BY <2>1, <3>1
    <3>5. state' # "NA_STATE" \/ motion' # DIR_NONE
            => near_count' >= 10 /\ far_count' >= 2
      <4>1. CASE UNCHANGED <<state, motion>>
        <5>1. near_count' \in Nat /\ far_count' \in Nat
          BY <2>1, <3>1
        <5> QED
          BY <2>1, <3>3, <4>1, <5>1
      <4> QED
        BY <3>2, <4>1
    <3> QED
      BY <2>1, <3>4, <3>5
  <2> QED
    BY <1>3, <2>2, <2>3, <2>4 DEF ReadFifo, processGestureData, Accumulate
<1>4. CASE EndRead
  <2>1. Decoded \in {DIR_NEAR, DIR_FAR} => state # "NA_STATE" \/ motion # DIR_NONE
    BY DEF Decoded, Swipe, Vertical, Horizontal, DIR_LEFT, DIR_RIGHT, DIR_UP,
           DIR_DOWN
  <2>2. near_count \in Nat /\ far_count \in Nat /\ batches \in Nat
    BY BoundAssumption DEF TypeOK
  <2>3. Decoded \in {DIR_NEAR, DIR_FAR} => batches >= 12
    BY <1>4, <2>1, <2>2 DEF EndRead, historyVars
  <2>4. HoverTakesTwelve'
    BY <1>4, <2>3 DEF EndRead, Result, historyVars
  <2> QED
    BY <1>4, <2>4 DEF EndRead, resetGestureParameters
<1>5. CASE SwitchSensor
  BY <1>5 DEF SwitchSensor, resetGestureParameters, historyVars
<1>6. CASE UNCHANGED vars
  BY <1>6 DEF vars, paramVars, stillVars, historyVars
<1>7. ~FailBlock /\ ~FailLevel
  BY DEF FailBlock, FailLevel
<1> QED
  BY <1>1, <1>2, <1>3, <1>4, <1>5, <1>6, <1>7 DEF Next, readGesture

\* As long as no read has failed, near and far are told of twelve batches of
\* this call: what one call counts does not reach the next.  The exception is
\* the code's: the return after a failed read leaves the counters as they are.
THEOREM HoverIsFresh == Spec => []HoverTakesTwelve
<1>1. Init => HoverInv /\ HoverTakesTwelve
  BY DEF Init, HoverInv, HoverTakesTwelve, NoResult, DIR_NONE, DIR_NEAR, DIR_FAR
<1>2. TypeOK /\ HoverInv /\ HoverTakesTwelve /\ [Next]_vars
        => (HoverInv /\ HoverTakesTwelve)'
  <2>1. ASSUME failed' PROVE HoverInv' /\ HoverTakesTwelve'
    BY <2>1 DEF HoverInv, HoverTakesTwelve
  <2> QED
    BY <2>1, HoverStep
<1> QED
  BY <1>1, <1>2, TypeCorrect, PTL DEF Spec
-----------------------------------------------------------------------------
(* The set-up of the sensor.                                               *)
(*                                                                         *)
(* A call that has met no failure has done each of its steps or has it     *)
(* still to do.  That a step done is not undone by a later one of the same *)
(* call is a matter of what the steps are: no call asks two values of a    *)
(* field, or turns features both on and off.                               *)

Used == {Setup!POWER, Setup!PROXIMITY, Setup!WAIT_TIME, Setup!GESTURE}

Calls == {"init", "first", "enable", "disable"}
TurnsOn(c) == c \in {"first", "enable"}

\* The steps of a call.
Parts(c) == {Setup!Body[c][i] : i \in 1 .. Len(Setup!Body[c])}

\* The value a call asks of a field.
AskedOf(c, f) ==
  IF TurnsOn(c) THEN IF f = "LED_BOOST" THEN 3 ELSE 1
  ELSE IF f = "GGAIN" THEN 2 ELSE IF f = "GWTIME" THEN 1 ELSE 0

Settable == {<<"GCONF2", "GGAIN">>, <<"GCONF2", "GLDRIVE">>, <<"GCONF2", "GWTIME">>,
             <<"GCONF4", "GIEN">>, <<"GCONF4", "GMODE">>, <<"CONFIG2", "LED_BOOST">>}

PartOf(c, s) ==
  \/ s.op = "id"
  \/ s.op = "write"
  \/ /\ s.op = "field"
     /\ <<s.reg, s.field>> \in Settable
     /\ s.val = AskedOf(c, s.field)
  \/ /\ s.op = "mode"
     /\ s.on <=> TurnsOn(c)
     /\ s.on => s.bits \subseteq Used

Effected(s) ==
  /\ s.op = "write" => s.reg \in plain
  /\ s.op = "field" => fields[s.reg][s.field] = s.val
  /\ s.op = "mode" => IF s.on THEN s.bits \subseteq enable ELSE s.bits \cap enable = {}

Remains(s) == \E i \in 1 .. Len(steps) : steps[i] = s

Fielded ==
  /\ DOMAIN fields = DOMAIN Setup!Ones
  /\ \A r \in DOMAIN Setup!Ones : DOMAIN fields[r] = DOMAIN Setup!Ones[r]

CallInv ==
  /\ call \in Calls \cup {"none"}
  /\ call = "none" => steps = << >>
  /\ call # "none" => steps \in Seq(Parts(call))

DoneOrLeft == call # "none" /\ clean => \A s \in Parts(call) : Effected(s) \/ Remains(s)

SetupInv == CallInv /\ enable \subseteq Used /\ Fielded /\ DoneOrLeft

LEMMA StepsAre ==
  ASSUME NEW r, NEW f, NEW v
  PROVE  /\ Setup!ReadId.op = "id"
         /\ Setup!Write(r).op = "write" /\ Setup!Write(r).reg = r
         /\ /\ Setup!SetField(r, f, v).op = "field" /\ Setup!SetField(r, f, v).reg = r
            /\ Setup!SetField(r, f, v).field = f /\ Setup!SetField(r, f, v).val = v
BY DEF Setup!ReadId, Setup!Write, Setup!SetField

LEMMA BodyIs ==
  /\ Setup!Body["init"] = Setup!GestureInit
  /\ Setup!Body["first"] = Setup!EnableGestureSensor
  /\ Setup!Body["enable"] = Setup!EnableGestureSensor
  /\ Setup!Body["disable"] = Setup!DisableGestureSensor
BY DEF Setup!Body

LEMMA IdPart == ASSUME NEW c PROVE PartOf(c, Setup!ReadId)
BY StepsAre DEF PartOf

LEMMA WritePart == ASSUME NEW c, NEW r PROVE PartOf(c, Setup!Write(r))
BY StepsAre DEF PartOf

LEMMA FieldPart ==
  ASSUME NEW c, NEW r, NEW f, NEW v, <<r, f>> \in Settable, v = AskedOf(c, f)
  PROVE  PartOf(c, Setup!SetField(r, f, v))
BY StepsAre DEF PartOf

LEMMA ModeIs ==
  ASSUME NEW bits
  PROVE  /\ LET s == Setup!SetMode(bits, TRUE) IN s.on /\ s.op = "mode" /\ s.bits = bits
         /\ LET s == Setup!SetMode(bits, FALSE) IN ~s.on /\ s.op = "mode" /\ s.bits = bits
BY DEF Setup!SetMode

LEMMA OnPart ==
  ASSUME NEW c, NEW b \in Used, c \in {"first", "enable"}
  PROVE  PartOf(c, Setup!SetMode({b}, TRUE))
<1>1. TurnsOn(c)
  BY DEF TurnsOn
<1>2. /\ Setup!SetMode({b}, TRUE).on
      /\ Setup!SetMode({b}, TRUE).op = "mode"
      /\ Setup!SetMode({b}, TRUE).bits = {b}
  BY ModeIs
<1> QED
  BY <1>1, <1>2 DEF PartOf

LEMMA OffPart ==
  ASSUME NEW c, NEW bits, c \notin {"first", "enable"}
  PROVE  PartOf(c, Setup!SetMode(bits, FALSE))
<1>1. ~TurnsOn(c)
  BY DEF TurnsOn
<1>2. ~Setup!SetMode(bits, FALSE).on /\ Setup!SetMode(bits, FALSE).op = "mode"
  BY ModeIs
<1> QED
  BY <1>1, <1>2 DEF PartOf

LEMMA SeqOf ==
  ASSUME NEW T, NEW n \in Nat, NEW s, s = [i \in 1 .. n |-> s[i]], \A i \in 1 .. n : s[i] \in T
  PROVE  s \in Seq(T)
<1>1. s \in [1 .. n -> T]
  OBVIOUS
<1> QED
  BY <1>1

\* The steps of gesture_init, enableGestureSensor and disableGestureSensor.
LEMMA InitParts ==
  /\ \A i \in 1 .. 15 : Setup!Body["init"][i] \in Parts("init")
  /\ \A t \in Parts("init") : PartOf("init", t)
  /\ Setup!Body["init"] \in Seq(Parts("init"))
<1> DEFINE s == Setup!GestureInit
<1>1. \A i : i \in 1 .. 15 <=> i \in {1, 2, 3, 4, 5, 6, 7, 8, 9, 10, 11, 12, 13, 14, 15}
  OBVIOUS
<1>2. Len(s) = 15
  BY DEF Setup!GestureInit
<1>3. /\ s[1] = Setup!ReadId /\ s[2] = Setup!SetMode(Setup!ALL, FALSE)
      /\ s[3] = Setup!Write("GPENTH") /\ s[4] = Setup!Write("GEXTH")
      /\ s[5] = Setup!Write("GCONF1") /\ s[6] = Setup!SetGestureGain(2)
      /\ s[7] = Setup!SetGestureLEDDrive(0)
      /\ s[8] = Setup!SetGestureWaitTime(1)
      /\ s[9] = Setup!Write("GOFFSET_U") /\ s[10] = Setup!Write("GOFFSET_D")
      /\ s[11] = Setup!Write("GOFFSET_L")
      /\ s[12] = Setup!Write("GOFFSET_R") /\ s[13] = Setup!Write("GPULSE")
      /\ s[14] = Setup!Write("GCONF3") /\ s[15] = Setup!SetGestureIntEnable(0)
  BY DEF Setup!GestureInit
<1>4. Parts("init") = {s[i] : i \in 1 .. Len(s)} /\ Setup!Body["init"] = s
  BY BodyIs DEF Parts
<1> HIDE DEF s
<1>5. /\ PartOf("init", s[1]) /\ PartOf("init", s[3]) /\ PartOf("init", s[4])
      /\ PartOf("init", s[5]) /\ PartOf("init", s[9]) /\ PartOf("init", s[10])
      /\ PartOf("init", s[11]) /\ PartOf("init", s[12]) /\ PartOf("init", s[13])
      /\ PartOf("init", s[14])
  BY <1>3, WritePart, IdPart
<1>6. PartOf("init", s[6])
  <2>1. <<"GCONF2", "GGAIN">> \in Settable /\ 2 = AskedOf("init", "GGAIN")
    BY DEF Settable, AskedOf, TurnsOn
  <2> QED
    BY <1>3, <2>1, FieldPart DEF Setup!SetGestureGain
<1>7. PartOf("init", s[7])
  <2>1. <<"GCONF2", "GLDRIVE">> \in Settable /\ 0 = AskedOf("init", "GLDRIVE")
    BY DEF Settable, AskedOf, TurnsOn
  <2> QED
    BY <1>3, <2>1, FieldPart DEF Setup!SetGestureLEDDrive
<1>8. PartOf("init", s[8])
  <2>1. <<"GCONF2", "GWTIME">> \in Settable /\ 1 = AskedOf("init", "GWTIME")
    BY DEF Settable, AskedOf, TurnsOn
  <2> QED
    BY <1>3, <2>1, FieldPart DEF Setup!SetGestureWaitTime
<1>9. PartOf("init", s[15])
  <2>1. <<"GCONF4", "GIEN">> \in Settable /\ 0 = AskedOf("init", "GIEN")
    BY DEF Settable, AskedOf, TurnsOn
  <2> QED
    BY <1>3, <2>1, FieldPart DEF Setup!SetGestureIntEnable
<1>10. PartOf("init", s[2])
  BY <1>3, OffPart
<1>11. s \in Seq(Parts("init"))
  <2>1. \A i \in 1 .. 15 : s[i] \in Parts("init")
    BY <1>1, <1>2, <1>4
  <2>2. s = [i \in 1 .. 15 |-> s[i]]
    BY DEF s, Setup!GestureInit
  <2> QED
    BY <2>1, <2>2, SeqOf
<1> QED
  BY <1>1, <1>2, <1>4, <1>5, <1>6, <1>7, <1>8, <1>9, <1>10, <1>11

LEMMA EnableParts ==
  ASSUME NEW c \in {"first", "enable"}
  PROVE  /\ \A i \in 1 .. 9 : Setup!Body[c][i] \in Parts(c)
         /\ \A t \in Parts(c) : PartOf(c, t)
         /\ Setup!Body[c] \in Seq(Parts(c))
<1> DEFINE s == Setup!EnableGestureSensor
<1>1. \A i : i \in 1 .. 9 <=> i \in {1, 2, 3, 4, 5, 6, 7, 8, 9}
  OBVIOUS
<1>2. Len(s) = 9
  BY DEF Setup!EnableGestureSensor
<1>3. /\ s[1] = Setup!Write("WTIME") /\ s[2] = Setup!Write("PPULSE")
      /\ s[3] = Setup!SetLEDBoost(3) /\ s[4] = Setup!SetGestureIntEnable(1)
      /\ s[5] = Setup!SetGestureMode(1)
      /\ s[6] = Setup!SetMode({Setup!POWER}, TRUE)
      /\ s[7] = Setup!SetMode({Setup!WAIT_TIME}, TRUE)
      /\ s[8] = Setup!SetMode({Setup!PROXIMITY}, TRUE)
      /\ s[9] = Setup!SetMode({Setup!GESTURE}, TRUE)
  BY DEF Setup!EnableGestureSensor
<1>4. Parts(c) = {s[i] : i \in 1 .. Len(s)} /\ Setup!Body[c] = s
  BY BodyIs DEF Parts
<1> HIDE DEF s
<1>5. /\ PartOf(c, s[1]) /\ PartOf(c, s[2])
  BY <1>3, WritePart
<1>6. PartOf(c, s[3])
  <2>1. <<"CONFIG2", "LED_BOOST">> \in Settable /\ 3 = AskedOf(c, "LED_BOOST")
    BY DEF Settable, AskedOf, TurnsOn
  <2> QED
    BY <1>3, <2>1, FieldPart DEF Setup!SetLEDBoost
<1>7. PartOf(c, s[4])
  <2>1. <<"GCONF4", "GIEN">> \in Settable /\ 1 = AskedOf(c, "GIEN")
    BY DEF Settable, AskedOf, TurnsOn
  <2> QED
    BY <1>3, <2>1, FieldPart DEF Setup!SetGestureIntEnable
<1>8. PartOf(c, s[5])
  <2>1. <<"GCONF4", "GMODE">> \in Settable /\ 1 = AskedOf(c, "GMODE")
    BY DEF Settable, AskedOf, TurnsOn
  <2> QED
    BY <1>3, <2>1, FieldPart DEF Setup!SetGestureMode
<1>9. PartOf(c, s[6])
  <2>1. Setup!POWER \in Used
    BY DEF Used
  <2>2. PartOf(c, Setup!SetMode({Setup!POWER}, TRUE))
    BY <2>1, OnPart
  <2> QED
    BY <1>3, <2>2
<1>10. PartOf(c, s[7])
  <2>1. Setup!WAIT_TIME \in Used
    BY DEF Used
  <2>2. PartOf(c, Setup!SetMode({Setup!WAIT_TIME}, TRUE))
    BY <2>1, OnPart
  <2> QED
    BY <1>3, <2>2
<1>11. PartOf(c, s[8])
  <2>1. Setup!PROXIMITY \in Used
    BY DEF Used
  <2>2. PartOf(c, Setup!SetMode({Setup!PROXIMITY}, TRUE))
    BY <2>1, OnPart
  <2> QED
    BY <1>3, <2>2
<1>12. PartOf(c, s[9])
  <2>1. Setup!GESTURE \in Used
    BY DEF Used
  <2>2. PartOf(c, Setup!SetMode({Setup!GESTURE}, TRUE))
    BY <2>1, OnPart
  <2> QED
    BY <1>3, <2>2
<1>13. s \in Seq(Parts(c))
  <2>1. \A i \in 1 .. 9 : s[i] \in Parts(c)
    BY <1>1, <1>2, <1>4
  <2>2. s = [i \in 1 .. 9 |-> s[i]]
    BY DEF s, Setup!EnableGestureSensor
  <2> QED
    BY <2>1, <2>2, SeqOf
<1> QED
  BY <1>1, <1>2, <1>4, <1>5, <1>6, <1>7, <1>8, <1>9, <1>10, <1>11, <1>12, <1>13

LEMMA DisableParts ==
  /\ \A i \in 1 .. 3 : Setup!Body["disable"][i] \in Parts("disable")
  /\ \A t \in Parts("disable") : PartOf("disable", t)
  /\ Setup!Body["disable"] \in Seq(Parts("disable"))
<1> DEFINE s == Setup!DisableGestureSensor
<1>1. \A i : i \in 1 .. 3 <=> i \in {1, 2, 3}
  OBVIOUS
<1>2. Len(s) = 3
  BY DEF Setup!DisableGestureSensor
<1>3. /\ s[1] = Setup!SetGestureIntEnable(0)
      /\ s[2] = Setup!SetGestureMode(0)
      /\ s[3] = Setup!SetMode({Setup!GESTURE}, FALSE)
  BY DEF Setup!DisableGestureSensor
<1>4. Parts("disable") = {s[i] : i \in 1 .. Len(s)} /\ Setup!Body["disable"] = s
  BY BodyIs DEF Parts
<1> HIDE DEF s
<1>5. PartOf("disable", s[1])
  <2>1. <<"GCONF4", "GIEN">> \in Settable /\ 0 = AskedOf("disable", "GIEN")
    BY DEF Settable, AskedOf, TurnsOn
  <2> QED
    BY <1>3, <2>1, FieldPart DEF Setup!SetGestureIntEnable
<1>6. PartOf("disable", s[2])
  <2>1. <<"GCONF4", "GMODE">> \in Settable /\ 0 = AskedOf("disable", "GMODE")
    BY DEF Settable, AskedOf, TurnsOn
  <2> QED
    BY <1>3, <2>1, FieldPart DEF Setup!SetGestureMode
<1>7. PartOf("disable", s[3])
  BY <1>3, OffPart
<1>8. s \in Seq(Parts("disable"))
  <2>1. \A i \in 1 .. 3 : s[i] \in Parts("disable")
    BY <1>1, <1>2, <1>4
  <2>2. s = [i \in 1 .. 3 |-> s[i]]
    BY DEF s, Setup!DisableGestureSensor
  <2> QED
    BY <2>1, <2>2, SeqOf
<1> QED
  BY <1>1, <1>2, <1>4, <1>5, <1>6, <1>7, <1>8

\* A call's steps are what its body says.
LEMMA PartsAre ==
  ASSUME NEW c \in Calls
  PROVE  /\ \A t \in Parts(c) : PartOf(c, t)
         /\ Setup!Body[c] \in Seq(Parts(c))
         /\ \A t \in Parts(c) :
              \E i \in 1 .. Len(Setup!Body[c]) : Setup!Body[c][i] = t
<1>1. \A t \in Parts(c) : PartOf(c, t)
  BY InitParts, EnableParts, DisableParts DEF Calls
<1>2. Setup!Body[c] \in Seq(Parts(c))
  BY InitParts, EnableParts, DisableParts DEF Calls
<1> QED
  BY <1>1, <1>2 DEF Parts

\* No transfer failed: all went well.
LEMMA NoneFailed ==
  ASSUME NEW n \in Nat, NEW ok \in [1 .. n -> BOOLEAN], Setup!Count(ok), clean'
  PROVE  clean /\ \A i \in 1 .. n : ok[i]
<1> DEFINE S == {i \in 1 .. n : ~ok[i]}
<1>1. clean /\ Setup!Failed(ok) = 0
  BY DEF Setup!Count
<1>2. IsFiniteSet(S)
  BY FS_Interval, FS_Subset
<1>3. Setup!Failed(ok) = Cardinality(S)
  <2>1. DOMAIN ok = 1 .. n
    OBVIOUS
  <2> QED
    BY <2>1 DEF Setup!Failed, Cardinality, Setup!Cardinality, IsFiniteSet, Setup!IsFiniteSet
<1>4. S = {}
  <2> HIDE DEF S
  <2> QED
    BY <1>1, <1>2, <1>3, FS_EmptySet
<1> QED
  BY <1>1, <1>4

\* What a step keeps, and what it does if nothing failed: it takes effect and
\* undoes no other step of its call.
Steps(h) ==
  /\ enable' \subseteq Used /\ Fielded' /\ call' = call
  /\ steps' = << >> \/ steps' = Tail(steps)
  /\ clean' =>
       /\ clean /\ steps' = Tail(steps)
       /\ Effected(h)'
       /\ \A t \in Parts(call) : Effected(t) => Effected(t)'

LEMMA IdStep ==
  ASSUME SetupInv, UNCHANGED <<call, calls>>, NEW h, Setup!DoId(h)
  PROVE  Steps(h)
<1>1. h.op = "id" /\ enable' = enable /\ plain' = plain /\ fields' = fields
  BY DEF Setup!DoId, Setup!sensorVars
<1>2. PICK ok \in Setup!Fails(1) :
        /\ Setup!Count(ok)
        /\ IF ok[1] THEN Setup!GoOn ELSE Setup!Return(FALSE)
  BY DEF Setup!DoId
<1>3. clean' => clean /\ steps' = Tail(steps)
  <2> SUFFICES ASSUME clean' PROVE clean /\ steps' = Tail(steps)
    OBVIOUS
  <2>1. clean /\ ok[1]
    <3>1. 1 \in 1 .. 1
      OBVIOUS
    <3> QED
      BY <1>2, <3>1, NoneFailed DEF Setup!Fails
  <2> QED
    BY <1>2, <2>1 DEF Setup!GoOn
<1>4. steps' = << >> \/ steps' = Tail(steps)
  BY <1>2 DEF Setup!GoOn, Setup!Return
<1>5. Fielded'
  BY <1>1 DEF SetupInv, Fielded
<1>6. Effected(h)' /\ \A t : Effected(t) => Effected(t)'
  BY <1>1 DEF Effected
<1> QED
  BY <1>1, <1>3, <1>4, <1>5, <1>6 DEF SetupInv, Steps

LEMMA WriteStep ==
  ASSUME SetupInv, UNCHANGED <<call, calls>>, NEW h, Setup!DoWrite(h)
  PROVE  Steps(h)
<1>1. h.op = "write" /\ enable' = enable /\ fields' = fields /\ steps' = Tail(steps)
  BY DEF Setup!DoWrite, Setup!GoOn
<1>2. PICK ok \in Setup!Fails(1) :
        /\ Setup!Count(ok)
        /\ plain' = IF ok[1] THEN plain \cup {h.reg} ELSE plain
  BY DEF Setup!DoWrite
<1>3. clean' => clean /\ h.reg \in plain'
  <2> SUFFICES ASSUME clean' PROVE clean /\ h.reg \in plain'
    OBVIOUS
  <2>1. clean /\ ok[1]
    <3>1. 1 \in 1 .. 1
      OBVIOUS
    <3> QED
      BY <1>2, <3>1, NoneFailed DEF Setup!Fails
  <2> QED
    BY <1>2, <2>1
<1>4. plain \subseteq plain'
  BY <1>2
<1>5. Fielded'
  BY <1>1 DEF SetupInv, Fielded
<1>6. clean' => Effected(h)'
  BY <1>1, <1>3 DEF Effected
<1>7. \A t : Effected(t) => Effected(t)'
  BY <1>1, <1>4 DEF Effected
<1> QED
  BY <1>1, <1>3, <1>5, <1>6, <1>7 DEF SetupInv, Steps

\* The registers and their fields.
LEMMA OnesIs ==
  /\ DOMAIN Setup!Ones = {"GCONF2", "GCONF4", "CONFIG2"}
  /\ \A rf \in Settable : rf[1] \in DOMAIN Setup!Ones /\ rf[2] \in DOMAIN Setup!Ones[rf[1]]
BY DEF Setup!Ones, Settable

LEMMA FieldStep ==
  ASSUME SetupInv, UNCHANGED <<call, calls>>, call \in Calls,
         NEW h \in Parts(call), Setup!DoField(h)
  PROVE  Steps(h)
<1> DEFINE r == h.reg
           f == h.field
<1>1. h.op = "field" /\ enable' = enable /\ plain' = plain /\ steps' = Tail(steps)
  BY DEF Setup!DoField, Setup!GoOn
<1>2. PICK ok \in Setup!Fails(2) :
        /\ Setup!Count(ok)
        /\ fields' = IF ok[2] THEN [fields EXCEPT ![r] =
                                     [Setup!ReadOf(r, ok[1]) EXCEPT ![f] = h.val]]
                     ELSE fields
  BY DEF Setup!DoField
<1>3. r \in DOMAIN Setup!Ones /\ f \in DOMAIN Setup!Ones[r] /\ h.val = AskedOf(call, f)
  <2>1. PartOf(call, h)
    BY PartsAre
  <2>2. <<r, f>> \in Settable /\ h.val = AskedOf(call, f)
    BY <1>1, <2>1 DEF PartOf
  <2>3. <<r, f>>[1] = r /\ <<r, f>>[2] = f
    OBVIOUS
  <2> HIDE DEF r, f
  <2> QED
    BY <2>2, <2>3, OnesIs
<1> DEFINE read == Setup!ReadOf(r, ok[1])
           written == [read EXCEPT ![f] = h.val]
<1> HIDE DEF r, f
<1>4. Fielded
  BY DEF SetupInv
<1>5. DOMAIN read = DOMAIN Setup!Ones[r]
  BY <1>3, <1>4 DEF Setup!ReadOf, Fielded
<1> HIDE DEF read
<1>6. DOMAIN written = DOMAIN Setup!Ones[r]
  BY <1>5
<1>7. written[f] = h.val /\ \A g \in DOMAIN Setup!Ones[r] : g # f => written[g] = read[g]
  BY <1>3, <1>5
<1> HIDE DEF written
<1>8. fields' = IF ok[2] THEN [fields EXCEPT ![r] = written] ELSE fields
  BY <1>2 DEF read, written
<1>9. Fielded'
  BY <1>3, <1>4, <1>6, <1>8 DEF Fielded
<1>10. ASSUME clean'
       PROVE  clean /\ Effected(h)' /\ \A t \in Parts(call) : Effected(t) => Effected(t)'
  <2>1. clean /\ ok[1] /\ ok[2]
    <3>1. 1 \in 1 .. 2 /\ 2 \in 1 .. 2
      OBVIOUS
    <3> QED
      BY <1>2, <1>10, <3>1, NoneFailed DEF Setup!Fails
  <2>2. read = fields[r]
    BY <2>1 DEF read, Setup!ReadOf
  <2>3. fields'[r] = written /\ \A q \in DOMAIN Setup!Ones : q # r => fields'[q] = fields[q]
    BY <1>3, <1>4, <1>8, <2>1 DEF Fielded
  <2>4. Effected(h)'
    BY <1>1, <1>7, <2>3 DEF Effected, r, f
  <2>5. ASSUME NEW t \in Parts(call), Effected(t)
        PROVE  Effected(t)'
    <3>1. CASE t.op # "field"
      BY <1>1, <2>5, <3>1 DEF Effected
    <3>2. CASE t.op = "field"
      <4>1. PartOf(call, t)
        BY PartsAre
      <4>2. <<t.reg, t.field>> \in Settable /\ t.val = AskedOf(call, t.field)
        BY <3>2, <4>1 DEF PartOf
      <4>3. t.reg \in DOMAIN Setup!Ones /\ t.field \in DOMAIN Setup!Ones[t.reg]
        <5>1. <<t.reg, t.field>>[1] = t.reg /\ <<t.reg, t.field>>[2] = t.field
          OBVIOUS
        <5> QED
          BY <4>2, <5>1, OnesIs
      <4>4. fields[t.reg][t.field] = t.val
        BY <2>5, <3>2 DEF Effected
      <4>5. fields'[t.reg][t.field] = t.val
        <5>1. CASE t.reg # r
          BY <2>3, <4>3, <4>4, <5>1
        <5>2. CASE t.reg = r /\ t.field # f
          BY <1>7, <2>2, <2>3, <4>3, <4>4, <5>2
        <5>3. CASE t.reg = r /\ t.field = f
          BY <1>3, <1>7, <2>3, <4>2, <5>3
        <5> QED
          BY <5>1, <5>2, <5>3
      <4> QED
        BY <3>2, <4>5 DEF Effected
    <3> QED
      BY <3>1, <3>2
  <2> QED
    BY <2>1, <2>4, <2>5
<1> QED
  BY <1>1, <1>9, <1>10 DEF SetupInv, Steps

LEMMA ModeStep ==
  ASSUME SetupInv, UNCHANGED <<call, calls>>, call \in Calls,
         NEW h \in Parts(call), Setup!DoMode(h)
  PROVE  Steps(h)
<1>1. h.op = "mode" /\ plain' = plain /\ fields' = fields
  BY DEF Setup!DoMode
<1>2. \A t \in Parts(call) : t.op = "mode" =>
        /\ t.on <=> TurnsOn(call)
        /\ t.on => t.bits \subseteq Used
  <2> TAKE t \in Parts(call)
  <2>1. PartOf(call, t)
    BY PartsAre
  <2> QED
    BY <2>1 DEF PartOf
<1>3. Fielded'
  BY <1>1 DEF SetupInv, Fielded
<1>4. enable \subseteq Used
  BY DEF SetupInv
<1>5. CASE \E ok \in Setup!Fails(1) :
             ~ok[1] /\ Setup!Count(ok) /\ Setup!Return(FALSE) /\ UNCHANGED enable
  <2>1. PICK ok \in Setup!Fails(1) :
          ~ok[1] /\ Setup!Count(ok) /\ Setup!Return(FALSE) /\ UNCHANGED enable
    BY <1>5
  <2>2. ~clean'
    <3>1. 1 \in 1 .. 1
      OBVIOUS
    <3> QED
      BY <2>1, <3>1, NoneFailed DEF Setup!Fails
  <2> QED
    BY <1>3, <1>4, <2>1, <2>2 DEF Steps, Setup!Return
<1>6. CASE \E ok \in Setup!Fails(2) :
             /\ ok[1]
             /\ Setup!Count(ok)
             /\ enable' = IF ok[2] THEN Setup!WithBits(enable, h) ELSE enable
             /\ Setup!GoOn
  <2>1. PICK ok \in Setup!Fails(2) :
          /\ ok[1]
          /\ Setup!Count(ok)
          /\ enable' = IF ok[2] THEN Setup!WithBits(enable, h) ELSE enable
          /\ Setup!GoOn
    BY <1>6
  <2>2. enable' \subseteq Used
    <3>1. CASE h.on
      BY <1>1, <1>2, <1>4, <2>1, <3>1 DEF Setup!WithBits
    <3>2. CASE ~h.on
      BY <1>4, <2>1, <3>2 DEF Setup!WithBits
    <3> QED
      BY <3>1, <3>2
  <2>3. ASSUME clean'
        PROVE  clean /\ Effected(h)' /\ \A t \in Parts(call) : Effected(t) => Effected(t)'
    <3>1. clean /\ enable' = Setup!WithBits(enable, h)
      <4>1. 2 \in 1 .. 2
        OBVIOUS
      <4> QED
        BY <2>1, <2>3, <4>1, NoneFailed DEF Setup!Fails
    <3>2. ASSUME NEW t \in Parts(call), Effected(t)
          PROVE  Effected(t)'
      <4>1. CASE t.op # "mode"
        BY <1>1, <3>2, <4>1 DEF Effected
      <4>2. CASE t.op = "mode" /\ t.on
        <5>1. h.on
          BY <1>1, <1>2, <4>2
        <5>2. t.bits \subseteq enable /\ enable \subseteq enable'
          BY <3>1, <3>2, <4>2, <5>1 DEF Effected, Setup!WithBits
        <5> QED
          BY <4>2, <5>2 DEF Effected
      <4>3. CASE t.op = "mode" /\ ~t.on
        <5>1. ~h.on
          BY <1>1, <1>2, <4>3
        <5>2. t.bits \cap enable = {} /\ enable' \subseteq enable
          BY <3>1, <3>2, <4>3, <5>1 DEF Effected, Setup!WithBits
        <5> QED
          BY <4>3, <5>2 DEF Effected
      <4> QED
        BY <4>1, <4>2, <4>3
    <3>3. Effected(h)'
      <4>1. CASE h.on
        BY <1>1, <3>1, <4>1 DEF Effected, Setup!WithBits
      <4>2. CASE ~h.on
        BY <1>1, <3>1, <4>2 DEF Effected, Setup!WithBits
      <4> QED
        BY <4>1, <4>2
    <3> QED
      BY <3>1, <3>2, <3>3
  <2>4. steps' = Tail(steps)
    BY <2>1 DEF Setup!GoOn
  <2> QED
    BY <1>3, <2>2, <2>3, <2>4 DEF Steps
<1> QED
  BY <1>5, <1>6 DEF Setup!DoMode

LEMMA TailIs ==
  ASSUME NEW S, NEW s \in Seq(S), s # << >>
  PROVE  /\ Tail(s) \in Seq(S) /\ Head(s) \in S /\ 1 \in 1 .. Len(s) /\ s[1] = Head(s)
         /\ \A i \in 1 .. Len(s) :
              s[i] = Head(s) \/ \E j \in 1 .. Len(Tail(s)) : Tail(s)[j] = s[i]
<1>1. Tail(s) \in Seq(S) /\ Head(s) \in S /\ s[1] = Head(s) /\ Len(Tail(s)) = Len(s) - 1
      /\ Len(s) \in Nat \ {0}
  OBVIOUS
<1>2. \A i \in 1 .. Len(s) : i # 1 =>
        i - 1 \in 1 .. Len(Tail(s)) /\ Tail(s)[i - 1] = s[i]
  BY <1>1
<1> QED
  BY <1>1, <1>2

\* The next step of a call keeps the invariant.
LEMMA SetupStep ==
  ASSUME SetupInv, Setup!Step
  PROVE  SetupInv'
<1> DEFINE h == Head(steps)
<1>1. /\ steps # << >> /\ UNCHANGED <<call, calls>>
      /\ Setup!DoId(h) \/ Setup!DoWrite(h) \/ Setup!DoField(h) \/ Setup!DoMode(h)
  BY DEF Setup!Step
<1>2. call \in Calls /\ steps \in Seq(Parts(call))
  BY <1>1 DEF SetupInv, CallInv, Calls
<1>3. /\ h \in Parts(call) /\ Tail(steps) \in Seq(Parts(call))
      /\ \A i \in 1 .. Len(steps) :
           steps[i] = h \/ \E j \in 1 .. Len(Tail(steps)) : Tail(steps)[j] = steps[i]
  BY <1>1, <1>2, TailIs
<1>4. PICK g : g = h
  OBVIOUS
<1>5. Steps(g)
  BY <1>1, <1>2, <1>3, <1>4, IdStep, WriteStep, FieldStep, ModeStep
<1>6. CallInv'
  <2>1. << >> \in Seq(Parts(call))
    OBVIOUS
  <2> QED
    BY <1>2, <1>3, <1>5, <2>1 DEF Steps, CallInv, Calls
<1>7. DoneOrLeft'
  <2> SUFFICES ASSUME clean', NEW t \in Parts(call)
               PROVE  Effected(t)' \/ Remains(t)'
    BY <1>5 DEF DoneOrLeft, Steps
  <2>1. /\ clean /\ steps' = Tail(steps)
        /\ Effected(g)' /\ (Effected(t) => Effected(t)')
    BY <1>5 DEF Steps
  <2>2. Effected(t) \/ Remains(t)
    BY <1>2, <2>1 DEF SetupInv, DoneOrLeft, Calls
  <2>3. CASE t = g
    BY <2>1, <2>3
  <2>4. CASE t # g /\ Remains(t)
    BY <1>3, <1>4, <2>1, <2>4 DEF Remains
  <2> QED
    BY <2>1, <2>2, <2>3, <2>4
<1> QED
  BY <1>5, <1>6, <1>7 DEF Steps, SetupInv

\* A call begins with all of its steps before it.
LEMMA BeginStep ==
  ASSUME SetupInv, Setup!Begin
  PROVE  SetupInv'
<1>1. /\ call' = Setup!NextCall[call] /\ steps' = Setup!Body[call']
      /\ enable' = enable /\ fields' = fields
  BY DEF Setup!Begin, Setup!sensorVars
<1>2. call' \in Calls /\ call' # "none"
  <2>1. call \in {"none", "init", "first", "enable", "disable"}
    BY DEF SetupInv, CallInv, Calls
  <2> QED
    BY <1>1, <2>1 DEF Setup!NextCall, Calls
<1>3. steps' \in Seq(Parts(call'))
  BY <1>1, <1>2, PartsAre
<1>4. DoneOrLeft'
  <2> SUFFICES ASSUME NEW t \in Parts(call')
               PROVE  \E i \in 1 .. Len(steps') : steps'[i] = t
    BY DEF DoneOrLeft, Remains
  <2> QED
    BY <1>1 DEF Parts
<1>5. Fielded'
  BY <1>1 DEF SetupInv, Fielded
<1> QED
  BY <1>1, <1>2, <1>3, <1>4, <1>5 DEF SetupInv, CallInv

LEMMA SetupStarts ==
  ASSUME Setup!Init
  PROVE  SetupInv
<1>1. call = "none" /\ steps = << >>
  BY DEF Setup!Init
<1>2. enable \subseteq Used
  BY DEF Setup!Init, Used
<1>3. Fielded
  <2>1. CASE fields = Setup!Zeros
    BY <2>1 DEF Fielded, Setup!Zeros
  <2>2. CASE fields = [Setup!Ones EXCEPT !.GCONF4.rest = 0]
    <3> DEFINE old == Setup!Ones
               reg == [old["GCONF4"] EXCEPT !["rest"] = 0]
    <3>1. fields = [old EXCEPT !["GCONF4"] = reg]
      BY <2>2
    <3>2. DOMAIN reg = DOMAIN old["GCONF4"]
      OBVIOUS
    <3> HIDE DEF old, reg
    <3>3. DOMAIN fields = DOMAIN old /\ \A r \in DOMAIN old : DOMAIN fields[r] = DOMAIN old[r]
      BY <3>1, <3>2
    <3> QED
      BY <3>3 DEF Fielded, old
  <2> QED
    BY <2>1, <2>2 DEF Setup!Init
<1> QED
  BY <1>1, <1>2, <1>3 DEF SetupInv, CallInv, DoneOrLeft

LEMMA SetupInductive == MCSpec => []SetupInv
<1>1. MCInit => SetupInv
  BY SetupStarts DEF MCInit
<1>2. SetupInv /\ [MCNext]_<<vars, setupVars, sets_up>> => SetupInv'
  <2> SUFFICES ASSUME SetupInv, [MCNext]_<<vars, setupVars, sets_up>>
               PROVE  SetupInv'
    OBVIOUS
  <2>1. CASE Setup!Next
    BY <2>1, BeginStep, SetupStep DEF Setup!Next
  <2>2. CASE UNCHANGED setupVars
    <3>1. /\ enable' = enable /\ plain' = plain /\ fields' = fields /\ call' = call
          /\ steps' = steps /\ clean' = clean
      BY <2>2 DEF setupVars
    <3>2. CallInv' /\ Fielded'
      BY <3>1 DEF SetupInv, CallInv, Fielded
    <3>3. DoneOrLeft'
      BY <3>1 DEF SetupInv, DoneOrLeft, Effected, Remains
    <3> QED
      BY <3>1, <3>2, <3>3 DEF SetupInv
  <2> QED
    BY <2>1, <2>2 DEF MCNext
<1> QED
  BY <1>1, <1>2, PTL DEF MCSpec

\* Whatever transfers fail, no feature is turned on that the program does not
\* use: setMode does not write back what a failed read gives, for any number
\* of calls and failures (gesture_main.c:132-155).
THEOREM EnableStaysSane == MCSpec => []EnableIsSane
<1>1. SetupInv => EnableIsSane
  BY DEF SetupInv, EnableIsSane, Setup!EnableIsSane, Used
<1> QED
  BY <1>1, SetupInductive, PTL

\* When a call without a failure is over, each of its steps has taken effect.
LEMMA AllEffected ==
  ASSUME SetupInv, call \in Calls, steps = << >>, clean, NEW t \in Parts(call)
  PROVE  Effected(t)
<1>1. call # "none"
  BY DEF Calls
<1>2. ~Remains(t)
  <2>1. Len(steps) = 0
    OBVIOUS
  <2> QED
    BY <2>1 DEF Remains
<1> QED
  BY <1>1, <1>2 DEF SetupInv, DoneOrLeft

LEMMA EffectsAre ==
  ASSUME NEW r, NEW f, NEW v, NEW bits
  PROVE  /\ Effected(Setup!Write(r)) => r \in plain
         /\ Effected(Setup!SetField(r, f, v)) => fields[r][f] = v
         /\ Effected(Setup!SetMode(bits, TRUE)) => bits \subseteq enable
         /\ Effected(Setup!SetMode(bits, FALSE)) => bits \cap enable = {}
<1>1. Effected(Setup!Write(r)) => r \in plain
  BY StepsAre DEF Effected
<1>2. Effected(Setup!SetField(r, f, v)) => fields[r][f] = v
  BY StepsAre DEF Effected
<1>3. Effected(Setup!SetMode(bits, TRUE)) => bits \subseteq enable
  <2>1. /\ Setup!SetMode(bits, TRUE).on
        /\ Setup!SetMode(bits, TRUE).op = "mode"
        /\ Setup!SetMode(bits, TRUE).bits = bits
    BY ModeIs
  <2> QED
    BY <2>1 DEF Effected
<1>4. Effected(Setup!SetMode(bits, FALSE)) => bits \cap enable = {}
  <2>1. /\ ~Setup!SetMode(bits, FALSE).on
        /\ Setup!SetMode(bits, FALSE).op = "mode"
        /\ Setup!SetMode(bits, FALSE).bits = bits
    BY ModeIs
  <2> QED
    BY <2>1 DEF Effected
<1> QED
  BY <1>1, <1>2, <1>3, <1>4

LEMMA AsEnabled ==
  ASSUME SetupInv, call \in {"first", "enable"}, steps = << >>, clean
  PROVE  /\ {Setup!POWER, Setup!PROXIMITY, Setup!WAIT_TIME, Setup!GESTURE} \subseteq enable
         /\ fields.GCONF4.GIEN = 1 /\ fields.GCONF4.GMODE = 1
         /\ {"WTIME", "PPULSE"} \subseteq plain /\ fields.CONFIG2.LED_BOOST = 3
<1> DEFINE s == Setup!EnableGestureSensor
<1>1. \A i \in 1 .. 9 : Effected(s[i])
  BY EnableParts, BodyIs, AllEffected DEF Calls
<1>2. /\ s[1] = Setup!Write("WTIME") /\ s[2] = Setup!Write("PPULSE")
      /\ s[3] = Setup!SetField("CONFIG2", "LED_BOOST", 3)
      /\ s[4] = Setup!SetField("GCONF4", "GIEN", 1)
      /\ s[5] = Setup!SetField("GCONF4", "GMODE", 1)
      /\ s[6] = Setup!SetMode({Setup!POWER}, TRUE)
      /\ s[7] = Setup!SetMode({Setup!WAIT_TIME}, TRUE)
      /\ s[8] = Setup!SetMode({Setup!PROXIMITY}, TRUE)
      /\ s[9] = Setup!SetMode({Setup!GESTURE}, TRUE)
  BY DEF Setup!EnableGestureSensor, Setup!SetLEDBoost, Setup!SetGestureIntEnable,
         Setup!SetGestureMode
<1> HIDE DEF s
<1>3. \A i : i \in 1 .. 9 <=> i \in {1, 2, 3, 4, 5, 6, 7, 8, 9}
  OBVIOUS
<1>4. /\ Effected(s[1]) /\ Effected(s[2]) /\ Effected(s[3]) /\ Effected(s[4])
      /\ Effected(s[5]) /\ Effected(s[6]) /\ Effected(s[7]) /\ Effected(s[8])
      /\ Effected(s[9])
  BY <1>1, <1>3
<1>5. /\ Effected(Setup!Write("WTIME")) /\ Effected(Setup!Write("PPULSE"))
      /\ Effected(Setup!SetField("CONFIG2", "LED_BOOST", 3))
      /\ Effected(Setup!SetField("GCONF4", "GIEN", 1))
      /\ Effected(Setup!SetField("GCONF4", "GMODE", 1))
  BY <1>2, <1>4
<1>6. /\ Effected(Setup!SetMode({Setup!POWER}, TRUE))
      /\ Effected(Setup!SetMode({Setup!WAIT_TIME}, TRUE))
      /\ Effected(Setup!SetMode({Setup!PROXIMITY}, TRUE))
      /\ Effected(Setup!SetMode({Setup!GESTURE}, TRUE))
  BY <1>2, <1>4
<1>7. {"WTIME", "PPULSE"} \subseteq plain
  BY <1>5, EffectsAre
<1>8. /\ fields["CONFIG2"]["LED_BOOST"] = 3 /\ fields["GCONF4"]["GIEN"] = 1
      /\ fields["GCONF4"]["GMODE"] = 1
  <2>1. \A r, f, v : Effected(Setup!SetField(r, f, v)) => fields[r][f] = v
    BY EffectsAre
  <2> QED
    BY <1>5, <2>1
<1>9. /\ {Setup!POWER} \subseteq enable /\ {Setup!WAIT_TIME} \subseteq enable
      /\ {Setup!PROXIMITY} \subseteq enable /\ {Setup!GESTURE} \subseteq enable
  BY <1>6, EffectsAre
<1> QED
  BY <1>7, <1>8, <1>9

LEMMA AsDisabled ==
  ASSUME SetupInv, call = "disable", steps = << >>, clean
  PROVE  /\ Setup!GESTURE \notin enable
         /\ fields.GCONF4.GIEN = 0 /\ fields.GCONF4.GMODE = 0
<1> DEFINE s == Setup!DisableGestureSensor
<1>1. \A i \in 1 .. 3 : Effected(s[i])
  BY DisableParts, BodyIs, AllEffected DEF Calls
<1>2. /\ s[1] = Setup!SetField("GCONF4", "GIEN", 0)
      /\ s[2] = Setup!SetField("GCONF4", "GMODE", 0)
      /\ s[3] = Setup!SetMode({Setup!GESTURE}, FALSE)
  BY DEF Setup!DisableGestureSensor, Setup!SetGestureIntEnable, Setup!SetGestureMode
<1> HIDE DEF s
<1>3. /\ Effected(Setup!SetField("GCONF4", "GIEN", 0))
      /\ Effected(Setup!SetField("GCONF4", "GMODE", 0))
      /\ Effected(Setup!SetMode({Setup!GESTURE}, FALSE))
  <2>1. 1 \in 1 .. 3 /\ 2 \in 1 .. 3 /\ 3 \in 1 .. 3
    OBVIOUS
  <2>2. Effected(s[1]) /\ Effected(s[2]) /\ Effected(s[3])
    BY <1>1, <2>1
  <2> QED
    BY <1>2, <2>2
<1>4. fields["GCONF4"]["GIEN"] = 0 /\ fields["GCONF4"]["GMODE"] = 0
  BY <1>3, EffectsAre
<1>5. {Setup!GESTURE} \cap enable = {}
  BY <1>3, EffectsAre
<1> QED
  BY <1>4, <1>5

LEMMA AsInitialised ==
  ASSUME SetupInv, call = "init", steps = << >>, clean
  PROVE  Setup!Initialised
<1> DEFINE s == Setup!GestureInit
<1>1. \A i \in 1 .. 15 : Effected(s[i])
  BY InitParts, BodyIs, AllEffected DEF Calls
<1>2. /\ s[2] = Setup!SetMode(Setup!ALL, FALSE)
      /\ s[3] = Setup!Write("GPENTH") /\ s[4] = Setup!Write("GEXTH")
      /\ s[5] = Setup!Write("GCONF1")
      /\ s[6] = Setup!SetField("GCONF2", "GGAIN", 2)
      /\ s[7] = Setup!SetField("GCONF2", "GLDRIVE", 0)
      /\ s[8] = Setup!SetField("GCONF2", "GWTIME", 1)
      /\ s[9] = Setup!Write("GOFFSET_U") /\ s[10] = Setup!Write("GOFFSET_D")
      /\ s[11] = Setup!Write("GOFFSET_L") /\ s[12] = Setup!Write("GOFFSET_R")
      /\ s[13] = Setup!Write("GPULSE") /\ s[14] = Setup!Write("GCONF3")
      /\ s[15] = Setup!SetField("GCONF4", "GIEN", 0)
  BY DEF Setup!GestureInit, Setup!SetGestureGain, Setup!SetGestureLEDDrive,
         Setup!SetGestureWaitTime, Setup!SetGestureIntEnable
<1> HIDE DEF s
<1>3. \A i : i \in 1 .. 15 <=> i \in {1, 2, 3, 4, 5, 6, 7, 8, 9, 10, 11, 12, 13, 14, 15}
  OBVIOUS
<1>4. /\ Effected(s[2]) /\ Effected(s[3]) /\ Effected(s[4]) /\ Effected(s[5])
      /\ Effected(s[6]) /\ Effected(s[7]) /\ Effected(s[8]) /\ Effected(s[9])
      /\ Effected(s[10]) /\ Effected(s[11]) /\ Effected(s[12]) /\ Effected(s[13])
      /\ Effected(s[14]) /\ Effected(s[15])
  BY <1>1, <1>3
<1>5. /\ Effected(Setup!Write("GPENTH")) /\ Effected(Setup!Write("GEXTH"))
      /\ Effected(Setup!Write("GCONF1")) /\ Effected(Setup!Write("GOFFSET_U"))
      /\ Effected(Setup!Write("GOFFSET_D")) /\ Effected(Setup!Write("GOFFSET_L"))
      /\ Effected(Setup!Write("GOFFSET_R")) /\ Effected(Setup!Write("GPULSE"))
      /\ Effected(Setup!Write("GCONF3"))
  BY <1>2, <1>4
<1>6. /\ Effected(Setup!SetField("GCONF2", "GGAIN", 2))
      /\ Effected(Setup!SetField("GCONF2", "GLDRIVE", 0))
      /\ Effected(Setup!SetField("GCONF2", "GWTIME", 1))
      /\ Effected(Setup!SetField("GCONF4", "GIEN", 0))
      /\ Effected(Setup!SetMode(Setup!ALL, FALSE))
  BY <1>2, <1>4
<1>7. Setup!Plain \ {"WTIME", "PPULSE"} \subseteq plain
  BY <1>5, EffectsAre DEF Setup!Plain
<1>8. /\ fields["GCONF2"]["GGAIN"] = 2 /\ fields["GCONF2"]["GLDRIVE"] = 0
      /\ fields["GCONF2"]["GWTIME"] = 1 /\ fields["GCONF4"]["GIEN"] = 0
  BY <1>6, EffectsAre
<1>9. enable = {}
  <2>1. Setup!ALL \cap enable = {}
    BY <1>6, EffectsAre
  <2>2. Used \subseteq Setup!ALL
    BY DEF Used, Setup!ALL, Setup!POWER, Setup!PROXIMITY, Setup!WAIT_TIME, Setup!GESTURE
  <2> QED
    BY <2>1, <2>2 DEF SetupInv
<1> QED
  BY <1>7, <1>8, <1>9 DEF Setup!Initialised

\* A call that met no failure leaves the sensor as asked, whatever the failed
\* calls before it, or an earlier life, have left: for any number of calls and
\* of failed transfers (gesture_main.c:50-125, 333-399).
THEOREM SensorDoesAsAsked == MCSpec => []SensorAsAsked
<1>1. ASSUME SetupInv PROVE SensorAsAsked
  BY <1>1, AsEnabled, AsDisabled, AsInitialised
     DEF SensorAsAsked, Setup!SensorAsAsked, Setup!Done
<1> QED
  BY <1>1, SetupInductive, PTL
=============================================================================
