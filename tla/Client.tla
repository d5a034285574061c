------------------------------- MODULE Client -------------------------------
(***************************************************************************)
(* The client (DEVICE_IS_BLE_SERVER = 0): what sl_bt_on_event does with    *)
(* one event, which is the case of handle_ble_event (src/src/ble.c) and    *)
(* then discovery_state_machine (src/src/scheduler.c), both to their end.  *)
(*                                                                         *)
(* The machine issues a GATT command and goes to its next state whatever   *)
(* the stack answers; the next successful sl_bt_evt_gatt_procedure_        *)
(* completed, of whatever procedure, moves it on.  Every event runs it,    *)
(* the periodic soft timer's and the buttons' included.                    *)
(*                                                                         *)
(* The stack's events are handled in the order of posting; the external    *)
(* signal of the buttons and the soft timer come between them anywhere.    *)
(* The server is what the stack makes of it: a link, the descriptors, and  *)
(* one indication at a time.  Of the LCD only matters whether the book is  *)
(* on it; which page is the matter of PageDisplay.c.                       *)
(***************************************************************************)
EXTENDS Naturals, Sequences

CONSTANTS Light,          \* the ambient light characteristic and service
          Gesture,        \* the gesture characteristic and service
          None,           \* neither
          Readings,       \* light values indicated
          Gestures,       \* gesture codes indicated, DIR_LEFT is 1
          MaxConns,       \* bound: connections made
          MaxValues,      \* bound: values indicated
          MaxPresses,     \* bound: edges of the buttons
          MaxEvents,      \* bound: stack events posted and not handled
          PressEarly,     \* whether buttons are used before discovery ends
          MayDrop,        \* whether the link may be lost
          MayRefuse       \* whether pairing may fail

ASSUME CharAssumption == Light # Gesture /\ None \notin {Light, Gesture}
ASSUME ValueAssumption == Readings \subseteq Nat /\ Gestures \subseteq Nat
ASSUME BoundAssumption ==
  /\ MaxConns \in Nat
  /\ MaxValues \in Nat
  /\ MaxPresses \in Nat
  /\ MaxEvents \in Nat

VARIABLES
  currentste,      \* state of discovery_state_machine
  bonding_state,   \* ble_data.bonding_state
  connection,      \* ble_data.gatt_server_connection, never reset
  services,        \* those whose serviceHandle is known
  handles,         \* those whose characteristicHandle is known
  ambient_lt_val,
  gesture_val,     \* 0 when there is none
  prev_ambient,
  book,            \* whether a page is on the LCD
  radio,           \* stack: scanning, initiating or neither
  link,            \* stack: the connection that is up, 0 for none
  procedure,       \* stack: the GATT procedure that runs
  indicating,      \* server: characteristics whose indications are enabled
  awaiting,        \* server: the indication that awaits its confirmation
  pairing,         \* stack: how far the pairing is
  signals,         \* stack: the pending external-signal mask, as a bit set
  events,          \* stack: events posted and not yet handled
  conns,           \* history: connections made so far
  presses,         \* history: button edges so far
  values,          \* history: values indicated so far
  received,        \* history: gestures the stack handed over
  moves,           \* history: gestures acted upon
  refused          \* history: why commands of the machine were refused

machineVars == <<currentste, book, gesture_val, prev_ambient, moves, refused,
                 procedure>>
bleVars == <<bonding_state, connection, services, handles, ambient_lt_val,
             received>>
linkVars == <<radio, link, conns>>
serverVars == <<indicating, awaiting, values>>
vars == <<machineVars, bleVars, linkVars, serverVars, pairing, signals, presses,
          events>>

Chars == {Light, Gesture}
LightThreshold == 50
Turns == 1 .. 4   \* LEFT, RIGHT, UP, DOWN

Command(op, c, known) == [op |-> op, char |-> c, known |-> known]
Idle == Command("none", None, FALSE)
Event(kind, c, val) == [kind |-> kind, char |-> c, val |-> val]

\* EXTSIGEVENT_PB0 = 4 and EXTSIGEVENT_PB1 = 5
PB0 == {4}
PB1 == {1, 4}

Init ==
  /\ currentste = "OPEN_S1"
  /\ bonding_state = "NOT_BONDED"
  /\ connection = 0
  /\ services = {}
  /\ handles = {}
  /\ ambient_lt_val = 4095
  /\ gesture_val = 0
  /\ prev_ambient = 51
  /\ book = FALSE
  /\ radio = "scanning"      \* started by the boot event
  /\ link = 0
  /\ procedure = Idle
  /\ indicating = {}
  /\ awaiting = None
  /\ pairing = "none"
  /\ signals = {}
  /\ events = << >>
  /\ conns = 0
  /\ presses = 0
  /\ values = 0
  /\ received = 0
  /\ moves = 0
  /\ refused = {}
-----------------------------------------------------------------------------
(* The stack, the server and the user.                                     *)

Post(es) ==
  /\ Len(events) < MaxEvents
  /\ events' = events \o es

Connect ==
  /\ radio = "initiating"
  /\ conns < MaxConns
  /\ radio' = "idle"
  /\ conns' = conns + 1
  /\ link' = conns + 1
  /\ Post(<<Event("opened", None, conns + 1)>>)
  /\ UNCHANGED <<machineVars, bleVars, serverVars, pairing, signals, presses>>

\* Bonds are deleted upon it, so that the server forgets the descriptors.
Disconnect ==
  /\ MayDrop
  /\ link # 0
  /\ link' = 0
  /\ procedure' = Idle
  /\ indicating' = {}
  /\ awaiting' = None
  /\ pairing' = "none"
  /\ Post(<<Event("closed", None, link)>>)
  /\ UNCHANGED <<currentste, book, gesture_val, prev_ambient, moves, refused,
                 bleVars, radio, conns, values, signals, presses>>

Result(kind) == Event(kind, procedure.char, 0)

\* The procedure ends; a handle that was never discovered is an error.
EndProcedure ==
  /\ procedure # Idle
  /\ procedure' = Idle
  /\ \/ /\ ~procedure.known
        /\ Post(<<Result("failed")>>)
        /\ UNCHANGED indicating
     \/ /\ procedure.known /\ procedure.op \in {"service", "characteristic"}
        /\ Post(<<Result(procedure.op), Result("completed")>>)
        /\ UNCHANGED indicating
     \/ /\ procedure.known /\ procedure.op = "indication"
        /\ indicating' = indicating \cup {procedure.char}
        /\ Post(<<Result("completed")>>)
     \/ /\ procedure.known /\ procedure.op = "disable"
        /\ indicating' = indicating \ {procedure.char}
        /\ Post(<<Result("completed")>>)
     \/ /\ procedure.known /\ procedure.op = "read"
        /\ \/ /\ pairing = "bonded"
              /\ \E g \in Gestures \cup {0} :
                   Post(<<Event("read_response", Gesture, g), Result("completed")>>)
           \/ /\ pairing # "bonded"
              /\ Post(<<Result("unencrypted")>>)
        /\ UNCHANGED indicating
  /\ UNCHANGED <<currentste, book, gesture_val, prev_ambient, moves, refused,
                 bleVars, linkVars, awaiting, values, pairing, signals, presses>>

\* The server indicates a value once the one before is confirmed.
Indicate(c, v) ==
  /\ values < MaxValues
  /\ link # 0 /\ c \in indicating /\ awaiting = None
  /\ values' = values + 1
  /\ awaiting' = c
  /\ Post(<<Event("indication", c, v)>>)
  /\ UNCHANGED <<machineVars, bleVars, linkVars, indicating, pairing, signals,
                 presses>>

ShowPasskey ==
  /\ pairing = "requested"
  /\ pairing' = "passkey"
  /\ Post(<<Event("confirm_passkey", None, link)>>)
  /\ UNCHANGED <<machineVars, bleVars, linkVars, serverVars, signals, presses>>

\* The server's user confirms as well.
Bond ==
  /\ pairing = "confirmed"
  /\ pairing' = "bonded"
  /\ Post(<<Event("bonded", None, link)>>)
  /\ UNCHANGED <<machineVars, bleVars, linkVars, serverVars, signals, presses>>

FailPairing ==
  /\ MayRefuse
  /\ pairing \in {"requested", "passkey", "confirmed"}
  /\ pairing' = "none"
  /\ Post(<<Event("bonding_failed", None, link)>>)
  /\ UNCHANGED <<machineVars, bleVars, linkVars, serverVars, signals, presses>>

\* The interrupt handlers of the two pins (irq.c) raise the signal.
Press(button) ==
  /\ presses < MaxPresses
  /\ PressEarly \/ currentste \in {"INITLCD", "UPDATELCD"}
  /\ presses' = presses + 1
  /\ signals' = signals \cup button
  /\ UNCHANGED <<machineVars, bleVars, linkVars, serverVars, pairing, events>>
-----------------------------------------------------------------------------
(* discovery_state_machine.                                                *)

Stage(next, op, c) == [next |-> next, op |-> op, char |-> c]

\* The state after the command, and the command, of each discovery state.
Plan ==
  [OPEN_S1            |-> Stage("OPEN_S2", "service", Light),
   OPEN_S2            |-> Stage("CHARACTERISTICS_S1", "service", Gesture),
   CHARACTERISTICS_S1 |-> Stage("CHARACTERISTICS_S2", "characteristic", Light),
   CHARACTERISTICS_S2 |-> Stage("NOTIFY_S1", "characteristic", Gesture),
   NOTIFY_S1          |-> Stage("NOTIFY_S2", "indication", Light),
   NOTIFY_S2          |-> Stage("INITLCD", "indication", Gesture)]

\* Whether the handle a command needs has been discovered.
Known(op, c) ==
  CASE op = "service" -> TRUE
    [] op = "characteristic" -> c \in services
    [] OTHER -> c \in handles

(* The commands of one event are issued in order, first the handler's and  *)
(* then the machine's: the stack takes one, and only when no procedure     *)
(* runs on the connection that is up.                                      *)
Issue(first, then) ==
  LET cmds   == first \o then
      linked == link # 0 /\ connection' = link
      free   == procedure = Idle
  IN  /\ procedure' = IF linked /\ free /\ cmds # << >> THEN cmds[1] ELSE procedure
      /\ refused' = refused \cup
           (IF then = << >> THEN {}
            ELSE IF ~linked THEN {"unlinked"}
            ELSE IF ~free \/ first # << >> THEN {"busy"} ELSE {})

\* Faulty variant: the first discovery state waits for a completion, too.
DiscoversLate(kind) == currentste \in DOMAIN Plan /\ kind = "completed"

Discovers(kind) ==
  /\ currentste \in DOMAIN Plan
  /\ kind = IF currentste = "OPEN_S1" THEN "opened" ELSE "completed"

\* Faulty variant: the previous reading is not kept up to date when it darkens.
DarkensForGood ==
  ambient_lt_val' < LightThreshold /\ prev_ambient > LightThreshold + 1

Darkens == ambient_lt_val' < LightThreshold /\ prev_ambient >= LightThreshold
Lightens == ambient_lt_val' >= LightThreshold /\ prev_ambient < LightThreshold

\* Faulty variant: the light's descriptor is written in place of the gesture's.
FollowWrongHandle(op, first) ==
  /\ book' = (op = "indication")
  /\ prev_ambient' = ambient_lt_val'
  /\ Issue(first, <<Command(op, Light, Known(op, Light))>>)

\* The light crosses the threshold: the LCD and the gestures follow.
Follow(op, first) ==
  /\ book' = (op = "indication")
  /\ prev_ambient' = ambient_lt_val'
  /\ Issue(first, <<Command(op, Gesture, Known(op, Gesture))>>)

\* Faulty variant: the gesture stays and is acted upon at the next event.
TurnKeepsGesture(g) ==
  /\ gesture_val' = g
  /\ moves' = IF g \in Turns THEN moves + 1 ELSE moves
  /\ book' = (book \/ g \in Turns)

\* getSensorValue(GESTURE_SNSR) takes the gesture; g is the one there is.
Turn(g) ==
  /\ gesture_val' = 0
  /\ moves' = IF g \in Turns THEN moves + 1 ELSE moves
  /\ book' = (book \/ g \in Turns)

discovery_state_machine(kind, g, first) ==
  \/ /\ Discovers(kind)
     /\ LET s == Plan[currentste]
        IN  /\ currentste' = s.next
            /\ Issue(first, <<Command(s.op, s.char, Known(s.op, s.char))>>)
     /\ gesture_val' = g
     /\ UNCHANGED <<book, prev_ambient, moves>>
  \/ /\ currentste = "INITLCD" /\ bonding_state' = "BONDED"
     /\ currentste' = "UPDATELCD"
     /\ book' = TRUE
     /\ gesture_val' = g
     /\ Issue(first, << >>)
     /\ UNCHANGED <<prev_ambient, moves>>
  \/ /\ currentste = "UPDATELCD" /\ (Darkens \/ Lightens)
     /\ Follow(IF Darkens THEN "disable" ELSE "indication", first)
     /\ gesture_val' = g
     /\ UNCHANGED <<currentste, moves>>
  \/ /\ currentste = "UPDATELCD" /\ ~Darkens /\ ~Lightens
     /\ Turn(g)
     /\ Issue(first, << >>)
     /\ UNCHANGED <<currentste, prev_ambient>>
  \/ /\ ~Discovers(kind)
     /\ currentste # "UPDATELCD"
     /\ ~(currentste = "INITLCD" /\ bonding_state' = "BONDED")
     /\ gesture_val' = g
     /\ Issue(first, << >>)
     /\ UNCHANGED <<currentste, book, prev_ambient, moves>>
-----------------------------------------------------------------------------
(* handle_ble_event, the machine included.                                 *)

\* The oldest posted event is taken.
Take(kind) ==
  /\ events # << >>
  /\ Head(events).kind = kind
  /\ events' = Tail(events)
  /\ UNCHANGED <<link, conns, indicating, values, signals, presses>>

\* check_slave_addr matched: stop scanning and connect.
ScanReport ==
  /\ radio = "scanning"
  /\ radio' = "initiating"
  /\ UNCHANGED bleVars
  /\ discovery_state_machine("scan_report", gesture_val, << >>)
  /\ UNCHANGED <<link, conns, serverVars, pairing, signals, presses, events>>

\* displayUpdate, or an event without a case.
SoftTimer ==
  /\ UNCHANGED bleVars
  /\ discovery_state_machine("soft_timer", gesture_val, << >>)
  /\ UNCHANGED <<linkVars, serverVars, pairing, signals, presses, events>>

ConnectionOpened ==
  /\ Take("opened")
  /\ connection' = Head(events).val
  /\ UNCHANGED <<bonding_state, services, handles, ambient_lt_val, received>>
  /\ discovery_state_machine("opened", gesture_val, << >>)
  /\ UNCHANGED <<radio, awaiting, pairing>>

ConnectionClosed ==
  /\ Take("closed")
  /\ bonding_state' = "NOT_BONDED"
  /\ radio' = "scanning"
  /\ UNCHANGED <<connection, services, handles, ambient_lt_val, received>>
  /\ discovery_state_machine("closed", gesture_val, << >>)
  /\ UNCHANGED <<awaiting, pairing>>

ServiceFound ==
  /\ Take("service")
  /\ services' = services \cup {Head(events).char}
  /\ UNCHANGED <<bonding_state, connection, handles, ambient_lt_val, received>>
  /\ discovery_state_machine("service", gesture_val, << >>)
  /\ UNCHANGED <<radio, awaiting, pairing>>

CharacteristicFound ==
  /\ Take("characteristic")
  /\ handles' = handles \cup {Head(events).char}
  /\ UNCHANGED <<bonding_state, connection, services, ambient_lt_val, received>>
  /\ discovery_state_machine("characteristic", gesture_val, << >>)
  /\ UNCHANGED <<radio, awaiting, pairing>>

\* sl_bt_gatt_send_characteristic_confirmation(gatt_server_connection)
Confirms == connection = link /\ link # 0 /\ Head(events).char \in handles

LightValue ==
  /\ Take("indication")
  /\ Head(events).char = Light
  /\ ambient_lt_val' = IF Light \in handles THEN Head(events).val ELSE ambient_lt_val
  /\ UNCHANGED <<bonding_state, connection, services, handles, received>>
  /\ discovery_state_machine("indication", gesture_val, << >>)
  /\ awaiting' = IF Confirms THEN None ELSE awaiting
  /\ UNCHANGED <<radio, pairing>>

\* Faulty variant: a gesture is not confirmed.
GestureValueUnconfirmed(kind) ==
  /\ Take(kind)
  /\ Head(events).char = Gesture
  /\ UNCHANGED <<bonding_state, connection, services, handles, ambient_lt_val>>
  /\ LET g == IF Gesture \in handles THEN Head(events).val ELSE gesture_val
     IN  discovery_state_machine(kind, g, << >>)
  /\ received' = IF Head(events).val # 0 THEN received + 1 ELSE received
  /\ UNCHANGED <<radio, awaiting, pairing>>

\* A new gesture takes the place of one that was not acted upon.
GestureValue(kind) ==
  /\ Take(kind)
  /\ Head(events).char = Gesture
  /\ UNCHANGED <<bonding_state, connection, services, handles, ambient_lt_val>>
  /\ LET g == IF Gesture \in handles THEN Head(events).val ELSE gesture_val
     IN  discovery_state_machine(kind, g, << >>)
  /\ received' = IF Head(events).val # 0 THEN received + 1 ELSE received
  /\ awaiting' = IF kind = "indication" /\ Confirms THEN None ELSE awaiting
  /\ UNCHANGED <<radio, pairing>>

\* Result 0 is the machine's GATT_COMPLETE, any other only logged, ...
ProcedureCompleted(kind) ==
  /\ Take(kind)
  /\ UNCHANGED bleVars
  /\ discovery_state_machine(kind, gesture_val, << >>)
  /\ UNCHANGED <<radio, awaiting, pairing>>

\* ... but for insufficient encryption, which asks for pairing.
IncreaseSecurity ==
  /\ Take("unencrypted")
  /\ UNCHANGED bleVars
  /\ discovery_state_machine("unencrypted", gesture_val, << >>)
  /\ pairing' = IF connection = link /\ link # 0 /\ pairing = "none"
                THEN "requested" ELSE pairing
  /\ UNCHANGED <<radio, awaiting>>

ConfirmPasskey ==
  /\ Take("confirm_passkey")
  /\ bonding_state' = IF connection = Head(events).val THEN "BONDING" ELSE bonding_state
  /\ UNCHANGED <<connection, services, handles, ambient_lt_val, received>>
  /\ discovery_state_machine("confirm_passkey", gesture_val, << >>)
  /\ UNCHANGED <<radio, awaiting, pairing>>

BondingFailed ==
  /\ Take("bonding_failed")
  /\ bonding_state' = "NOT_BONDED"
  /\ UNCHANGED <<connection, services, handles, ambient_lt_val, received>>
  /\ discovery_state_machine("bonding_failed", gesture_val, << >>)
  /\ UNCHANGED <<radio, awaiting, pairing>>

\* The case is empty.
Bonded ==
  /\ Take("bonded")
  /\ UNCHANGED bleVars
  /\ discovery_state_machine("bonded", gesture_val, << >>)
  /\ UNCHANGED <<radio, awaiting, pairing>>

(* sl_bt_evt_system_external_signal: the mask is handed over and cleared.  *)
(* Both buttons together make the mask of PB1.                             *)
Signal(first) ==
  /\ signals' = {}
  /\ discovery_state_machine("external_signal", gesture_val, first)
  /\ UNCHANGED <<linkVars, serverVars, presses, events>>

\* PB1 reads the gesture, unless PB0 is down at the moment.
ReadButton ==
  /\ signals = PB1
  /\ UNCHANGED <<bleVars, pairing>>
  /\ \/ Signal(<<Command("read", Gesture, Known("read", Gesture))>>)
     \/ Signal(<< >>)

\* PB0 confirms the passkey; BONDED is what the call's success is taken for.
ConfirmButton ==
  /\ signals = PB0
  /\ LET confirms == bonding_state = "BONDING"
                       /\ pairing = "passkey" /\ connection = link
     IN  /\ pairing' = IF confirms THEN "confirmed" ELSE pairing
         /\ bonding_state' = IF confirms THEN "BONDED" ELSE bonding_state
  /\ UNCHANGED <<connection, services, handles, ambient_lt_val, received>>
  /\ Signal(<< >>)

HandlePosted ==
  \/ ConnectionOpened
  \/ ConnectionClosed
  \/ ServiceFound
  \/ CharacteristicFound
  \/ LightValue
  \/ \E kind \in {"indication", "read_response"} : GestureValue(kind)
  \/ \E kind \in {"completed", "failed"} : ProcedureCompleted(kind)
  \/ IncreaseSecurity
  \/ ConfirmPasskey
  \/ BondingFailed
  \/ Bonded

Application == HandlePosted \/ ScanReport \/ SoftTimer \/ ReadButton \/ ConfirmButton

Environment ==
  \/ Connect
  \/ Disconnect
  \/ EndProcedure
  \/ \E v \in Readings : Indicate(Light, v)
  \/ \E v \in Gestures : Indicate(Gesture, v)
  \/ ShowPasskey
  \/ Bond
  \/ FailPairing
  \/ Press(PB0)
  \/ Press(PB1)

Next == Application \/ Environment

Spec == Init /\ [][Next]_vars

(* The super-loop handles what is posted, the LCD's soft timer of a second *)
(* repeats, the server is in range and its stack answers.                  *)
FairSpec ==
  /\ Spec
  /\ WF_vars(HandlePosted) /\ WF_vars(ScanReport) /\ WF_vars(SoftTimer)
  /\ WF_vars(Connect) /\ WF_vars(EndProcedure)
-----------------------------------------------------------------------------
(* Properties.                                                             *)

EventKinds == {"opened", "closed", "service", "characteristic", "completed", "failed",
               "unencrypted", "indication", "read_response", "confirm_passkey",
               "bonded", "bonding_failed"}
Found == {"service", "characteristic", "indication", "read_response"}
Events ==
  {e \in [kind : EventKinds, char : Chars \cup {None}, val : Nat] :
     e.kind \in Found => e.char \in Chars}
Commands == [op : {"service", "characteristic", "indication", "disable", "read"},
             char : Chars, known : BOOLEAN]

\* Type invariant.
TypeOK ==
  /\ currentste \in DOMAIN Plan \cup {"INITLCD", "UPDATELCD"}
  /\ bonding_state \in {"NOT_BONDED", "BONDING", "BONDED"}
  /\ services \subseteq Chars /\ handles \subseteq Chars
  /\ {connection, ambient_lt_val, gesture_val, prev_ambient} \subseteq Nat
  /\ book \in BOOLEAN
  /\ radio \in {"scanning", "initiating", "idle"}
  /\ procedure \in Commands \cup {Idle}
  /\ indicating \subseteq Chars
  /\ awaiting \in Chars \cup {None}
  /\ pairing \in {"none", "requested", "passkey", "confirmed", "bonded"}
  /\ signals \in {{}, PB0, PB1}
  /\ events \in Seq(Events)
  /\ {link, conns, presses, values, received, moves} \subseteq Nat
  /\ refused \subseteq {"unlinked", "busy"}

\* A gesture turns the page at most once: whatever events run the machine
\* after it came (ticks, buttons, completions), the pages turned are no more
\* than the gestures received (ble.c:225-239, scheduler.c:313-334).
NoRepeat == moves + (IF gesture_val # 0 THEN 1 ELSE 0) <= received

\* Every indication is confirmed: the server, which may not indicate again
\* before, is never left waiting once the client has handled its events, in
\* whatever state the discovery is (ble.c:749-780).
ConfirmsIndications == events = << >> => awaiting = None

\* Having come through its discovery without a refused command, the client
\* is subscribed to what it needs: to the light for good, and to the gestures
\* exactly while it last saw light (scheduler.c:233-271, 286-311).
ReadyMeansSubscribed ==
  (/\ currentste \in {"INITLCD", "UPDATELCD"}
   /\ link # 0 /\ conns = 1 /\ refused = {}
   /\ procedure = Idle /\ events = << >>)
    => /\ Light \in indicating
       /\ Gesture \in indicating <=> prev_ambient >= LightThreshold

\* Discovery comes to its end on the first connection, whatever buttons are
\* pressed and gestures made meanwhile, unless the link is lost or one of the
\* stack's commands was refused (scheduler.c:143-271).
DiscoveryFinishes ==
  (link # 0 /\ conns = 1)
     ~> (currentste \in {"INITLCD", "UPDATELCD"} \/ link = 0 \/ refused # {})

\* Once pages are shown, the machine comes to agree with the light received,
\* if only by the next soft timer.
LightIsFollowed ==
  (currentste = "UPDATELCD" /\ ambient_lt_val < LightThreshold)
    ~> (prev_ambient < LightThreshold \/ ambient_lt_val >= LightThreshold)

\* "Close State, if connection closes, start over" (scheduler.c:358): a
\* new connection is discovered afresh.
StartsOver ==
  [][(connection' # connection) => currentste' = "OPEN_S2"]_vars
=============================================================================
