---------------------------- MODULE Indications ----------------------------
(***************************************************************************)
(* The server's indication path (src/src/ble.c, DEVICE_IS_BLE_SERVER):     *)
(* what handle_ble_event, SendLightValue and send_gesture_value do with    *)
(* the connection handle, the indication flags, in_flight and the queue.   *)
(*                                                                         *)
(* The application handles one stack event at a time, in the order the     *)
(* stack posted them; the stack and the client go on meanwhile.  So the    *)
(* application's view (connection, enabled, in_flight) runs behind the     *)
(* stack's own state (link, cccd, outstanding) by the events still posted. *)
(*                                                                         *)
(* The two characteristics are treated alike by the code and are the       *)
(* members of Chars.  The circular buffer is the bounded queue that Cbfifo *)
(* is shown to implement.  LCD text and LEDs (which follow the indication  *)
(* flags line by line) are left out.                                       *)
(***************************************************************************)
EXTENDS Integers, Sequences, FiniteSets

CONSTANTS Chars,       \* gattdb_light_analog_value, gattdb_gesture
          NoChar,      \* in events that concern no characteristic
          SIZE,        \* capacity of the queue
          MaxValues,   \* bound: sensor values produced
          MaxConns,    \* bound: connections made
          MaxEvents,   \* bound: stack events posted and not handled
          MayDisable,  \* whether the client switches indications off
          MayTimeout,  \* whether a confirmation may take over 30 seconds
          MayFail      \* whether the stack may refuse a send for want of memory

ASSUME SizeAssumption == SIZE \in Nat \ {0}
ASSUME CharAssumption == NoChar \notin Chars
ASSUME BoundAssumption ==
  /\ MaxValues \in Nat
  /\ MaxConns \in Nat
  /\ MaxEvents \in Nat

VARIABLES
  connection,   \* ble_data.gatt_server_connection, 0 for none
  enabled,      \* the characteristics whose indications_enabled flag is 1
  in_flight,    \* ble_data.in_flight
  queue,        \* the queued indications, oldest first
  link,         \* stack: the connection that is up, 0 for none
  advertising,  \* stack: whether clients can connect
  cccd,         \* stack: characteristics whose indications the client enabled
  outstanding,  \* stack: the indication that awaits its confirmation
  stalled,      \* stack: the confirmation timed out, GATT is closed
  events,       \* stack: events posted and not yet handled
  conns,        \* history: connections made so far
  produced,     \* history: sensor values produced so far
  sent,         \* history: indications the stack accepted, with their link
  status        \* history: what the last sl_bt_gatt_server_send_indication said

appVars   == <<connection, enabled, in_flight, queue>>
stackVars == <<link, advertising, cccd, outstanding, stalled, events, conns>>
vars == <<appVars, stackVars, produced, sent, status>>

Kinds == {"opened", "closed", "client_config", "confirmation", "timeout"}
Flags == {"indication", "disable"}   \* client_config_flags
Statuses == {"OK", "INVALID_HANDLE", "TIMEOUT", "IN_PROGRESS",
             "INVALID_STATE", "NO_MORE_RESOURCE"}
Event(kind, conn, c, flags) ==
  [kind |-> kind, conn |-> conn, char |-> c, flags |-> flags]

(* A value of characteristic c, its number in the order of production, and *)
(* the connection the application had when it was produced.                *)
Item(c) == [char |-> c, val |-> produced + 1, conn |-> connection]
NoItem == [char |-> NoChar, val |-> 0, conn |-> 0]
Log(item) == [item |-> item, link |-> link]

Init ==
  /\ connection = 0
  /\ enabled = {}
  /\ in_flight = 0
  /\ queue = << >>
  /\ link = 0
  /\ advertising = TRUE      \* started by the boot event
  /\ cccd = {}
  /\ outstanding = NoItem
  /\ stalled = FALSE
  /\ events = << >>
  /\ conns = 0
  /\ produced = 0
  /\ sent = << >>
  /\ status = "OK"
-----------------------------------------------------------------------------
(* The stack and the client.                                               *)

Post(e) ==
  /\ Len(events) < MaxEvents
  /\ events' = Append(events, e)

\* The connection replaces the advertisement, which is not resumed by itself.
Connect ==
  /\ advertising
  /\ conns < MaxConns
  /\ Post(Event("opened", conns + 1, NoChar, "disable"))
  /\ conns' = conns + 1
  /\ link' = conns + 1
  /\ advertising' = FALSE
  /\ UNCHANGED <<appVars, cccd, outstanding, stalled, produced, sent, status>>

\* The link is lost or closed by the client; the bonds are deleted anyway,
\* so that no client configuration survives.
Disconnect ==
  /\ link # 0
  /\ Post(Event("closed", link, NoChar, "disable"))
  /\ link' = 0
  /\ cccd' = {}
  /\ outstanding' = NoItem
  /\ stalled' = FALSE
  /\ UNCHANGED <<appVars, advertising, conns, produced, sent, status>>

\* The stack posts an event when the descriptor was changed.
ClientEnables(c) ==
  /\ link # 0 /\ ~stalled /\ c \notin cccd
  /\ cccd' = cccd \cup {c}
  /\ Post(Event("client_config", link, c, "indication"))
  /\ UNCHANGED <<appVars, link, advertising, outstanding, stalled, conns,
                 produced, sent, status>>

ClientDisables(c) ==
  /\ MayDisable
  /\ link # 0 /\ ~stalled /\ c \in cccd
  /\ cccd' = cccd \ {c}
  /\ Post(Event("client_config", link, c, "disable"))
  /\ UNCHANGED <<appVars, link, advertising, outstanding, stalled, conns,
                 produced, sent, status>>

(* client_config_flags of a confirmation: sl_bt_api.h says the field can   *)
(* be ignored.  That the values arrive at all shows that it is not zero    *)
(* while indications are on, so it is taken to be the current              *)
(* configuration of the characteristic.                                    *)
ClientConfirms ==
  /\ outstanding # NoItem /\ ~stalled
  /\ Post(Event("confirmation", link, outstanding.char,
                IF outstanding.char \in cccd THEN "indication" ELSE "disable"))
  /\ outstanding' = NoItem
  /\ UNCHANGED <<appVars, link, advertising, cccd, stalled, conns,
                 produced, sent, status>>

\* After 30 seconds without confirmation no GATT transaction is possible.
IndicationTimesOut ==
  /\ MayTimeout
  /\ outstanding # NoItem /\ ~stalled
  /\ stalled' = TRUE
  /\ Post(Event("timeout", link, NoChar, "disable"))
  /\ UNCHANGED <<appVars, link, advertising, cccd, outstanding, conns,
                 produced, sent, status>>

\* sl_bt_gatt_server_send_indication(connection, c, ...)
SendStatus(c) ==
  IF connection = 0 \/ connection # link THEN {"INVALID_HANDLE"}
  ELSE IF stalled THEN {"TIMEOUT"}
  ELSE IF outstanding # NoItem THEN {"IN_PROGRESS"}
  ELSE IF c \notin cccd THEN {"INVALID_STATE"}
  ELSE {"OK"} \cup (IF MayFail THEN {"NO_MORE_RESOURCE"} ELSE {})
-----------------------------------------------------------------------------
(* The application.                                                        *)

\* Faulty variant: the flag is raised whatever the stack answered.
SendKeepsFlag(item) ==
  \E sc \in SendStatus(item.char) :
    /\ status' = sc
    /\ in_flight' = 1
    /\ IF sc = "OK"
       THEN outstanding' = item /\ sent' = Append(sent, Log(item))
       ELSE UNCHANGED <<outstanding, sent>>

(* The call and what each caller does with its result: in_flight = 1, and  *)
(* back to 0 on an error, upon which the value is gone.                    *)
Send(item) ==
  \E sc \in SendStatus(item.char) :
    /\ status' = sc
    /\ \/ /\ sc = "OK"
          /\ in_flight' = 1
          /\ outstanding' = item
          /\ sent' = Append(sent, Log(item))
       \/ /\ sc # "OK"
          /\ in_flight' = 0
          /\ UNCHANGED <<outstanding, sent>>

\* Faulty variant: the direct path does not look at in_flight.
MaySendNowAnyway(c) == c \in enabled /\ connection # 0
MaySendNow(c) == c \in enabled /\ connection # 0 /\ in_flight = 0
\* Faulty variant: one indication more than the queue holds is taken.
HasRoomAtLast == Len(queue) <= SIZE
HasRoom == Len(queue) < SIZE
MustQueue(c)  == connection # 0 /\ c \in enabled /\ in_flight = 1

(* SendLightValue and send_gesture_value: a new value is sent, queued,     *)
(* discarded on a full queue, or dropped when nobody listens.              *)
SendValue(c) ==
  /\ produced < MaxValues
  /\ produced' = produced + 1
  /\ \/ /\ MaySendNow(c)
        /\ Send(Item(c))
        /\ UNCHANGED queue
     \/ /\ ~MaySendNow(c)
        /\ MustQueue(c)
        /\ queue' = IF HasRoom THEN Append(queue, Item(c)) ELSE queue
        /\ UNCHANGED <<in_flight, outstanding, sent, status>>
     \/ /\ ~MaySendNow(c)
        /\ ~MustQueue(c)
        /\ UNCHANGED <<queue, in_flight, outstanding, sent, status>>
  /\ UNCHANGED <<connection, enabled, link, advertising, cccd, stalled,
                 events, conns>>

\* Faulty variant: the item is sent but left in the queue.
SoftTimerPeeks ==
  /\ queue # << >> /\ in_flight = 0
  /\ Send(Head(queue))
  /\ UNCHANGED <<queue, connection, enabled, link, advertising, cccd, stalled,
                 events, conns, produced>>

(* sl_bt_evt_system_soft_timer with handle 1: every 125 ms the oldest      *)
(* queued indication is taken out and sent, if none is in flight.          *)
SoftTimer ==
  /\ queue # << >> /\ in_flight = 0
  /\ queue' = Tail(queue)
  /\ Send(Head(queue))
  /\ UNCHANGED <<connection, enabled, link, advertising, cccd, stalled,
                 events, conns, produced>>

\* The application takes the oldest posted event, of the given kind.
Handle(kind) ==
  /\ events # << >>
  /\ Head(events).kind = kind
  /\ events' = Tail(events)
  /\ UNCHANGED <<link, cccd, outstanding, stalled, conns, produced, sent, status>>

\* sl_bt_evt_connection_opened: advertiser_stop, and the handle is stored.
ConnectionOpened ==
  /\ Handle("opened")
  /\ advertising' = FALSE
  /\ connection' = Head(events).conn
  /\ UNCHANGED <<enabled, in_flight, queue>>

\* Faulty variant: the flag of the lost connection is kept.
ConnectionClosedKeepsFlag ==
  /\ Handle("closed")
  /\ connection' = 0
  /\ enabled' = {}
  /\ advertising' = TRUE
  /\ UNCHANGED <<queue, in_flight>>

\* Faulty variant: the indication flags of the lost connection are kept.
ConnectionClosedKeepsEnabled ==
  /\ Handle("closed")
  /\ connection' = 0
  /\ in_flight' = 0
  /\ advertising' = TRUE
  /\ UNCHANGED <<queue, enabled>>

\* Faulty variant: the advertiser is not started again.
ConnectionClosedStaysSilent ==
  /\ Handle("closed")
  /\ connection' = 0
  /\ enabled' = {}
  /\ in_flight' = 0
  /\ UNCHANGED <<queue, advertising>>

\* sl_bt_evt_connection_closed: everything is reset but the queue.
ConnectionClosed ==
  /\ Handle("closed")
  /\ connection' = 0
  /\ enabled' = {}
  /\ in_flight' = 0
  /\ advertising' = TRUE
  /\ UNCHANGED queue

\* sl_bt_evt_gatt_server_indication_timeout: case and break.
IndicationTimeout ==
  /\ Handle("timeout")
  /\ UNCHANGED <<appVars, advertising>>

(* sl_bt_evt_gatt_server_characteristic_status.  The last alternative of   *)
(* the code asks for the configuration flags only, so that a confirmation  *)
(* that carries "disable" switches the indications off as well.            *)
IndicationsOn ==
  /\ Handle("client_config")
  /\ Head(events).flags = "indication"
  /\ enabled' = enabled \cup {Head(events).char}
  /\ UNCHANGED <<connection, in_flight, queue, advertising>>

Confirmation ==
  /\ Handle("confirmation")
  /\ Head(events).flags = "indication"
  /\ in_flight' = 0
  /\ UNCHANGED <<connection, enabled, queue, advertising>>

IndicationsOff ==
  /\ \E kind \in {"client_config", "confirmation"} : Handle(kind)
  /\ Head(events).flags = "disable"
  /\ enabled' = enabled \ {Head(events).char}
  /\ UNCHANGED <<connection, in_flight, queue, advertising>>

HandleEvent ==
  \/ ConnectionOpened
  \/ ConnectionClosed
  \/ IndicationTimeout
  \/ IndicationsOn
  \/ Confirmation
  \/ IndicationsOff

Next ==
  \/ Connect
  \/ Disconnect
  \/ \E c \in Chars : ClientEnables(c) \/ ClientDisables(c)
  \/ ClientConfirms
  \/ IndicationTimesOut
  \/ \E c \in Chars : SendValue(c)
  \/ SoftTimer
  \/ HandleEvent

Spec == Init /\ [][Next]_vars

(* The super-loop of main.c handles every posted event, the periodic soft  *)
(* timer keeps firing, and a client in range confirms what it receives.    *)
Fairness ==
  WF_vars(HandleEvent) /\ WF_vars(SoftTimer) /\ WF_vars(ClientConfirms)
-----------------------------------------------------------------------------
(* Properties.                                                             *)

Items == [char : Chars, val : 1 .. MaxValues, conn : 0 .. MaxConns]
Events ==
  {e \in [kind : Kinds, conn : 0 .. MaxConns, char : Chars \cup {NoChar},
          flags : Flags] : e.kind = "client_config" => e.char \in Chars}

\* Type invariant.
TypeOK ==
  /\ connection \in 0 .. MaxConns
  /\ enabled \subseteq Chars
  /\ in_flight \in {0, 1}
  /\ queue \in Seq(Items) /\ Len(queue) <= SIZE
  /\ link \in 0 .. MaxConns
  /\ advertising \in BOOLEAN
  /\ cccd \subseteq Chars
  /\ outstanding \in Items \cup {NoItem}
  /\ stalled \in BOOLEAN
  /\ events \in Seq(Events)
  /\ conns \in 0 .. MaxConns
  /\ produced \in 0 .. MaxValues
  /\ sent \in Seq([item : Items, link : 0 .. MaxConns])
  /\ status \in Statuses

\* The application never asks the stack to send while an indication awaits
\* its confirmation: sl_bt_gatt_server_send_indication is never answered
\* SL_STATUS_IN_PROGRESS, in whatever order confirmations, disconnections,
\* timeouts, timer ticks and sensor values come (ble.c:437-445, 521-550,
\* 580-587, 898-927).
NeverInProgress == status # "IN_PROGRESS"

\* No sensor value is given to the stack twice, whether it was sent at once or
\* waited in the queue, and none that was sent still waits.
NoDuplicates ==
  /\ \A i, j \in DOMAIN sent : sent[i].item.val = sent[j].item.val => i = j
  /\ \A i \in DOMAIN sent, j \in DOMAIN queue :
       sent[i].item.val # queue[j].val

\* Once every posted event is handled, the connection, the indication flags
\* and the advertiser agree with the stack: no order of opening, closing and
\* configuration leaves a flag of an earlier connection behind.
ViewCatchesUp ==
  events = << >> => /\ connection = link
                    /\ enabled = cccd
                    /\ advertising <=> link = 0

\* in_flight "Indication in flight" (ble.h:46): the flag is up only while an
\* indication awaits its confirmation in the stack, or the event that will
\* take the flag down is posted.  Nothing else ever takes it down.
InFlightMeansPending ==
  in_flight = 1 =>
    \/ outstanding # NoItem
    \/ \E i \in DOMAIN events : events[i].kind \in {"confirmation", "closed"}

\* The queue outlives the connection, so that a client may receive values of
\* an earlier one; they are never more than the queue holds, for each
\* connection that was closed (ble.c:437-445, 521-538, 941-956).
LeftoversFitTheQueue ==
  Cardinality({i \in DOMAIN sent : sent[i].item.conn # sent[i].link})
    <= SIZE * (IF conns = 0 THEN 0 ELSE conns - 1)

\* Every queued value leaves the queue: a confirmation, a refused send or a
\* disconnection always lets the soft timer drain it.
QueueDrains ==
  \A v \in 1 .. MaxValues :
    (\E i \in DOMAIN queue : queue[i].val = v)
      ~> ~(\E i \in DOMAIN queue : queue[i].val = v)

\* After every disconnection the server becomes connectable again.
AdvertisesAgain == (link = 0) ~> advertising
=============================================================================
