-------------------------- MODULE IndicationsProofs --------------------------
(***************************************************************************)
(* Proofs about the server's indication path, for every set of             *)
(* characteristics, queue size and bound: type correctness; that the stack *)
(* is never asked to send while an indication is outstanding; that no      *)
(* value is sent twice; that the application's view of the link and of the *)
(* descriptors is right once it has handled its events; how many values    *)
(* outlive their link; and that the flag in_flight does not stay up.       *)
(***************************************************************************)
EXTENDS MCIndications, SequenceTheorems, FiniteSetTheorems, TLAPS

-----------------------------------------------------------------------------
(* The queue of posted events, index by index.                             *)

LEMMA AppendIndexed ==
  ASSUME NEW S, NEW s \in Seq(S), NEW x \in S
  PROVE  /\ Append(s, x) \in Seq(S)
         /\ Len(s) \in Nat
         /\ Len(Append(s, x)) = Len(s) + 1
         /\ \A i \in 1 .. Len(s) : Append(s, x)[i] = s[i]
         /\ Append(s, x)[Len(s) + 1] = x
BY AppendProperties, LenProperties

LEMMA TailIndexed ==
  ASSUME NEW S, NEW s \in Seq(S), s # << >>
  PROVE  /\ Tail(s) \in Seq(S)
         /\ Len(s) \in Nat \ {0}
         /\ Len(Tail(s)) = Len(s) - 1
         /\ \A i \in 1 .. Len(s) - 1 : Tail(s)[i] = s[i + 1]
         /\ Head(s) = s[1]
         /\ Head(s) \in S
BY HeadTailProperties, EmptySeq

-----------------------------------------------------------------------------
(* Type correctness.                                                       *)

LEMMA InitType == Init => TypeOK
<1> SUFFICES ASSUME Init PROVE TypeOK
  OBVIOUS
<1>1. /\ queue \in Seq(Items) /\ Len(queue) <= SIZE
      /\ events \in Seq(Events)
      /\ sent \in Seq([item : Items, link : 0 .. MaxConns])
  BY SizeAssumption, EmptySeq DEF Init
<1>2. status \in Statuses
  BY DEF Init, Statuses
<1>3. /\ connection \in 0 .. MaxConns /\ link \in 0 .. MaxConns
      /\ conns \in 0 .. MaxConns /\ produced \in 0 .. MaxValues
      /\ in_flight \in {0, 1}
  BY BoundAssumption DEF Init
<1>4. /\ enabled \subseteq Chars /\ cccd \subseteq Chars
      /\ advertising \in BOOLEAN /\ stalled \in BOOLEAN
      /\ outstanding \in Items \cup {NoItem}
  BY DEF Init
<1>5. QED BY <1>1, <1>2, <1>3, <1>4 DEF TypeOK

LEMMA EventTyped ==
  ASSUME NEW kind \in Kinds, NEW n \in 0 .. MaxConns,
         NEW c \in Chars \cup {NoChar}, NEW f \in Flags,
         kind = "client_config" => c \in Chars
  PROVE  Event(kind, n, c, f) \in Events
BY DEF Event, Events

LEMMA PostTyped ==
  ASSUME TypeOK, NEW e \in Events, Post(e)
  PROVE  events' \in Seq(Events)
BY AppendIndexed DEF TypeOK, Post

LEMMA SendTyped ==
  ASSUME TypeOK, NEW item \in Items, Send(item)
  PROVE  /\ in_flight' \in {0, 1}
         /\ outstanding' \in Items \cup {NoItem}
         /\ sent' \in Seq([item : Items, link : 0 .. MaxConns])
         /\ status' \in Statuses
<1>1. PICK sc \in SendStatus(item.char) :
        /\ status' = sc
        /\ \/ /\ sc = "OK"
              /\ in_flight' = 1
              /\ outstanding' = item
              /\ sent' = Append(sent, Log(item))
           \/ /\ sc # "OK"
              /\ in_flight' = 0
              /\ UNCHANGED <<outstanding, sent>>
  BY DEF Send
<1>2. sc \in Statuses
  BY DEF SendStatus, Statuses
<1>3. Log(item) \in [item : Items, link : 0 .. MaxConns]
  BY DEF Log, TypeOK
<1>4. Append(sent, Log(item)) \in Seq([item : Items, link : 0 .. MaxConns])
  BY <1>3, AppendIndexed DEF TypeOK
<1>5. QED
  BY <1>1, <1>2, <1>4 DEF TypeOK

LEMMA HandleTyped ==
  ASSUME TypeOK, NEW kind, Handle(kind)
  PROVE  /\ events' \in Seq(Events)
         /\ Head(events) \in Events
         /\ link' \in 0 .. MaxConns
         /\ cccd' \subseteq Chars
         /\ outstanding' \in Items \cup {NoItem}
         /\ stalled' \in BOOLEAN
         /\ conns' \in 0 .. MaxConns
         /\ produced' \in 0 .. MaxValues
         /\ sent' \in Seq([item : Items, link : 0 .. MaxConns])
         /\ status' \in Statuses
BY TailIndexed DEF Handle, TypeOK

LEMMA StepType == TypeOK /\ [Next]_vars => TypeOK'
<1> SUFFICES ASSUME TypeOK, [Next]_vars PROVE TypeOK'
  OBVIOUS
<1> USE BoundAssumption, SizeAssumption
<1>1. CASE Connect
  <2>1. conns + 1 \in 0 .. MaxConns
    BY <1>1 DEF Connect, TypeOK
  <2>2. events' \in Seq(Events)
    BY <1>1, <2>1, EventTyped, PostTyped DEF Connect, Kinds, Flags
  <2>3. QED BY <1>1, <2>1, <2>2 DEF Connect, TypeOK, appVars
<1>2. CASE Disconnect
  <2>1. events' \in Seq(Events)
    BY <1>2, EventTyped, PostTyped DEF Disconnect, Kinds, Flags, TypeOK
  <2>2. /\ link' \in 0 .. MaxConns
        /\ stalled' \in BOOLEAN
        /\ cccd' \subseteq Chars
        /\ outstanding' \in Items \cup {NoItem}
    <3>1. link' \in 0 .. MaxConns
      BY <1>2 DEF Disconnect
    <3>2. stalled' \in BOOLEAN /\ cccd' \subseteq Chars
          /\ outstanding' \in Items \cup {NoItem}
      BY <1>2, Zenon DEF Disconnect
    <3>3. QED BY <3>1, <3>2
  <2>3. QED BY <1>2, <2>1, <2>2 DEF Disconnect, TypeOK, appVars
<1>3. ASSUME NEW c \in Chars, ClientEnables(c) PROVE TypeOK'
  <2>1. events' \in Seq(Events)
    BY <1>3, EventTyped, PostTyped DEF ClientEnables, Kinds, Flags, TypeOK
  <2>2. QED BY <1>3, <2>1 DEF ClientEnables, TypeOK, appVars
<1>4. ASSUME NEW c \in Chars, ClientDisables(c) PROVE TypeOK'
  <2>1. events' \in Seq(Events)
    BY <1>4, EventTyped, PostTyped DEF ClientDisables, Kinds, Flags, TypeOK
  <2>2. QED BY <1>4, <2>1 DEF ClientDisables, TypeOK, appVars
<1>5. CASE ClientConfirms
  <2>1. outstanding.char \in Chars \cup {NoChar}
    BY DEF TypeOK, Items, NoItem
  <2>2. events' \in Seq(Events)
    <3> DEFINE f == IF outstanding.char \in cccd THEN "indication" ELSE "disable"
    <3>1. f \in Flags
      BY DEF Flags
    <3>2. Event("confirmation", link, outstanding.char, f) \in Events
      BY <2>1, <3>1, EventTyped DEF Kinds, TypeOK
    <3>3. Post(Event("confirmation", link, outstanding.char, f))
      BY <1>5 DEF ClientConfirms
    <3>4. QED BY <3>2, <3>3, PostTyped
  <2>3. QED BY <1>5, <2>2 DEF ClientConfirms, TypeOK, appVars
<1>6. CASE IndicationTimesOut
  <2>1. events' \in Seq(Events)
    BY <1>6, EventTyped, PostTyped DEF IndicationTimesOut, Kinds, Flags, TypeOK
  <2>2. QED BY <1>6, <2>1 DEF IndicationTimesOut, TypeOK, appVars
<1>7. ASSUME NEW c \in Chars, SendValue(c) PROVE TypeOK'
  <2>1. Item(c) \in Items /\ produced' \in 0 .. MaxValues
    BY <1>7 DEF SendValue, Item, Items, TypeOK
  <2>2. /\ queue' \in Seq(Items)
        /\ Len(queue') <= SIZE
    <3>1. CASE queue' = queue
      BY <3>1 DEF TypeOK
    <3>2. CASE queue' = Append(queue, Item(c)) /\ HasRoom
      BY <3>2, <2>1, AppendIndexed DEF HasRoom, TypeOK
    <3>3. QED BY <1>7, <3>1, <3>2 DEF SendValue
  <2>3. /\ in_flight' \in {0, 1}
        /\ outstanding' \in Items \cup {NoItem}
        /\ sent' \in Seq([item : Items, link : 0 .. MaxConns])
        /\ status' \in Statuses
    BY <1>7, <2>1, SendTyped DEF SendValue, TypeOK
  <2>4. QED BY <1>7, <2>1, <2>2, <2>3 DEF SendValue, TypeOK
<1>8. CASE SoftTimer
  <2>1. /\ Head(queue) \in Items
        /\ queue' \in Seq(Items)
        /\ Len(queue') <= SIZE
    BY <1>8, TailIndexed DEF SoftTimer, TypeOK
  <2>2. QED BY <1>8, <2>1, SendTyped DEF SoftTimer, TypeOK
<1>9. CASE HandleEvent
  <2>1. CASE ConnectionOpened
    <3>1. Head(events).conn \in 0 .. MaxConns
      BY <2>1, HandleTyped DEF ConnectionOpened, Events
    <3>2. QED BY <2>1, <3>1, HandleTyped DEF ConnectionOpened, TypeOK
  <2>2. CASE ConnectionClosed
    <3>1. Handle("closed") /\ connection' = 0 /\ enabled' = {} /\ in_flight' = 0
          /\ advertising' = TRUE /\ queue' = queue
      BY <2>2 DEF ConnectionClosed
    <3>2. 0 \in 0 .. MaxConns
      OBVIOUS
    <3>3. QED BY <3>1, <3>2, HandleTyped DEF TypeOK
  <2>3. CASE IndicationTimeout
    BY <2>3, HandleTyped DEF IndicationTimeout, TypeOK, appVars
  <2>4. CASE IndicationsOn
    <3>1. enabled' \subseteq Chars
      BY <2>4, HandleTyped DEF IndicationsOn, Handle, Events, TypeOK
    <3>2. QED BY <2>4, <3>1, HandleTyped DEF IndicationsOn, TypeOK
  <2>5. CASE Confirmation
    BY <2>5, HandleTyped DEF Confirmation, TypeOK
  <2>6. CASE IndicationsOff
    BY <2>6, HandleTyped DEF IndicationsOff, TypeOK
  <2>7. QED BY <1>9, <2>1, <2>2, <2>3, <2>4, <2>5, <2>6 DEF HandleEvent
<1>10. CASE UNCHANGED vars
  BY <1>10 DEF vars, appVars, stackVars, TypeOK
<1>11. QED
  BY <1>1, <1>2, <1>3, <1>4, <1>5, <1>6, <1>7, <1>8, <1>9, <1>10 DEF Next

\* Every variable keeps its type whatever the stack and the client do.
THEOREM TypeCorrect == Spec => []TypeOK
BY InitType, StepType, PTL DEF Spec

-----------------------------------------------------------------------------
(* Why the stack is never asked to send twice: the flag is up while an     *)
(* indication is outstanding, and the events that could take it down, or   *)
(* change the connection, are not posted meanwhile.                        *)

Posted(i, kinds) == events[i].kind \in kinds
LinkKinds == {"opened", "closed"}

\* The stack's view and the application's while an indication is outstanding.
OutstandingKnown ==
  outstanding # NoItem =>
    /\ link # 0 /\ connection = link /\ in_flight = 1
    /\ \A i \in 1 .. Len(events) :
         ~Posted(i, {"opened", "closed", "confirmation"})

\* At most one confirmation is on its way, while the flag is up, and none
\* after the end of its connection.
ConfirmationOnce ==
  /\ in_flight = 0 => \A i \in 1 .. Len(events) : ~Posted(i, {"confirmation"})
  /\ \A i, j \in 1 .. Len(events) :
       Posted(i, {"confirmation"}) /\ Posted(j, {"confirmation"}) => i = j
  /\ \A i, j \in 1 .. Len(events) :
       Posted(i, {"closed"}) /\ Posted(j, {"confirmation"}) => j < i

\* Opening and closing events of one connection are handled before the next
\* connection can be made.
LinkEvents ==
  /\ connection <= conns /\ link <= conns
  /\ \A i \in 1 .. Len(events) :
       Posted(i, {"opened"}) => events[i].conn \in 1 .. conns
  /\ advertising => /\ link = 0 /\ connection = 0
                    /\ \A i \in 1 .. Len(events) : ~Posted(i, LinkKinds)
  /\ (connection = link /\ link # 0) =>
        \A i \in 1 .. Len(events) : ~Posted(i, LinkKinds)
  /\ \A i, j \in 1 .. Len(events) :
       /\ Posted(i, {"opened"}) /\ events[i].conn = link
       /\ Posted(j, LinkKinds)
       => i = j
  /\ \A i \in 1 .. Len(events) :
       Posted(i, {"closed"}) =>
         /\ link = 0
         /\ \A j \in 1 .. Len(events) : Posted(j, LinkKinds) => j <= i

FlightInv ==
  TypeOK /\ OutstandingKnown /\ ConfirmationOnce /\ LinkEvents /\ NeverInProgress

LEMMA InitFlight == Init => FlightInv
<1> SUFFICES ASSUME Init PROVE FlightInv
  OBVIOUS
<1>1. Len(events) = 0
  BY DEF Init
<1>2. TypeOK
  BY InitType
<1>3. OutstandingKnown /\ ConfirmationOnce /\ LinkEvents
  BY <1>1 DEF Init, OutstandingKnown, ConfirmationOnce, LinkEvents
<1>4. NeverInProgress
  BY DEF Init, NeverInProgress
<1>5. QED BY <1>2, <1>3, <1>4 DEF FlightInv

\* Posting appends one event.
LEMMA PostShape ==
  ASSUME TypeOK, NEW e \in Events, Post(e)
  PROVE  /\ Len(events) \in Nat
         /\ Len(events') = Len(events) + 1
         /\ \A i \in 1 .. Len(events) : events'[i] = events[i]
         /\ events'[Len(events) + 1] = e
BY AppendIndexed DEF TypeOK, Post

\* Handling removes the oldest event.
LEMMA HandleShape ==
  ASSUME TypeOK, NEW kind, Handle(kind)
  PROVE  /\ Len(events) \in Nat \ {0}
         /\ Len(events') = Len(events) - 1
         /\ \A i \in 1 .. Len(events) - 1 : events'[i] = events[i + 1]
         /\ Head(events) = events[1]
         /\ events[1].kind = kind
         /\ Head(events) \in Events
BY TailIndexed DEF TypeOK, Handle

\* A send is accepted only when nothing is outstanding, and then the flag is
\* up; a refused one leaves it down.
LEMMA SendShape ==
  ASSUME NEW item, Send(item), outstanding = NoItem
  PROVE  /\ status' # "IN_PROGRESS"
         /\ \/ /\ in_flight' = 1 /\ connection = link /\ link # 0
               /\ outstanding' = item
            \/ in_flight' = 0 /\ outstanding' = NoItem
BY DEF Send, SendStatus

\* The stack's own steps that append an event keep the invariant.
LEMMA PostStep ==
  ASSUME FlightInv, Disconnect \/ ClientConfirms \/ Connect
  PROVE  OutstandingKnown' /\ ConfirmationOnce' /\ LinkEvents'
<1> USE DEF Posted, LinkKinds
<1>0. TypeOK /\ OutstandingKnown /\ ConfirmationOnce /\ LinkEvents
  BY DEF FlightInv
<1>1. CASE Connect
  <2> DEFINE e == Event("opened", conns + 1, NoChar, "disable")
  <2>1. conns + 1 \in 0 .. MaxConns /\ conns \in Nat
    BY <1>1, <1>0, BoundAssumption DEF Connect, TypeOK
  <2>2. e \in Events
    BY <2>1, EventTyped DEF Kinds, Flags
  <2>3. /\ Len(events) \in Nat
        /\ Len(events') = Len(events) + 1
        /\ \A i \in 1 .. Len(events) : events'[i] = events[i]
        /\ events'[Len(events) + 1] = e
    BY <1>0, <1>1, <2>2, PostShape DEF Connect
  <2>4. e.kind = "opened" /\ e.conn = conns + 1
    BY DEF Event
  <2>5. /\ link = 0 /\ connection = 0 /\ outstanding = NoItem
        /\ \A i \in 1 .. Len(events) : ~Posted(i, LinkKinds)
    BY <1>0, <1>1 DEF Connect, LinkEvents, OutstandingKnown
  <2>6. /\ link' = conns + 1 /\ conns' = conns + 1 /\ advertising' = FALSE
        /\ UNCHANGED <<connection, in_flight, outstanding>>
    BY <1>1 DEF Connect, appVars
  <2> HIDE DEF e
  <2>7. OutstandingKnown'
    BY <2>5, <2>6 DEF OutstandingKnown
  <2>8. ConfirmationOnce'
    BY <1>0, <2>3, <2>4, <2>5, <2>6 DEF ConfirmationOnce
  <2>9. LinkEvents'
    <3>1. /\ connection' <= conns' /\ link' <= conns'
          /\ connection' # link' /\ link' # 0
      BY <2>1, <2>5, <2>6
    <3>2. \A i \in 1 .. Len(events') :
            events'[i].kind = "opened" => events'[i].conn \in 1 .. conns'
      BY <1>0, <2>1, <2>3, <2>4, <2>5, <2>6
    <3>3. \A i \in 1 .. Len(events') :
            events'[i].kind \in LinkKinds => i = Len(events) + 1
      BY <2>3, <2>5
    <3>4. \A i \in 1 .. Len(events') : events'[i].kind # "closed"
      BY <2>3, <2>4, <2>5
    <3>5. QED BY <3>1, <3>2, <3>3, <3>4, <2>6 DEF LinkEvents
  <2>10. QED BY <2>7, <2>8, <2>9
<1>2. CASE Disconnect
  <2> DEFINE e == Event("closed", link, NoChar, "disable")
  <2>2. e \in Events
    BY <1>0, EventTyped DEF Kinds, Flags, TypeOK
  <2>3. /\ Len(events) \in Nat
        /\ Len(events') = Len(events) + 1
        /\ \A i \in 1 .. Len(events) : events'[i] = events[i]
        /\ events'[Len(events) + 1] = e
    BY <1>0, <1>2, <2>2, PostShape DEF Disconnect
  <2>4. e.kind = "closed"
    BY DEF Event
  <2>5. link # 0 /\ link \in Nat /\ conns \in Nat /\ ~advertising
    BY <1>0, <1>2, BoundAssumption DEF Disconnect, LinkEvents, TypeOK
  <2>6. /\ link' = 0 /\ outstanding' = NoItem
        /\ UNCHANGED <<connection, in_flight, conns, advertising>>
    BY <1>2 DEF Disconnect, appVars
  <2>7. \A i \in 1 .. Len(events) : events[i].kind # "closed"
    BY <1>0, <2>5 DEF LinkEvents
  <2> HIDE DEF e
  <2>8. OutstandingKnown'
    BY <2>6 DEF OutstandingKnown
  <2>9. ConfirmationOnce'
    BY <1>0, <2>3, <2>4, <2>6, <2>7 DEF ConfirmationOnce
  <2>10. LinkEvents'
    <3>1. \A i \in 1 .. Len(events') :
            events'[i].kind = "opened" =>
              i \in 1 .. Len(events) /\ events'[i].conn \in 1 .. conns'
      BY <1>0, <2>3, <2>4, <2>6 DEF LinkEvents
    <3>2. \A i \in 1 .. Len(events') :
            events'[i].kind = "closed" => i = Len(events) + 1
      BY <2>3, <2>7
    <3>3. \A i \in 1 .. Len(events') :
            events'[i].kind = "opened" => events'[i].conn # link'
      BY <3>1, <2>5, <2>6
    <3>4. connection' <= conns' /\ link' <= conns' /\ ~advertising'
      BY <1>0, <2>5, <2>6 DEF LinkEvents
    <3>5. QED BY <3>1, <3>2, <3>3, <3>4, <2>3, <2>6 DEF LinkEvents
  <2>11. QED BY <2>8, <2>9, <2>10
<1>3. CASE ClientConfirms
  <2> DEFINE f == IF outstanding.char \in cccd THEN "indication" ELSE "disable"
             e == Event("confirmation", link, outstanding.char, f)
  <2>1. f \in Flags /\ outstanding.char \in Chars \cup {NoChar}
    BY <1>0 DEF Flags, TypeOK, Items, NoItem
  <2>2. e \in Events
    BY <1>0, <2>1, EventTyped DEF Kinds, TypeOK
  <2>3. /\ Len(events) \in Nat
        /\ Len(events') = Len(events) + 1
        /\ \A i \in 1 .. Len(events) : events'[i] = events[i]
        /\ events'[Len(events) + 1] = e
    BY <1>0, <1>3, <2>2, PostShape DEF ClientConfirms
  <2>4. e.kind = "confirmation"
    BY DEF Event
  <2>5. /\ in_flight = 1
        /\ \A i \in 1 .. Len(events) :
             events[i].kind \notin {"opened", "closed", "confirmation"}
    BY <1>0, <1>3 DEF ClientConfirms, OutstandingKnown
  <2>6. /\ outstanding' = NoItem
        /\ UNCHANGED <<link, connection, in_flight, conns, advertising>>
    BY <1>3 DEF ClientConfirms, appVars
  <2> HIDE DEF e, f
  <2>7. OutstandingKnown'
    BY <2>6 DEF OutstandingKnown
  <2>8. ConfirmationOnce'
    <3>1. \A i \in 1 .. Len(events') :
            /\ events'[i].kind = "confirmation" => i = Len(events) + 1
            /\ events'[i].kind # "closed"
      BY <2>3, <2>4, <2>5
    <3>2. in_flight' # 0
      BY <2>5, <2>6
    <3>3. QED BY <3>1, <3>2 DEF ConfirmationOnce
  <2>9. LinkEvents'
    <3>1. \A i \in 1 .. Len(events') : events'[i].kind \notin LinkKinds
      BY <2>3, <2>4, <2>5
    <3>2. QED BY <1>0, <3>1, <2>6 DEF LinkEvents
  <2>10. QED BY <2>7, <2>8, <2>9
<1>4. QED BY <1>1, <1>2, <1>3

\* An event that concerns neither the link nor a confirmation disturbs nothing.
LEMMA QuietPost ==
  ASSUME FlightInv, NEW e \in Events, Post(e),
         e.kind \in {"client_config", "timeout"},
         UNCHANGED <<link, connection, in_flight, conns, advertising, outstanding>>
  PROVE  OutstandingKnown' /\ ConfirmationOnce' /\ LinkEvents'
<1> USE DEF Posted, LinkKinds
<1>0. TypeOK /\ OutstandingKnown /\ ConfirmationOnce /\ LinkEvents
  BY DEF FlightInv
<1>1. /\ Len(events) \in Nat
      /\ Len(events') = Len(events) + 1
      /\ \A i \in 1 .. Len(events) : events'[i] = events[i]
      /\ events'[Len(events) + 1] = e
  BY <1>0, PostShape
<1>2. \A i \in 1 .. Len(events') :
        events'[i].kind \in {"opened", "closed", "confirmation"} =>
          i \in 1 .. Len(events) /\ events'[i] = events[i]
  BY <1>1
<1>3. OutstandingKnown'
  BY <1>0, <1>2 DEF OutstandingKnown
<1>4. ConfirmationOnce'
  BY <1>0, <1>2 DEF ConfirmationOnce
<1>5. LinkEvents'
  BY <1>0, <1>2 DEF LinkEvents
<1>6. QED BY <1>3, <1>4, <1>5

\* The facts about pairs of posted events survive the removal of the oldest.
LEMMA PairsShift ==
  ASSUME FlightInv, NEW kind, Handle(kind),
         NEW i \in 1 .. Len(events'), NEW j \in 1 .. Len(events')
  PROVE  /\ events'[i].kind = "confirmation" /\ events'[j].kind = "confirmation"
            => i = j
         /\ events'[i].kind = "closed" /\ events'[j].kind = "confirmation"
            => j < i
         /\ /\ events'[i].kind = "opened" /\ events'[i].conn = link'
            /\ events'[j].kind \in LinkKinds
            => i = j
         /\ events'[i].kind = "closed" =>
              link' = 0 /\ (events'[j].kind \in LinkKinds => j <= i)
<1>0. TypeOK /\ ConfirmationOnce /\ LinkEvents
  BY DEF FlightInv
<1>1. /\ Len(events) \in Nat \ {0}
      /\ Len(events') = Len(events) - 1
      /\ \A k \in 1 .. Len(events) - 1 : events'[k] = events[k + 1]
  BY <1>0, HandleShape
<1>2. /\ i \in Int /\ j \in Int
      /\ i + 1 \in 1 .. Len(events) /\ j + 1 \in 1 .. Len(events)
      /\ events'[i] = events[i + 1] /\ events'[j] = events[j + 1]
  BY <1>1
<1>3. link' = link
  BY DEF Handle
<1> DEFINE p == i + 1
           q == j + 1
<1>4. p \in 1 .. Len(events) /\ q \in 1 .. Len(events)
      /\ events'[i] = events[p] /\ events'[j] = events[q]
      /\ (p = q => i = j) /\ (q < p => j < i) /\ (q <= p => j <= i)
  BY <1>2
<1> HIDE DEF p, q
<1>5. /\ events[p].kind = "confirmation" /\ events[q].kind = "confirmation"
         => p = q
      /\ events[p].kind = "closed" /\ events[q].kind = "confirmation" => q < p
  BY <1>0, <1>4 DEF ConfirmationOnce, Posted
<1>6. /\ /\ events[p].kind = "opened" /\ events[p].conn = link
         /\ events[q].kind \in LinkKinds
         => p = q
      /\ events[p].kind = "closed" =>
           link = 0 /\ (events[q].kind \in LinkKinds => q <= p)
  BY <1>0, <1>4 DEF LinkEvents, Posted
<1>7. QED BY <1>3, <1>4, <1>5, <1>6

\* Handling an event that leaves connection and advertiser alone keeps what
\* is known of the connection's events.
LEMMA QuietHandle ==
  ASSUME FlightInv, NEW kind, Handle(kind), UNCHANGED <<connection, advertising>>
  PROVE  LinkEvents'
<1> USE DEF Posted, LinkKinds
<1>0. TypeOK /\ LinkEvents
  BY DEF FlightInv
<1>1. UNCHANGED <<link, conns>>
  BY DEF Handle
<1>2. \A i \in 1 .. Len(events') :
        i + 1 \in 1 .. Len(events) /\ events'[i] = events[i + 1]
  BY <1>0, HandleShape
<1>3. /\ connection' <= conns' /\ link' <= conns'
      /\ \A i \in 1 .. Len(events') :
           events'[i].kind = "opened" => events'[i].conn \in 1 .. conns'
  BY <1>0, <1>1, <1>2 DEF LinkEvents
<1>4. /\ advertising' => link' = 0 /\ connection' = 0
      /\ (advertising' \/ (connection' = link' /\ link' # 0)) =>
           \A i \in 1 .. Len(events') : events'[i].kind \notin LinkKinds
  BY <1>0, <1>1, <1>2 DEF LinkEvents
<1>5. QED BY <1>3, <1>4, PairsShift DEF LinkEvents

\* Handling an event keeps the invariant.
LEMMA HandleStep ==
  ASSUME FlightInv, HandleEvent
  PROVE  OutstandingKnown' /\ ConfirmationOnce' /\ LinkEvents'
<1> USE DEF Posted, LinkKinds
<1>0. TypeOK /\ OutstandingKnown /\ ConfirmationOnce /\ LinkEvents
  BY DEF FlightInv
<1>1. PICK kind : Handle(kind)
  BY DEF HandleEvent, ConnectionOpened, ConnectionClosed, IndicationTimeout,
         IndicationsOn, Confirmation, IndicationsOff
<1>2. /\ Len(events) \in Nat \ {0}
      /\ Len(events') = Len(events) - 1
      /\ \A i \in 1 .. Len(events) - 1 : events'[i] = events[i + 1]
      /\ Head(events) = events[1]
  BY <1>0, <1>1, HandleShape
<1>3. UNCHANGED <<link, conns, outstanding>>
  BY <1>1 DEF Handle
<1>4. \A i \in 1 .. Len(events') :
        i + 1 \in 1 .. Len(events) /\ events'[i] = events[i + 1] /\ i + 1 # 1
  BY <1>2
<1>5. 1 \in 1 .. Len(events)
  BY <1>2
<1>6. CASE ConnectionOpened
  <2>1. /\ events[1].kind = "opened" /\ connection' = events[1].conn
        /\ advertising' = FALSE /\ in_flight' = in_flight
    BY <1>0, <1>2, <1>6, HandleShape DEF ConnectionOpened
  <2>2. outstanding = NoItem
    BY <1>0, <1>5, <2>1 DEF OutstandingKnown
  <2>3. OutstandingKnown'
    BY <1>3, <2>2 DEF OutstandingKnown
  <2>4. ConfirmationOnce'
    <3>1. in_flight' = 0 =>
            \A i \in 1 .. Len(events') : events'[i].kind # "confirmation"
      BY <1>0, <1>4, <2>1 DEF ConfirmationOnce
    <3>2. QED BY <1>1, <3>1, PairsShift DEF ConfirmationOnce
  <2>5. LinkEvents'
    <3>1. events[1].conn \in 1 .. conns /\ conns \in Nat
      BY <1>0, <1>5, <2>1, BoundAssumption DEF LinkEvents, TypeOK
    <3>2. connection' <= conns' /\ link' <= conns'
      BY <1>0, <1>3, <2>1, <3>1 DEF LinkEvents
    <3>3. (connection' = link' /\ link' # 0) =>
            \A i \in 1 .. Len(events') : events'[i].kind \notin LinkKinds
      BY <1>0, <1>3, <1>4, <1>5, <2>1 DEF LinkEvents
    <3>4. \A i \in 1 .. Len(events') :
            events'[i].kind = "opened" => events'[i].conn \in 1 .. conns'
      BY <1>0, <1>3, <1>4 DEF LinkEvents
    <3>5. \A i, j \in 1 .. Len(events') :
            /\ events'[i].kind = "opened" /\ events'[i].conn = link'
            /\ events'[j].kind \in LinkKinds
            => i = j
      BY <1>1, PairsShift
    <3>6. \A i \in 1 .. Len(events') :
            events'[i].kind = "closed" =>
              /\ link' = 0
              /\ \A j \in 1 .. Len(events') :
                   events'[j].kind \in LinkKinds => j <= i
      BY <1>1, PairsShift
    <3>7. QED BY <3>2, <3>3, <3>4, <3>5, <3>6, <2>1 DEF LinkEvents
  <2>6. QED BY <2>3, <2>4, <2>5
<1>7. CASE ConnectionClosed
  <2>1. /\ events[1].kind = "closed" /\ connection' = 0
        /\ advertising' = TRUE /\ in_flight' = 0
    BY <1>0, <1>2, <1>7, HandleShape DEF ConnectionClosed
  <2>2. outstanding = NoItem
    BY <1>0, <1>5, <2>1 DEF OutstandingKnown
  <2>3. OutstandingKnown'
    BY <1>3, <2>2 DEF OutstandingKnown
  <2>4. \A i \in 1 .. Len(events') :
          events'[i].kind \notin {"opened", "closed", "confirmation"}
    BY <1>0, <1>2, <1>4, <1>5, <2>1 DEF ConfirmationOnce, LinkEvents
  <2>5. ConfirmationOnce'
    BY <2>4 DEF ConfirmationOnce
  <2>6. LinkEvents'
    <3>1. link = 0 /\ conns \in Nat
      BY <1>0, <1>5, <2>1, BoundAssumption DEF LinkEvents, TypeOK
    <3>2. QED BY <1>3, <2>1, <2>4, <3>1 DEF LinkEvents
  <2>7. QED BY <2>3, <2>5, <2>6
<1>8. CASE Confirmation
  <2>1. /\ events[1].kind = "confirmation" /\ in_flight' = 0
        /\ UNCHANGED <<connection, advertising>>
    BY <1>0, <1>8, HandleShape DEF Confirmation
  <2>2. outstanding = NoItem
    BY <1>0, <1>5, <2>1 DEF OutstandingKnown
  <2>3. OutstandingKnown'
    BY <1>3, <2>2 DEF OutstandingKnown
  <2>4. \A i \in 1 .. Len(events') : events'[i].kind # "confirmation"
    BY <1>0, <1>2, <1>4, <1>5, <2>1 DEF ConfirmationOnce
  <2>5. ConfirmationOnce'
    BY <2>4 DEF ConfirmationOnce
  <2>6. LinkEvents'
    BY <1>0, <1>1, <2>1, QuietHandle
  <2>7. QED BY <2>3, <2>5, <2>6
<1>9. CASE IndicationTimeout \/ IndicationsOn \/ IndicationsOff
  <2>1. UNCHANGED <<connection, in_flight, advertising>>
    BY <1>9 DEF IndicationTimeout, IndicationsOn, IndicationsOff, appVars
  <2>2. OutstandingKnown'
    BY <1>0, <1>3, <1>4, <2>1 DEF OutstandingKnown
  <2>3. ConfirmationOnce'
    <3>1. in_flight' = 0 =>
            \A i \in 1 .. Len(events') : events'[i].kind # "confirmation"
      BY <1>0, <1>4, <2>1 DEF ConfirmationOnce
    <3>2. QED BY <1>1, <3>1, PairsShift DEF ConfirmationOnce
  <2>4. LinkEvents'
    BY <1>0, <1>1, <2>1, QuietHandle
  <2>5. QED BY <2>2, <2>3, <2>4
<1>10. QED BY <1>6, <1>7, <1>8, <1>9 DEF HandleEvent

\* A send happens only while the flag is down, so that nothing is outstanding
\* and no event that matters is posted.
LEMMA SendStep ==
  ASSUME FlightInv, NEW item, Send(item), in_flight = 0,
         UNCHANGED <<link, connection, conns, advertising, events>>
  PROVE  OutstandingKnown' /\ ConfirmationOnce' /\ LinkEvents' /\ NeverInProgress'
<1>0. TypeOK /\ OutstandingKnown /\ ConfirmationOnce /\ LinkEvents
  BY DEF FlightInv
<1>1. outstanding = NoItem
  BY <1>0 DEF OutstandingKnown
<1>2. /\ status' # "IN_PROGRESS"
      /\ \/ in_flight' = 1 /\ connection = link /\ link # 0 /\ outstanding' = item
         \/ in_flight' = 0 /\ outstanding' = NoItem
  BY <1>1, SendShape
<1>3. (connection = link /\ link # 0) =>
        \A i \in 1 .. Len(events) :
          events[i].kind \notin {"opened", "closed", "confirmation"}
  BY <1>0 DEF LinkEvents, ConfirmationOnce, Posted, LinkKinds
<1>4. OutstandingKnown'
  BY <1>2, <1>3 DEF OutstandingKnown, Posted
<1>5. ConfirmationOnce'
  BY <1>0 DEF ConfirmationOnce, Posted
<1>6. LinkEvents'
  BY <1>0 DEF LinkEvents, Posted
<1>7. QED BY <1>2, <1>4, <1>5, <1>6 DEF NeverInProgress

LEMMA StepFlight == FlightInv /\ [Next]_vars => FlightInv'
<1> SUFFICES ASSUME FlightInv, [Next]_vars PROVE FlightInv'
  OBVIOUS
<1>0. TypeOK' /\ TypeOK /\ NeverInProgress
  BY StepType DEF FlightInv
<1>1. CASE Disconnect \/ ClientConfirms \/ Connect
  <2>1. status' = status
    BY <1>1 DEF Disconnect, ClientConfirms, Connect
  <2>2. QED BY <1>0, <1>1, <2>1, PostStep DEF FlightInv, NeverInProgress
<1>2. ASSUME NEW c \in Chars, ClientEnables(c) \/ ClientDisables(c)
      PROVE  FlightInv'
  <2>1. PICK f \in Flags : Post(Event("client_config", link, c, f))
    BY <1>2 DEF ClientEnables, ClientDisables, Flags
  <2>2. Event("client_config", link, c, f) \in Events
    BY <1>0, EventTyped DEF Kinds, TypeOK
  <2>3. Event("client_config", link, c, f).kind = "client_config"
    BY DEF Event
  <2>4. UNCHANGED <<link, connection, in_flight, conns, advertising,
                    outstanding, status>>
    BY <1>2 DEF ClientEnables, ClientDisables, appVars
  <2>5. QED BY <1>0, <2>1, <2>2, <2>3, <2>4, QuietPost
            DEF FlightInv, NeverInProgress
<1>3. CASE IndicationTimesOut
  <2> DEFINE e == Event("timeout", link, NoChar, "disable")
  <2>1. e \in Events
    BY <1>0, EventTyped DEF Kinds, Flags, TypeOK
  <2>2. e.kind = "timeout" /\ Post(e)
    BY <1>3 DEF Event, IndicationTimesOut
  <2>3. UNCHANGED <<link, connection, in_flight, conns, advertising,
                    outstanding, status>>
    BY <1>3 DEF IndicationTimesOut, appVars
  <2> HIDE DEF e
  <2>4. QED BY <1>0, <2>1, <2>2, <2>3, QuietPost DEF FlightInv, NeverInProgress
<1>4. ASSUME NEW c \in Chars, SendValue(c) PROVE FlightInv'
  <2>1. UNCHANGED <<link, connection, conns, advertising, events>>
    BY <1>4 DEF SendValue
  <2>2. CASE MaySendNow(c)
    <3>1. Send(Item(c)) /\ in_flight = 0
      BY <1>4, <2>2 DEF SendValue, MaySendNow
    <3>2. QED BY <1>0, <2>1, <3>1, SendStep DEF FlightInv
  <2>3. CASE ~MaySendNow(c)
    <3>1. UNCHANGED <<in_flight, outstanding, status>>
      BY <1>4, <2>3 DEF SendValue
    <3>2. QED BY <1>0, <2>1, <3>1 DEF FlightInv, OutstandingKnown,
                 ConfirmationOnce, LinkEvents, NeverInProgress, Posted
  <2>4. QED BY <2>2, <2>3
<1>5. CASE SoftTimer
  BY <1>0, <1>5, SendStep DEF SoftTimer, FlightInv
<1>6. CASE HandleEvent
  <2>1. status' = status
    BY <1>6 DEF HandleEvent, ConnectionOpened, ConnectionClosed, Handle,
       IndicationTimeout, IndicationsOn, Confirmation, IndicationsOff
  <2>2. QED BY <1>0, <1>6, <2>1, HandleStep DEF FlightInv, NeverInProgress
<1>7. CASE UNCHANGED vars
  BY <1>0, <1>7 DEF vars, appVars, stackVars, FlightInv, OutstandingKnown,
     ConfirmationOnce, LinkEvents, NeverInProgress, Posted
<1>8. QED
  BY <1>1, <1>2, <1>3, <1>4, <1>5, <1>6, <1>7 DEF Next

\* sl_bt_gatt_server_send_indication is never called while an indication
\* awaits its confirmation, for every interleaving of the stack's events with
\* sensor values and timer ticks (ble.c:437-445, 521-550, 898-927).
THEOREM NoSendInProgress == Spec => []NeverInProgress
<1>1. FlightInv => NeverInProgress
  BY DEF FlightInv
<1>2. QED BY <1>1, InitFlight, StepFlight, PTL DEF Spec
-----------------------------------------------------------------------------
(* Why no value is sent twice: values are numbered in the order of         *)
(* production, and every number is in the queue or was sent, not both.     *)

ValuesInv ==
  /\ TypeOK
  /\ \A i \in DOMAIN sent : sent[i].item.val <= produced
  /\ \A i \in DOMAIN queue : queue[i].val <= produced
  /\ \A i, j \in DOMAIN queue : queue[i].val = queue[j].val => i = j
  /\ NoDuplicates

\* The values sent are numbers.
LEMMA SentTyped ==
  ASSUME TypeOK
  PROVE  \A i \in DOMAIN sent : sent[i].item.val \in Nat
<1> DEFINE S == [item : Items, link : 0 .. MaxConns]
<1>1. sent \in Seq(S)
  BY DEF TypeOK
<1>2. \A x \in S : x.item \in Items
  OBVIOUS
<1>3. \A x \in Items : x.val \in Nat
  BY DEF Items
<1> HIDE DEF S
<1>4. \A i \in DOMAIN sent : sent[i] \in S
  BY <1>1
<1> QED
  BY <1>2, <1>3, <1>4

\* What a send appends to the history.
LEMMA SentShape ==
  ASSUME TypeOK, NEW item \in Items, sent' = Append(sent, Log(item))
  PROVE  /\ Len(sent) \in Nat /\ DOMAIN sent = 1 .. Len(sent)
         /\ DOMAIN sent' = 1 .. (Len(sent) + 1)
         /\ \A i \in 1 .. Len(sent) : sent'[i] = sent[i]
         /\ sent'[Len(sent) + 1].item = item
<1> DEFINE S == [item : Items, link : 0 .. MaxConns]
           x == Log(item)
<1>1. x \in S /\ x.item = item /\ sent \in Seq(S)
  BY DEF Log, TypeOK
<1>2. /\ Append(sent, x) \in Seq(S)
      /\ Len(sent) \in Nat
      /\ Len(Append(sent, x)) = Len(sent) + 1
      /\ \A i \in 1 .. Len(sent) : Append(sent, x)[i] = sent[i]
      /\ Append(sent, x)[Len(sent) + 1] = x
  BY <1>1, AppendIndexed
<1>3. DOMAIN sent = 1 .. Len(sent)
  BY <1>1
<1>4. DOMAIN Append(sent, x) = 1 .. (Len(sent) + 1)
  BY <1>2
<1> HIDE DEF x, S
<1> QED
  BY <1>1, <1>2, <1>3, <1>4 DEF x

\* A value is sent that was not sent before and does not stay in the queue.
LEMMA FreshSend ==
  ASSUME ValuesInv, NEW item \in Items, Send(item),
         NEW n \in Nat, n >= produced, item.val <= n,
         \A i \in DOMAIN sent : sent[i].item.val # item.val,
         \A j \in DOMAIN queue' :
           \E k \in DOMAIN queue : queue'[j] = queue[k] /\ queue[k].val # item.val
  PROVE  /\ \A i \in DOMAIN sent' : sent'[i].item.val <= n
         /\ NoDuplicates'
<1>1. produced \in Nat /\ TypeOK
  BY BoundAssumption DEF ValuesInv, TypeOK
<1>3. \A i \in DOMAIN sent : sent[i].item.val \in Nat
  BY <1>1, SentTyped
<1>4. \A i \in DOMAIN sent : sent[i].item.val <= n
  BY <1>1, <1>3 DEF ValuesInv
<1>5. CASE sent' = sent
  BY <1>4, <1>5 DEF ValuesInv, NoDuplicates
<1>6. CASE sent' = Append(sent, Log(item))
  <2>1. /\ Len(sent) \in Nat /\ DOMAIN sent = 1 .. Len(sent)
        /\ DOMAIN sent' = 1 .. (Len(sent) + 1)
        /\ \A i \in 1 .. Len(sent) : sent'[i] = sent[i]
        /\ sent'[Len(sent) + 1].item = item
    BY <1>1, <1>6, SentShape
  <2>2. \A i \in DOMAIN sent' :
          \/ i \in DOMAIN sent /\ sent'[i] = sent[i]
          \/ i = Len(sent) + 1 /\ sent'[i].item = item
    BY <2>1
  <2>3. \A i \in DOMAIN sent' : sent'[i].item.val <= n
    BY <1>4, <2>2
  <2>4. \A i, j \in DOMAIN sent' : sent'[i].item.val = sent'[j].item.val => i = j
    BY <2>2 DEF ValuesInv, NoDuplicates
  <2>5. \A i \in DOMAIN sent', j \in DOMAIN queue' : sent'[i].item.val # queue'[j].val
    BY <2>2 DEF ValuesInv, NoDuplicates
  <2> QED
    BY <2>3, <2>4, <2>5 DEF NoDuplicates
<1> QED
  BY <1>5, <1>6 DEF Send

\* No value is there at first.
LEMMA InitValues == Init => ValuesInv
<1> SUFFICES ASSUME Init
             PROVE  ValuesInv
  OBVIOUS
<1>1. TypeOK
  BY InitType
<1>2. DOMAIN sent = {} /\ DOMAIN queue = {}
  BY DEF Init
<1> QED
  BY <1>1, <1>2 DEF ValuesInv, NoDuplicates

\* Every step keeps the values apart.
LEMMA StepValues == ValuesInv /\ [Next]_vars => ValuesInv'
<1> SUFFICES ASSUME ValuesInv, [Next]_vars
             PROVE  ValuesInv'
  OBVIOUS
<1>0. TypeOK /\ TypeOK' /\ produced \in Nat
  BY StepType, BoundAssumption DEF ValuesInv, TypeOK
<1>s. ASSUME UNCHANGED <<sent, queue, produced>>
      PROVE  ValuesInv'
  BY <1>0, <1>s DEF ValuesInv, NoDuplicates
<1>q. \A i \in DOMAIN queue : queue[i] \in Items /\ queue[i].val \in Nat
  <2>1. \A i \in DOMAIN queue : queue[i] \in Items
    BY <1>0 DEF TypeOK
  <2> QED
    BY <2>1 DEF Items
<1>v. \A i \in DOMAIN sent : sent[i].item.val \in Nat
  BY <1>0, SentTyped
<1>1. ASSUME NEW c \in Chars, SendValue(c)
      PROVE  ValuesInv'
  <2> DEFINE item == Item(c)
             n == produced + 1
  <2>1. produced' = n /\ item.val = n /\ item \in Items /\ n \in Nat /\ n > produced
    BY <1>0, <1>1 DEF SendValue, Item, Items, TypeOK
  <2>2. /\ \A i \in DOMAIN sent : sent[i].item.val # n /\ sent[i].item.val <= n
        /\ \A i \in DOMAIN queue : queue[i].val # n /\ queue[i].val <= n
    BY <1>0, <1>q, <1>v, <2>1 DEF ValuesInv
  <2>3. CASE Send(item) /\ queue' = queue
    <3>1. /\ \A i \in DOMAIN sent' : sent'[i].item.val <= n
          /\ NoDuplicates'
      <4> HIDE DEF item, n
      <4> QED
        BY <2>1, <2>2, <2>3, <1>0, FreshSend
    <3> QED
      BY <1>0, <2>1, <2>2, <2>3, <3>1 DEF ValuesInv
  <2>4. CASE queue' = Append(queue, item) /\ sent' = sent
    <3>1. /\ Len(queue) \in Nat /\ DOMAIN queue = 1 .. Len(queue)
          /\ DOMAIN queue' = 1 .. (Len(queue) + 1)
          /\ \A i \in 1 .. Len(queue) : queue'[i] = queue[i]
          /\ queue'[Len(queue) + 1] = item
      <4>1. queue \in Seq(Items)
        BY <1>0 DEF TypeOK
      <4> HIDE DEF item
      <4>2. /\ Append(queue, item) \in Seq(Items)
            /\ Len(queue) \in Nat
            /\ Len(Append(queue, item)) = Len(queue) + 1
            /\ \A i \in 1 .. Len(queue) : Append(queue, item)[i] = queue[i]
            /\ Append(queue, item)[Len(queue) + 1] = item
        BY <2>1, <4>1, AppendIndexed
      <4> QED
        BY <2>4, <4>1, <4>2
    <3>2. \A i \in DOMAIN queue' :
            \/ i \in DOMAIN queue /\ queue'[i] = queue[i]
            \/ i = Len(queue) + 1 /\ queue'[i].val = n
      BY <2>1, <3>1
    <3> HIDE DEF item, n
    <3>3. \A i \in DOMAIN queue' : queue'[i].val <= n
      BY <2>1, <2>2, <3>2
    <3>4. \A i, j \in DOMAIN queue' : queue'[i].val = queue'[j].val => i = j
      BY <2>2, <3>2 DEF ValuesInv
    <3>5. \A i \in DOMAIN sent, j \in DOMAIN queue' : sent[i].item.val # queue'[j].val
      BY <2>2, <3>2 DEF ValuesInv, NoDuplicates
    <3> QED
      BY <1>0, <2>1, <2>2, <2>4, <3>3, <3>4, <3>5 DEF ValuesInv, NoDuplicates
  <2>5. CASE UNCHANGED <<queue, sent>>
    BY <1>0, <2>1, <2>2, <2>5 DEF ValuesInv, NoDuplicates
  <2> QED
    BY <1>1, <2>3, <2>4, <2>5 DEF SendValue
<1>2. CASE SoftTimer
  <2> DEFINE item == Head(queue)
  <2>1. /\ queue # << >> /\ queue' = Tail(queue) /\ Send(item)
        /\ produced' = produced
    BY <1>2 DEF SoftTimer
  <2>2. queue \in Seq(Items)
    BY <1>0 DEF TypeOK
  <2>3. /\ Len(queue) \in Nat \ {0}
        /\ DOMAIN queue = 1 .. Len(queue)
        /\ DOMAIN queue' = 1 .. (Len(queue) - 1)
        /\ \A i \in 1 .. (Len(queue) - 1) : queue'[i] = queue[i + 1]
        /\ item = queue[1]
    BY <2>1, <2>2, TailIndexed
  <2>4. 1 \in DOMAIN queue /\ item \in Items /\ item.val <= produced
    BY <1>q, <2>3 DEF ValuesInv
  <2>5. \A j \in DOMAIN queue' : /\ j + 1 \in DOMAIN queue /\ j + 1 # 1
                                 /\ queue'[j] = queue[j + 1]
    BY <2>3
  <2>6. \A k \in DOMAIN queue : k # 1 => queue[k].val # item.val
    BY <2>3, <2>4 DEF ValuesInv
  <2>7. \A i \in DOMAIN sent : sent[i].item.val # item.val
    BY <2>3, <2>4 DEF ValuesInv, NoDuplicates
  <2>8. \A j \in DOMAIN queue' :
          \E k \in DOMAIN queue : queue'[j] = queue[k] /\ queue[k].val # item.val
    BY <2>5, <2>6
  <2> HIDE DEF item
  <2>9. /\ \A i \in DOMAIN sent' : sent'[i].item.val <= produced
        /\ NoDuplicates'
    BY <1>0, <2>1, <2>4, <2>7, <2>8, FreshSend
  <2>10. \A j \in DOMAIN queue' : queue'[j].val <= produced
    BY <2>5 DEF ValuesInv
  <2>11. \A i, j \in DOMAIN queue' : queue'[i].val = queue'[j].val => i = j
    <3> SUFFICES ASSUME NEW i \in DOMAIN queue', NEW j \in DOMAIN queue',
                        queue'[i].val = queue'[j].val
                 PROVE  i = j
      OBVIOUS
    <3>1. i + 1 = j + 1
      BY <2>5 DEF ValuesInv
    <3> QED
      BY <3>1, <2>3
  <2> QED
    BY <1>0, <2>1, <2>9, <2>10, <2>11 DEF ValuesInv
<1>3. CASE Connect \/ Disconnect \/ ClientConfirms \/ IndicationTimesOut
  BY <1>3, <1>s DEF Connect, Disconnect, ClientConfirms, IndicationTimesOut, appVars
<1>4. ASSUME NEW c \in Chars, ClientEnables(c) \/ ClientDisables(c)
      PROVE  ValuesInv'
  BY <1>4, <1>s DEF ClientEnables, ClientDisables, appVars
<1>5. CASE HandleEvent
  BY <1>5, <1>s DEF HandleEvent, ConnectionOpened, ConnectionClosed, Handle,
     IndicationTimeout, IndicationsOn, Confirmation, IndicationsOff, appVars
<1>6. CASE UNCHANGED vars
  BY <1>6, <1>s DEF vars, appVars
<1> QED
  BY <1>1, <1>2, <1>3, <1>4, <1>5, <1>6 DEF Next

\* No sensor value is given to the stack twice, and none that was sent still
\* waits in the queue, for every size of it and however often links and sends
\* fail (ble.c:521-550, 580-587, 898-927).
THEOREM SentOnce == Spec => []NoDuplicates
<1>1. ValuesInv => NoDuplicates
  BY DEF ValuesInv
<1>2. QED BY <1>1, InitValues, StepValues, PTL DEF Spec
-----------------------------------------------------------------------------
(* Why the application's view catches up with the stack: the last posted   *)
(* event about a descriptor tells how it is, the opening is told of the    *)
(* link that is up, and a closing that nothing follows resets everything.  *)

\* The events that set a flag, or take it away.
Tells(e, c) ==
  /\ e.char = c
  /\ e.kind = "client_config" \/ (e.kind = "confirmation" /\ e.flags = "disable")

\* What was last told of c, or else the flag, is what its descriptor says.
Agrees(c) ==
  /\ \A i \in DOMAIN events :
       (Tells(events[i], c) /\ \A j \in DOMAIN events : j > i => ~Tells(events[j], c))
         => (events[i].flags = "indication" <=> c \in cccd)
  /\ (\A i \in DOMAIN events : ~Tells(events[i], c)) => (c \in enabled <=> c \in cccd)

ViewInv ==
  /\ TypeOK
  /\ link = 0 =>
       /\ cccd = {} /\ outstanding = NoItem
       /\ \/ events # << >> /\ events[Len(events)].kind = "closed" /\ ~advertising
          \/ events = << >> /\ connection = 0 /\ enabled = {} /\ advertising
  /\ link # 0 =>
       /\ ~advertising
       /\ connection = link \/ (events # << >> /\ events[1].kind = "opened")
       /\ \A c \in Chars : Agrees(c)
  /\ \A i \in DOMAIN events :
       /\ events[i].kind = "closed" => i = Len(events) /\ link = 0
       /\ events[i].kind = "opened" /\ link # 0 => events[i].conn = link

\* An event that tells how a descriptor has become, or of something else.
LEMMA PostAgrees ==
  ASSUME TypeOK, NEW c \in Chars, Agrees(c), NEW e \in Events, Post(e),
         enabled' = enabled,
         Tells(e, c) => (e.flags = "indication" <=> c \in cccd'),
         ~Tells(e, c) => (c \in cccd' <=> c \in cccd)
  PROVE  Agrees(c)'
<1>1. /\ Len(events) \in Nat
      /\ DOMAIN events = 1 .. Len(events)
      /\ DOMAIN events' = 1 .. (Len(events) + 1)
      /\ \A i \in 1 .. Len(events) : events'[i] = events[i]
      /\ events'[Len(events) + 1] = e
  BY PostShape, PostTyped DEF TypeOK
<1> DEFINE n == Len(events)
<1>2. /\ n \in Nat /\ n + 1 \in DOMAIN events'
      /\ \A i \in DOMAIN events : i \in DOMAIN events' /\ i < n + 1 /\ events'[i] = events[i]
      /\ \A i \in DOMAIN events' : i \in DOMAIN events \/ i = n + 1
      /\ events'[n + 1] = e
  BY <1>1
<1> HIDE DEF n
<1>3. CASE Tells(e, c)
  <2>1. ASSUME NEW i \in DOMAIN events', Tells(events'[i], c),
               \A j \in DOMAIN events' : j > i => ~Tells(events'[j], c)
        PROVE  events'[i].flags = "indication" <=> c \in cccd'
    <3>1. i = n + 1
      <4>1. ~(n + 1 > i)
        BY <1>2, <1>3, <2>1
      <4> QED
        BY <1>1, <1>2, <4>1
    <3> QED
      BY <3>1, <1>2, <1>3
  <2>2. ~(\A i \in DOMAIN events' : ~Tells(events'[i], c))
    BY <1>2, <1>3
  <2> QED
    BY <2>1, <2>2 DEF Agrees, Tells
<1>4. CASE ~Tells(e, c)
  <2>1. ASSUME NEW i \in DOMAIN events', Tells(events'[i], c),
               \A j \in DOMAIN events' : j > i => ~Tells(events'[j], c)
        PROVE  events'[i].flags = "indication" <=> c \in cccd'
    <3>1. i \in DOMAIN events /\ events'[i] = events[i]
      BY <1>2, <1>4, <2>1
    <3>2. \A j \in DOMAIN events : j > i => ~Tells(events[j], c)
      BY <1>2, <2>1
    <3> QED
      BY <1>4, <2>1, <3>1, <3>2 DEF Agrees
  <2>2. ASSUME \A i \in DOMAIN events' : ~Tells(events'[i], c)
        PROVE  c \in enabled' <=> c \in cccd'
    <3>1. \A i \in DOMAIN events : ~Tells(events[i], c)
      BY <1>2, <2>2
    <3> QED
      BY <1>4, <3>1 DEF Agrees
  <2> QED
    BY <2>1, <2>2 DEF Agrees, Tells
<1> QED
  BY <1>3, <1>4

\* An event about the descriptor sets the flag to what it tells.
LEMMA HandleAgrees ==
  ASSUME TypeOK, NEW c \in Chars, Agrees(c), NEW kind, Handle(kind),
         Tells(Head(events), c) =>
           (c \in enabled' <=> Head(events).flags = "indication"),
         ~Tells(Head(events), c) => (c \in enabled' <=> c \in enabled)
  PROVE  Agrees(c)'
<1>1. /\ Len(events) \in Nat \ {0}
      /\ DOMAIN events = 1 .. Len(events)
      /\ DOMAIN events' = 1 .. (Len(events) - 1)
      /\ \A i \in 1 .. (Len(events) - 1) : events'[i] = events[i + 1]
      /\ Head(events) = events[1]
  BY HandleShape, HandleTyped DEF TypeOK
<1>2. cccd' = cccd
  BY DEF Handle
<1>3. /\ 1 \in DOMAIN events
      /\ \A i \in DOMAIN events' : i \in Nat /\ i + 1 \in DOMAIN events /\ i + 1 # 1
                                   /\ events'[i] = events[i + 1]
      /\ \A j \in DOMAIN events :
           j = 1 \/ (j - 1 \in DOMAIN events' /\ (j - 1) + 1 = j /\ events'[j - 1] = events[j])
  BY <1>1
<1>4. ASSUME NEW i \in DOMAIN events', Tells(events'[i], c),
             \A j \in DOMAIN events' : j > i => ~Tells(events'[j], c)
      PROVE  events'[i].flags = "indication" <=> c \in cccd'
  <2>1. ASSUME NEW j \in DOMAIN events, j > i + 1
        PROVE  ~Tells(events[j], c)
    <3>1. j - 1 \in DOMAIN events' /\ j - 1 > i /\ events'[j - 1] = events[j]
      BY <1>1, <2>1
    <3> QED
      BY <1>4, <3>1
  <2>2. i + 1 \in DOMAIN events /\ events'[i] = events[i + 1]
    BY <1>3
  <2> QED
    BY <1>2, <1>4, <2>1, <2>2 DEF Agrees
<1>5. ASSUME \A i \in DOMAIN events' : ~Tells(events'[i], c)
      PROVE  c \in enabled' <=> c \in cccd'
  <2>1. \A j \in DOMAIN events : j # 1 => ~Tells(events[j], c)
    BY <1>3, <1>5
  <2>2. CASE Tells(events[1], c)
    <3>1. \A j \in DOMAIN events : j > 1 => ~Tells(events[j], c)
      BY <2>1
    <3> QED
      BY <1>1, <1>2, <1>3, <2>2, <3>1 DEF Agrees
  <2>3. CASE ~Tells(events[1], c)
    <3>1. \A j \in DOMAIN events : ~Tells(events[j], c)
      BY <2>1, <2>3
    <3> QED
      BY <1>1, <1>2, <2>3, <3>1 DEF Agrees
  <2> QED
    BY <2>2, <2>3
<1> QED
  BY <1>4, <1>5 DEF Agrees, Tells

\* The stack posts something while the link is up, and the descriptors are as
\* it tells.
LEMMA PostView ==
  ASSUME ViewInv, TypeOK', link # 0, NEW e \in Events, Post(e),
         e.kind \notin {"opened", "closed"},
         UNCHANGED <<link, advertising, connection, enabled>>,
         \A c \in Chars :
           /\ Tells(e, c) => (e.flags = "indication" <=> c \in cccd')
           /\ ~Tells(e, c) => (c \in cccd' <=> c \in cccd)
  PROVE  ViewInv'
<1>1. TypeOK
  BY DEF ViewInv
<1>2. \A c \in Chars : Agrees(c)'
  BY <1>1, PostAgrees DEF ViewInv
<1>3. /\ Len(events) \in Nat /\ DOMAIN events = 1 .. Len(events)
      /\ DOMAIN events' = 1 .. (Len(events) + 1)
      /\ \A i \in 1 .. Len(events) : events'[i] = events[i]
      /\ events'[Len(events) + 1] = e
  BY <1>1, PostShape, PostTyped DEF TypeOK
<1>4. events # << >> => 1 \in DOMAIN events
  BY <1>1, <1>3, TailIndexed DEF TypeOK
<1>5. connection' = link' \/ (events' # << >> /\ events'[1].kind = "opened")
  <2>1. CASE connection = link
    BY <2>1
  <2>2. CASE events # << >> /\ events[1].kind = "opened"
    <3>1. events'[1].kind = "opened" /\ 1 \in DOMAIN events'
      BY <1>3, <1>4, <2>2
    <3> QED
      BY <3>1
  <2> QED
    BY <2>1, <2>2 DEF ViewInv
<1>6. \A i \in DOMAIN events' :
        /\ events'[i].kind # "closed"
        /\ events'[i].kind = "opened" => events'[i].conn = link'
  BY <1>3 DEF ViewInv
<1> QED
  BY <1>2, <1>5, <1>6 DEF ViewInv

\* Nothing is connected, posted or configured at first.
LEMMA InitView == Init => ViewInv
<1> SUFFICES ASSUME Init
             PROVE  ViewInv
  OBVIOUS
<1>1. TypeOK
  BY InitType
<1>2. DOMAIN events = {}
  BY DEF Init
<1> QED
  BY <1>1, <1>2 DEF Init, ViewInv

\* A link comes up when the one before is forgotten.
LEMMA ConnectView == ViewInv /\ TypeOK' /\ Connect => ViewInv'
<1> SUFFICES ASSUME ViewInv, TypeOK', Connect
             PROVE  ViewInv'
  OBVIOUS
<1> DEFINE e == Event("opened", conns + 1, NoChar, "disable")
<1>1. /\ advertising /\ link' = conns + 1 /\ advertising' = FALSE
      /\ events' = Append(events, e)
      /\ UNCHANGED <<appVars, cccd>>
      /\ conns \in Nat
  BY BoundAssumption DEF Connect, Post, ViewInv, TypeOK
<1>2. /\ events = << >> /\ connection = 0 /\ enabled = {} /\ cccd = {}
      /\ link' # 0
  BY <1>1 DEF ViewInv
<1>3. e.kind = "opened" /\ e.conn = conns + 1
  BY DEF Event
<1> HIDE DEF e
<1>4. events' = <<e>>
  BY <1>1, <1>2
<1>5. DOMAIN events' = {1} /\ events'[1] = e /\ events' # << >>
  BY <1>4
<1>6. \A c \in Chars : Agrees(c)'
  BY <1>1, <1>2, <1>3, <1>5 DEF Agrees, Tells, appVars
<1> QED
  BY <1>1, <1>2, <1>3, <1>5, <1>6 DEF ViewInv

\* The closing is the last event of its link.
LEMMA DisconnectView == ViewInv /\ TypeOK' /\ Disconnect => ViewInv'
<1> SUFFICES ASSUME ViewInv, TypeOK', Disconnect
             PROVE  ViewInv'
  OBVIOUS
<1> DEFINE e == Event("closed", link, NoChar, "disable")
<1>0. TypeOK
  BY DEF ViewInv
<1>1. /\ link # 0 /\ link' = 0 /\ cccd' = {} /\ outstanding' = NoItem
      /\ ~advertising' /\ Post(e)
  BY DEF Disconnect, ViewInv
<1>2. e \in Events /\ e.kind = "closed"
  BY <1>0, EventTyped DEF Kinds, Flags, TypeOK, Event
<1> HIDE DEF e
<1>3. /\ Len(events) \in Nat /\ DOMAIN events = 1 .. Len(events)
      /\ DOMAIN events' = 1 .. (Len(events) + 1)
      /\ Len(events') = Len(events) + 1
      /\ \A i \in 1 .. Len(events) : events'[i] = events[i]
      /\ events'[Len(events) + 1] = e
  BY <1>0, <1>1, <1>2, PostShape, PostTyped DEF TypeOK
<1>4. Len(events') \in DOMAIN events' /\ events'[Len(events')].kind = "closed"
  BY <1>2, <1>3
<1>5. events' # << >>
  BY <1>4
<1>6. \A i \in DOMAIN events' : events'[i].kind = "closed" => i = Len(events')
  BY <1>1, <1>3 DEF ViewInv
<1> QED
  BY <1>1, <1>4, <1>5, <1>6 DEF ViewInv

\* An event is handled.
LEMMA HandleView == ViewInv /\ TypeOK' /\ HandleEvent => ViewInv'
<1> SUFFICES ASSUME ViewInv, TypeOK', HandleEvent
             PROVE  ViewInv'
  OBVIOUS
<1>0. TypeOK
  BY DEF ViewInv
<1>1. PICK kind : Handle(kind)
  BY DEF HandleEvent, ConnectionOpened, ConnectionClosed, IndicationTimeout,
         IndicationsOn, Confirmation, IndicationsOff
<1>2. /\ Len(events) \in Nat \ {0}
      /\ Len(events') = Len(events) - 1
      /\ DOMAIN events = 1 .. Len(events)
      /\ DOMAIN events' = 1 .. (Len(events) - 1)
      /\ \A i \in 1 .. (Len(events) - 1) : events'[i] = events[i + 1]
      /\ Head(events) = events[1]
      /\ Head(events) \in Events
      /\ events # << >>
  BY <1>0, <1>1, HandleShape, HandleTyped DEF TypeOK, Handle
<1>3. UNCHANGED <<link, cccd, outstanding>>
  BY <1>1 DEF Handle
<1>4. /\ 1 \in DOMAIN events
      /\ \A i \in DOMAIN events' : i \in Nat /\ i + 1 \in DOMAIN events
                                   /\ events'[i] = events[i + 1]
  BY <1>2
<1>5. \A i \in DOMAIN events' :
        /\ events'[i].kind = "closed" => i = Len(events') /\ link' = 0
        /\ events'[i].kind = "opened" /\ link' # 0 => events'[i].conn = link'
  <2> SUFFICES ASSUME NEW i \in DOMAIN events'
               PROVE  /\ events'[i].kind = "closed" => i = Len(events') /\ link' = 0
                      /\ events'[i].kind = "opened" /\ link' # 0 =>
                           events'[i].conn = link'
    OBVIOUS
  <2>1. /\ i \in Nat /\ i + 1 \in DOMAIN events /\ events'[i] = events[i + 1]
    BY <1>4
  <2>2. events[i + 1].kind = "closed" => i + 1 = Len(events) /\ link = 0
    BY <2>1 DEF ViewInv
  <2>3. i + 1 = Len(events) => i = Len(events')
    BY <1>2, <2>1
  <2> QED
    BY <1>3, <2>1, <2>2, <2>3 DEF ViewInv
<1>6. CASE link = 0 /\ Head(events).kind = "closed"
  <2>1. Len(events) = 1
    BY <1>2, <1>4, <1>6 DEF ViewInv
  <2>2. events' = << >>
    BY <1>2, <2>1, EmptySeq DEF TypeOK
  <2>3. connection' = 0 /\ enabled' = {} /\ advertising'
    BY <1>6 DEF HandleEvent, ConnectionOpened, ConnectionClosed, IndicationTimeout,
                IndicationsOn, Confirmation, IndicationsOff, Handle
  <2> QED
    BY <1>3, <1>5, <1>6, <2>2, <2>3 DEF ViewInv
<1>7. CASE link = 0 /\ Head(events).kind # "closed"
  <2>1. events[Len(events)].kind = "closed" /\ ~advertising
    BY <1>2, <1>7 DEF ViewInv
  <2>2. Len(events) # 1
    BY <1>2, <1>7, <2>1
  <2>3. /\ Len(events') \in DOMAIN events'
        /\ events'[Len(events')] = events[Len(events)]
    BY <1>2, <2>2
  <2>4. events' # << >>
    BY <2>3
  <2>5. ~advertising'
    BY <1>7, <2>1 DEF HandleEvent, ConnectionOpened, ConnectionClosed, IndicationTimeout,
                      IndicationsOn, Confirmation, IndicationsOff, Handle
  <2> QED
    BY <1>3, <1>5, <1>7, <2>1, <2>3, <2>4, <2>5 DEF ViewInv
<1>8. CASE link # 0
  <2>1. Head(events).kind # "closed"
    BY <1>2, <1>4, <1>8 DEF ViewInv
  <2>2. ~advertising'
    BY <1>8, <2>1 DEF HandleEvent, ConnectionOpened, ConnectionClosed, IndicationTimeout,
                      IndicationsOn, Confirmation, IndicationsOff, Handle, ViewInv
  <2>3. connection' = link'
    <3>1. CASE Head(events).kind = "opened"
      <4>1. connection' = Head(events).conn
        BY <3>1 DEF HandleEvent, ConnectionOpened, ConnectionClosed, IndicationTimeout,
                    IndicationsOn, Confirmation, IndicationsOff, Handle
      <4> QED
        BY <1>2, <1>3, <1>4, <1>8, <3>1, <4>1 DEF ViewInv
    <3>2. CASE Head(events).kind # "opened"
      <4>1. connection' = connection
        BY <2>1, <3>2 DEF HandleEvent, ConnectionOpened, ConnectionClosed,
              IndicationTimeout, IndicationsOn, Confirmation, IndicationsOff, Handle,
              appVars
      <4> QED
        BY <1>2, <1>3, <1>8, <3>2, <4>1 DEF ViewInv
    <3> QED
      BY <3>1, <3>2
  <2>4. ASSUME NEW c \in Chars
        PROVE  Agrees(c)'
    <3>1. Agrees(c)
      BY <1>8 DEF ViewInv
    <3>2. Head(events).flags \in Flags
      BY <1>2 DEF Events
    <3>3. /\ Tells(Head(events), c) =>
               (c \in enabled' <=> Head(events).flags = "indication")
          /\ ~Tells(Head(events), c) => (c \in enabled' <=> c \in enabled)
      <4>1. CASE IndicationsOn
        BY <4>1 DEF IndicationsOn, Handle, Tells
      <4>2. CASE IndicationsOff
        BY <4>2 DEF IndicationsOff, Handle, Tells
      <4>3. CASE Confirmation
        BY <4>3 DEF Confirmation, Handle, Tells
      <4>4. CASE ConnectionOpened \/ IndicationTimeout
        BY <4>4 DEF ConnectionOpened, IndicationTimeout, Handle, Tells, appVars
      <4>5. ~ConnectionClosed
        BY <2>1 DEF ConnectionClosed, Handle
      <4> QED
        BY <4>1, <4>2, <4>3, <4>4, <4>5 DEF HandleEvent
    <3> QED
      BY <1>0, <1>1, <3>1, <3>3, HandleAgrees
  <2> QED
    BY <1>3, <1>5, <1>8, <2>2, <2>3, <2>4 DEF ViewInv
<1> QED
  BY <1>6, <1>7, <1>8

\* Every step keeps the view.
LEMMA StepView == ViewInv /\ [Next]_vars => ViewInv'
<1> SUFFICES ASSUME ViewInv, [Next]_vars
             PROVE  ViewInv'
  OBVIOUS
<1>0. TypeOK /\ TypeOK'
  BY StepType DEF ViewInv
<1>1. CASE Connect
  BY <1>0, <1>1, ConnectView
<1>2. CASE Disconnect
  BY <1>0, <1>2, DisconnectView
<1>3. ASSUME NEW c \in Chars, ClientEnables(c)
      PROVE  ViewInv'
  <2> DEFINE e == Event("client_config", link, c, "indication")
  <2>1. /\ e \in Events /\ e.kind = "client_config" /\ e.char = c
        /\ e.flags = "indication"
    BY <1>0, EventTyped DEF Kinds, Flags, TypeOK, Event
  <2>2. /\ link # 0 /\ cccd' = cccd \cup {c} /\ Post(e)
        /\ UNCHANGED <<link, advertising, connection, enabled>>
    BY <1>3 DEF ClientEnables, appVars
  <2> HIDE DEF e
  <2>3. \A d \in Chars : /\ Tells(e, d) => (e.flags = "indication" <=> d \in cccd')
                         /\ ~Tells(e, d) => (d \in cccd' <=> d \in cccd)
    BY <2>1, <2>2 DEF Tells
  <2> QED
    BY <1>0, <2>1, <2>2, <2>3, PostView
<1>4. ASSUME NEW c \in Chars, ClientDisables(c)
      PROVE  ViewInv'
  <2> DEFINE e == Event("client_config", link, c, "disable")
  <2>1. /\ e \in Events /\ e.kind = "client_config" /\ e.char = c
        /\ e.flags = "disable"
    BY <1>0, EventTyped DEF Kinds, Flags, TypeOK, Event
  <2>2. /\ link # 0 /\ cccd' = cccd \ {c} /\ Post(e)
        /\ UNCHANGED <<link, advertising, connection, enabled>>
    BY <1>4 DEF ClientDisables, appVars
  <2> HIDE DEF e
  <2>3. \A d \in Chars : /\ Tells(e, d) => (e.flags = "indication" <=> d \in cccd')
                         /\ ~Tells(e, d) => (d \in cccd' <=> d \in cccd)
    BY <2>1, <2>2 DEF Tells
  <2> QED
    BY <1>0, <2>1, <2>2, <2>3, PostView
<1>5. CASE ClientConfirms
  <2> DEFINE f == IF outstanding.char \in cccd THEN "indication" ELSE "disable"
             e == Event("confirmation", link, outstanding.char, f)
  <2>1. outstanding.char \in Chars \cup {NoChar}
    BY <1>0 DEF TypeOK, Items, NoItem
  <2>2. /\ e \in Events /\ e.kind = "confirmation" /\ e.char = outstanding.char
        /\ e.flags = f
    BY <1>0, <2>1, EventTyped DEF Kinds, Flags, TypeOK, Event
  <2>3. /\ link # 0 /\ cccd' = cccd /\ Post(e)
        /\ UNCHANGED <<link, advertising, connection, enabled>>
    BY <1>5 DEF ClientConfirms, appVars, ViewInv
  <2>4. e.flags = "disable" => e.char \notin cccd
    BY <2>2
  <2> HIDE DEF e, f
  <2>5. \A d \in Chars : /\ Tells(e, d) => (e.flags = "indication" <=> d \in cccd')
                         /\ ~Tells(e, d) => (d \in cccd' <=> d \in cccd)
    BY <2>2, <2>3, <2>4 DEF Tells
  <2> QED
    BY <1>0, <2>2, <2>3, <2>5, PostView
<1>6. CASE IndicationTimesOut
  <2> DEFINE e == Event("timeout", link, NoChar, "disable")
  <2>1. e \in Events /\ e.kind = "timeout"
    BY <1>0, EventTyped DEF Kinds, Flags, TypeOK, Event
  <2>2. /\ link # 0 /\ cccd' = cccd /\ Post(e)
        /\ UNCHANGED <<link, advertising, connection, enabled>>
    BY <1>6 DEF IndicationTimesOut, appVars, ViewInv
  <2> HIDE DEF e
  <2>3. \A d \in Chars : ~Tells(e, d)
    BY <2>1 DEF Tells
  <2> QED
    BY <1>0, <2>1, <2>2, <2>3, PostView
<1>7. ASSUME UNCHANGED <<link, advertising, connection, enabled, events, cccd>>,
             link = 0 => outstanding' = NoItem
      PROVE  ViewInv'
  BY <1>0, <1>7 DEF ViewInv, Agrees, Tells
<1>8. ASSUME NEW item, Send(item)
      PROVE  link = 0 => outstanding' = NoItem
  BY <1>8 DEF Send, SendStatus, ViewInv
<1>9. ASSUME NEW c \in Chars, SendValue(c)
      PROVE  ViewInv'
  <2>1. link = 0 => outstanding' = NoItem
    BY <1>8, <1>9 DEF SendValue, ViewInv
  <2> QED
    BY <1>7, <1>9, <2>1 DEF SendValue
<1>10. CASE SoftTimer
  BY <1>7, <1>8, <1>10 DEF SoftTimer
<1>11. CASE HandleEvent
  BY <1>0, <1>11, HandleView
<1>12. CASE UNCHANGED vars
  BY <1>7, <1>12 DEF vars, appVars, stackVars, ViewInv
<1> QED
  BY <1>1, <1>2, <1>3, <1>4, <1>5, <1>6, <1>9, <1>10, <1>11, <1>12 DEF Next

\* Once every posted event is handled, the connection, the indication flags
\* and the advertiser agree with the stack, whatever opened, closed and was
\* configured meanwhile, and however often (ble.c:386-413, 428-475, 592-647).
THEOREM ViewIsRight == Spec => []ViewCatchesUp
<1>1. ViewInv => ViewCatchesUp
  <2> SUFFICES ASSUME ViewInv, events = << >>
               PROVE  /\ connection = link /\ enabled = cccd
                      /\ advertising <=> link = 0
    BY DEF ViewCatchesUp
  <2>1. CASE link = 0
    BY <2>1 DEF ViewInv
  <2>2. CASE link # 0
    <3>1. connection = link /\ ~advertising
      BY <2>2 DEF ViewInv
    <3>2. \A c \in Chars : c \in enabled <=> c \in cccd
      BY <2>2 DEF ViewInv, Agrees
    <3>3. enabled \subseteq Chars /\ cccd \subseteq Chars
      BY DEF ViewInv, TypeOK
    <3> QED
      BY <2>2, <3>1, <3>2, <3>3
  <2> QED
    BY <2>1, <2>2
<1>2. QED BY <1>1, InitView, StepView, PTL DEF Spec
-----------------------------------------------------------------------------
(* Why few values reach a later link: what waits in the queue from before  *)
(* is no more than it held when a link was closed, and a value that was    *)
(* sent waits no more.                                                     *)

\* Indications sent over another link than they were meant for, and those that
\* may still be.
Old == {i \in DOMAIN sent : sent[i].item.conn # sent[i].link}
Waiting == {queue[i] : i \in {j \in DOMAIN queue : queue[j].conn # connection}}

\* The links the application saw opened and closed.
Ended == IF connection # 0 \/ (events # << >> /\ events[1].kind = "opened")
         THEN conns - 1 ELSE conns

\* A link is opened when the application has forgotten the one before.
OpeningInv ==
  /\ connection \in {0, conns}
  /\ \A i \in DOMAIN queue : queue[i].conn \in 1 .. conns
  /\ \A i \in DOMAIN events :
       events[i].kind = "opened" =>
         /\ i = 1 /\ events[i].conn = conns /\ connection = 0 /\ conns # 0
         /\ \A j \in DOMAIN queue : queue[j].conn # conns

LeftInv ==
  /\ OpeningInv
  /\ LeftoversFitTheQueue
  /\ Cardinality(Old) + Cardinality(Waiting) <= SIZE * Ended

\* The values that wait are no more than those queued, for a queue of any
\* length and any connection.
LEMMA FewWait ==
  ASSUME NEW S, NEW q \in Seq(S), NEW c
  PROVE  LET W == {q[i] : i \in {j \in DOMAIN q : q[j].conn # c}}
         IN  IsFiniteSet(W) /\ Cardinality(W) \in Nat /\ Cardinality(W) <= Len(q)
<1> DEFINE T == {q[i] : i \in 1 .. Len(q)}
           W == {q[i] : i \in {j \in DOMAIN q : q[j].conn # c}}
           f == [i \in 1 .. Len(q) |-> q[i]]
<1>1. Len(q) \in Nat /\ DOMAIN q = 1 .. Len(q)
  OBVIOUS
<1>2. IsFiniteSet(1 .. Len(q)) /\ Cardinality(1 .. Len(q)) = Len(q)
  <2> DEFINE n == Len(q)
  <2>1. n \in Nat
    BY <1>1
  <2> HIDE DEF n
  <2>2. IsFiniteSet(1 .. n) /\ Cardinality(1 .. n) = IF 1 > n THEN 0 ELSE n - 1 + 1
    BY <2>1, FS_Interval
  <2>3. Cardinality(1 .. n) = n
    BY <2>1, <2>2
  <2> QED
    BY <2>2, <2>3 DEF n
<1>3. f \in Surjection(1 .. Len(q), T)
  BY DEF Surjection
<1>4. W \in SUBSET T
  BY <1>1
<1> HIDE DEF f, T, W
<1>5. IsFiniteSet(T) /\ Cardinality(T) <= Len(q)
  <2>1. IsFiniteSet(T) /\ Cardinality(T) <= Cardinality(1 .. Len(q))
    BY ONLY <1>2, <1>3, FS_Surjection
  <2> QED
    BY <1>2, <2>1
<1>6. IsFiniteSet(W) /\ Cardinality(W) <= Cardinality(T)
  BY <1>5, <1>4, FS_Subset
<1>7. Cardinality(W) \in Nat /\ Cardinality(T) \in Nat
  BY <1>5, <1>6, FS_CardinalityType
<1> QED
  BY <1>1, <1>5, <1>6, <1>7 DEF W

\* The sets that are counted.
LEMMA CountsTyped ==
  ASSUME TypeOK
  PROVE  /\ IsFiniteSet(Old) /\ Cardinality(Old) \in Nat
         /\ IsFiniteSet(Waiting) /\ Cardinality(Waiting) \in Nat
         /\ Cardinality(Waiting) <= SIZE
<1>1. queue \in Seq(Items) /\ Len(queue) <= SIZE /\ Len(queue) \in Nat
  BY DEF TypeOK
<1>2. IsFiniteSet(Waiting) /\ Cardinality(Waiting) \in Nat /\ Cardinality(Waiting) <= Len(queue)
  BY <1>1, FewWait DEF Waiting
<1>3. Len(sent) \in Nat /\ DOMAIN sent = 1 .. Len(sent)
  BY DEF TypeOK
<1>4. IsFiniteSet(1 .. Len(sent))
  BY <1>3, FS_Interval
<1>5. Old \in SUBSET (1 .. Len(sent))
  BY <1>3 DEF Old
<1>6. IsFiniteSet(Old)
  BY <1>4, <1>5, FS_Subset
<1>7. Cardinality(Old) \in Nat
  BY <1>6, FS_CardinalityType
<1> QED
  BY <1>1, <1>2, <1>6, <1>7, SizeAssumption

\* What a send does to the history: an old value is one more.
LEMMA SendCounts ==
  ASSUME TypeOK, NEW item \in Items, Send(item)
  PROVE  \/ Cardinality(Old') = Cardinality(Old)
         \/ /\ Cardinality(Old') = Cardinality(Old) + 1
            /\ item.conn # connection
<1>1. CASE sent' = sent
  BY <1>1 DEF Old
<1>2. CASE sent' = Append(sent, Log(item)) /\ connection = link
  <2>1. /\ Len(sent) \in Nat /\ DOMAIN sent = 1 .. Len(sent)
        /\ DOMAIN sent' = 1 .. (Len(sent) + 1)
        /\ \A i \in 1 .. Len(sent) : sent'[i] = sent[i]
        /\ sent'[Len(sent) + 1].item = item
    BY <1>2, SentShape
  <2>2. sent'[Len(sent) + 1].link = link
    BY <1>2, AppendIndexed DEF TypeOK, Log
  <2> DEFINE n == Len(sent) + 1
  <2>3. n \notin Old
    BY <2>1 DEF Old
  <2>4. Old' = IF item.conn # link THEN Old \cup {n} ELSE Old
    BY <2>1, <2>2 DEF Old
  <2> HIDE DEF n
  <2>5. IsFiniteSet(Old)
    BY CountsTyped
  <2>6. Cardinality(Old \cup {n}) = Cardinality(Old) + 1
    BY <2>3, <2>5, FS_AddElement
  <2> QED
    BY <1>2, <2>4, <2>6
<1> QED
  BY <1>1, <1>2 DEF Send, SendStatus

\* The oldest queued value waits no more.
LEMMA TailCounts ==
  ASSUME TypeOK, ValuesInv, queue # << >>, queue' = Tail(queue), connection' = connection
  PROVE  Cardinality(Waiting') =
           IF Head(queue).conn # connection THEN Cardinality(Waiting) - 1
           ELSE Cardinality(Waiting)
<1> DEFINE item == Head(queue)
<1>1. queue \in Seq(Items)
  BY DEF TypeOK
<1>2. /\ Len(queue) \in Nat \ {0}
      /\ DOMAIN queue = 1 .. Len(queue)
      /\ DOMAIN queue' = 1 .. (Len(queue) - 1)
      /\ \A i \in 1 .. (Len(queue) - 1) : queue'[i] = queue[i + 1]
      /\ item = queue[1]
  BY <1>1, TailIndexed
<1>3. 1 \in DOMAIN queue
  BY <1>2
<1>4. \A j \in DOMAIN queue' : /\ j + 1 \in DOMAIN queue /\ j + 1 # 1
                               /\ queue'[j] = queue[j + 1]
  BY <1>2
<1>5. \A k \in DOMAIN queue : k # 1 => /\ k - 1 \in DOMAIN queue'
                                       /\ queue'[k - 1] = queue[k]
  <2> SUFFICES ASSUME NEW k \in DOMAIN queue, k # 1
               PROVE  k - 1 \in DOMAIN queue' /\ queue'[k - 1] = queue[k]
    OBVIOUS
  <2>1. k - 1 \in 1 .. (Len(queue) - 1) /\ (k - 1) + 1 = k
    BY <1>2
  <2> QED
    BY <1>2, <2>1
<1>6. \A k \in DOMAIN queue : k # 1 => queue[k] # item
  BY <1>2, <1>3 DEF ValuesInv
<1> HIDE DEF item
<1>7. Waiting' = Waiting \ {item}
  <2>1. ASSUME NEW x \in Waiting'
        PROVE  x \in Waiting \ {item}
    <3>1. PICK j \in DOMAIN queue' : x = queue'[j] /\ queue'[j].conn # connection
      BY <2>1 DEF Waiting
    <3>2. x = queue[j + 1] /\ j + 1 \in DOMAIN queue /\ x # item
      BY <1>4, <1>6, <3>1
    <3> QED
      BY <3>1, <3>2 DEF Waiting
  <2>2. ASSUME NEW x \in Waiting, x # item
        PROVE  x \in Waiting'
    <3>1. PICK k \in DOMAIN queue : x = queue[k] /\ queue[k].conn # connection
      BY <2>2 DEF Waiting
    <3>2. k - 1 \in DOMAIN queue' /\ queue'[k - 1] = x
      BY <1>2, <1>5, <2>2, <3>1
    <3> QED
      BY <3>1, <3>2 DEF Waiting
  <2> QED
    BY <2>1, <2>2
<1>8. item \in Waiting <=> item.conn # connection
  BY <1>2, <1>3 DEF Waiting
<1>9. IsFiniteSet(Waiting)
  BY CountsTyped
<1>10. Cardinality(Waiting \ {item}) =
         IF item \in Waiting THEN Cardinality(Waiting) - 1 ELSE Cardinality(Waiting)
  BY <1>9, FS_RemoveElement
<1> QED
  BY <1>7, <1>8, <1>10 DEF item

\* What neither sends nor queues, and opens and closes no link, changes none of
\* that.
LEMMA KeptLeft ==
  ASSUME LeftInv, UNCHANGED <<connection, queue, sent, conns>>, Ended' = Ended,
         \A i \in DOMAIN events' :
           events'[i].kind = "opened" => i \in DOMAIN events /\ events'[i] = events[i]
  PROVE  LeftInv'
<1>1. OpeningInv'
  BY DEF LeftInv, OpeningInv
<1>2. Old' = Old /\ Waiting' = Waiting /\ LeftoversFitTheQueue'
  BY DEF Old, Waiting, LeftInv, LeftoversFitTheQueue
<1> QED
  BY <1>1, <1>2 DEF LeftInv

\* Such is what is posted, but for an opening.
LEMMA PostLeft ==
  ASSUME TypeOK, LeftInv, NEW e \in Events, Post(e), e.kind # "opened",
         UNCHANGED <<connection, queue, sent, conns>>
  PROVE  LeftInv'
<1>1. /\ Len(events) \in Nat /\ DOMAIN events = 1 .. Len(events)
      /\ DOMAIN events' = 1 .. (Len(events) + 1)
      /\ \A i \in 1 .. Len(events) : events'[i] = events[i]
      /\ events'[Len(events) + 1] = e
  BY PostShape, PostTyped DEF TypeOK
<1>2. \A i \in DOMAIN events' :
        events'[i].kind = "opened" => i \in DOMAIN events /\ events'[i] = events[i]
  BY <1>1
<1>3. (events' # << >> /\ events'[1].kind = "opened")
        <=> (events # << >> /\ events[1].kind = "opened")
  <2>1. 1 \in DOMAIN events' /\ events' # << >>
    BY <1>1
  <2>2. events # << >> => 1 \in DOMAIN events
    BY <1>1, EmptySeq DEF TypeOK
  <2>3. 1 \in DOMAIN events => events # << >> /\ events'[1] = events[1]
    BY <1>1
  <2> QED
    BY <1>2, <2>1, <2>2, <2>3
<1>4. Ended' = Ended
  BY <1>3 DEF Ended
<1> QED
  BY <1>2, <1>4, KeptLeft

\* A new link is opened when nothing is posted and none is known.
LEMMA ConnectLeft == ViewInv /\ LeftInv /\ Connect => LeftInv'
<1> SUFFICES ASSUME ViewInv, LeftInv, Connect
             PROVE  LeftInv'
  OBVIOUS
<1> DEFINE e == Event("opened", conns + 1, NoChar, "disable")
<1>1. /\ advertising /\ conns' = conns + 1 /\ events' = Append(events, e)
      /\ UNCHANGED <<connection, queue, sent>>
      /\ conns \in Nat /\ TypeOK
  BY BoundAssumption DEF Connect, Post, ViewInv, TypeOK, appVars
<1>2. events = << >> /\ connection = 0
  BY <1>1 DEF ViewInv
<1>3. e.kind = "opened" /\ e.conn = conns + 1
  BY DEF Event
<1> HIDE DEF e
<1>4. events' = <<e>>
  BY <1>1, <1>2
<1>5. DOMAIN events' = {1} /\ events'[1] = e /\ events' # << >>
  BY <1>4
<1>6. OpeningInv'
  <2>1. \A i \in DOMAIN queue : queue[i].conn \in 1 .. conns
    BY DEF LeftInv, OpeningInv
  <2>2. \A x \in 1 .. conns : x \in 1 .. (conns + 1) /\ x # conns + 1
    BY <1>1
  <2>3. conns + 1 # 0
    BY <1>1
  <2> QED
    BY <1>1, <1>2, <1>3, <1>5, <2>1, <2>2, <2>3 DEF OpeningInv
<1>7. Ended = conns /\ Ended' = conns
  BY <1>1, <1>2, <1>3, <1>5 DEF Ended
<1>8. Old' = Old /\ Waiting' = Waiting
  BY <1>1 DEF Old, Waiting
<1>9. /\ Cardinality(Old) \in Nat /\ Cardinality(Waiting) \in Nat
      /\ Cardinality(Old) + Cardinality(Waiting) <= SIZE * conns
  BY <1>1, <1>7, CountsTyped DEF LeftInv
<1>10. LeftoversFitTheQueue'
  <2> DEFINE o == Cardinality(Old)
             w == Cardinality(Waiting)
  <2>1. conns' # 0 /\ conns' - 1 = conns /\ o' = o
    BY <1>1, <1>8
  <2> HIDE DEF o, w
  <2>2. o <= SIZE * conns
    <3> DEFINE m == SIZE * conns
    <3>1. m \in Nat
      BY <1>1, SizeAssumption
    <3>2. o \in Nat /\ w \in Nat /\ o + w <= m
      BY <1>9 DEF o, w
    <3> HIDE DEF m
    <3>3. o <= m
      BY <3>1, <3>2
    <3> QED
      BY <3>3 DEF m
  <2>3. o' <= SIZE * (IF conns' = 0 THEN 0 ELSE conns' - 1)
    BY <2>1, <2>2
  <2> QED
    BY <2>3 DEF LeftoversFitTheQueue, o, Old
<1> QED
  BY <1>6, <1>7, <1>8, <1>10 DEF LeftInv

\* A link is known or forgotten: what waits from then on was meant for it.
LEMMA HandleLeft ==
  ViewInv /\ LeftInv /\ TypeOK' /\ HandleEvent => LeftInv'
<1> SUFFICES ASSUME ViewInv, LeftInv, TypeOK', HandleEvent
             PROVE  LeftInv'
  OBVIOUS
<1>0. TypeOK
  BY DEF ViewInv
<1>1. PICK kind : Handle(kind)
  BY DEF HandleEvent, ConnectionOpened, ConnectionClosed, IndicationTimeout,
         IndicationsOn, Confirmation, IndicationsOff
<1>2. /\ Len(events) \in Nat \ {0}
      /\ DOMAIN events = 1 .. Len(events)
      /\ DOMAIN events' = 1 .. (Len(events) - 1)
      /\ \A i \in 1 .. (Len(events) - 1) : events'[i] = events[i + 1]
      /\ Head(events) = events[1]
      /\ events # << >>
  BY <1>0, <1>1, HandleShape, HandleTyped DEF TypeOK, Handle
<1>3. /\ 1 \in DOMAIN events
      /\ \A i \in DOMAIN events' : /\ i + 1 \in DOMAIN events /\ i + 1 # 1
                                   /\ events'[i] = events[i + 1]
  BY <1>2
<1>4. \A i \in DOMAIN events' : events'[i].kind # "opened"
  BY <1>3 DEF LeftInv, OpeningInv
<1>5. ~(events' # << >> /\ events'[1].kind = "opened")
  <2>1. events' # << >> => 1 \in DOMAIN events'
    BY EmptySeq DEF TypeOK
  <2> QED
    BY <1>4, <2>1
<1>6. UNCHANGED <<queue, sent, conns>> /\ conns \in Nat
  BY <1>0, BoundAssumption DEF HandleEvent, ConnectionOpened, ConnectionClosed,
     IndicationTimeout, IndicationsOn, Confirmation, IndicationsOff, Handle, appVars, TypeOK
<1>7. CASE ConnectionOpened
  <2>1. Head(events).kind = "opened" /\ connection' = Head(events).conn
    BY <1>7 DEF ConnectionOpened, Handle
  <2>2. /\ connection = 0 /\ connection' = conns /\ conns # 0
        /\ \A j \in DOMAIN queue : queue[j].conn # conns /\ queue[j].conn \in 1 .. conns
    BY <1>2, <1>3, <2>1 DEF LeftInv, OpeningInv
  <2>3. Ended = conns - 1 /\ Ended' = conns - 1
    BY <1>2, <1>6, <2>1, <2>2 DEF Ended
  <2>4. \A j \in DOMAIN queue : queue[j].conn # 0
    BY <1>6, <2>2
  <2>5. Old' = Old /\ Waiting' = Waiting
    BY <1>6, <2>2, <2>4 DEF Old, Waiting
  <2>6. OpeningInv'
    BY <1>4, <1>6, <2>2 DEF OpeningInv
  <2>7. LeftoversFitTheQueue'
    BY <1>6 DEF LeftInv, LeftoversFitTheQueue
  <2> QED
    BY <2>3, <2>5, <2>6, <2>7 DEF LeftInv
<1>8. CASE ConnectionClosed
  <2>1. Head(events).kind = "closed" /\ connection' = 0
    BY <1>8 DEF ConnectionClosed, Handle
  <2>2. Ended = (IF connection # 0 THEN conns - 1 ELSE conns) /\ Ended' = conns
    BY <1>2, <1>5, <1>6, <2>1 DEF Ended
  <2>3. Old' = Old
    BY <1>6 DEF Old
  <2>4. OpeningInv'
    BY <1>4, <1>6, <2>1 DEF LeftInv, OpeningInv
  <2>5. LeftoversFitTheQueue'
    BY <1>6 DEF LeftInv, LeftoversFitTheQueue
  <2>6. CASE connection = 0
    <3>1. Waiting' = Waiting
      BY <1>6, <2>1, <2>6 DEF Waiting
    <3> QED
      BY <2>2, <2>3, <2>4, <2>5, <2>6, <3>1 DEF LeftInv
  <2>7. CASE connection # 0
    <3> DEFINE o == Cardinality(Old)
               w == Cardinality(Waiting')
               n == conns
    <3>1. n = connection
      BY <2>7 DEF LeftInv, OpeningInv
    <3>2. n \in Nat \ {0} /\ o \in Nat /\ w \in Nat /\ w <= SIZE
      <4>1. Cardinality(Waiting') \in Nat /\ Cardinality(Waiting') <= SIZE
        <5>1. queue' \in Seq(Items) /\ Len(queue') <= SIZE /\ Len(queue') \in Nat
          BY DEF TypeOK
        <5>2. Cardinality(Waiting') \in Nat /\ Cardinality(Waiting') <= Len(queue')
          BY <5>1, FewWait DEF Waiting
        <5> QED
          BY <5>1, <5>2, SizeAssumption
      <4> QED
        BY <1>0, <1>6, <2>7, <3>1, <4>1, CountsTyped
    <3>3. o <= SIZE * (n - 1)
      BY <3>2 DEF LeftInv, LeftoversFitTheQueue, Old
    <3>4. Cardinality(Old') = o /\ Ended' = n
      BY <2>2, <2>3
    <3> HIDE DEF o, w, n
    <3>5. o + w <= SIZE * n
      <4>1. SIZE * n = SIZE * (n - 1) + SIZE
        BY <3>2, SizeAssumption
      <4> DEFINE a == SIZE * (n - 1)
      <4>2. a \in Int
        BY <3>2, SizeAssumption
      <4>3. o <= a /\ SIZE * n = a + SIZE
        BY <3>3, <4>1
      <4> HIDE DEF a
      <4>4. o + w <= a + SIZE
        BY <3>2, <4>2, <4>3, SizeAssumption
      <4> QED
        BY <4>3, <4>4
    <3> QED
      BY <2>4, <2>5, <3>4, <3>5 DEF LeftInv, w
  <2> QED
    BY <2>6, <2>7
<1>9. CASE ~ConnectionOpened /\ ~ConnectionClosed
  <2>1. connection' = connection /\ Head(events).kind \notin {"opened", "closed"}
    BY <1>9 DEF HandleEvent, IndicationTimeout, IndicationsOn, Confirmation,
                IndicationsOff, Handle, appVars
  <2>2. Ended' = Ended
    BY <1>2, <1>5, <1>6, <2>1 DEF Ended
  <2> QED
    BY <1>4, <1>6, <2>1, <2>2, KeptLeft
<1> QED
  BY <1>7, <1>8, <1>9

\* A value that is sent is no longer one that waits, and a new one is meant for
\* the link that is known.
LEMMA SendLeft ==
  ASSUME ViewInv, ValuesInv, LeftInv, TypeOK',
         SoftTimer \/ \E c \in Chars : SendValue(c)
  PROVE  LeftInv'
<1>0. TypeOK
  BY DEF ViewInv
<1>1. UNCHANGED <<connection, events, conns>>
  BY DEF SoftTimer, SendValue
<1>2. /\ Cardinality(Old) \in Nat /\ Cardinality(Waiting) \in Nat /\ conns \in Nat
      /\ connection \in {0, conns}
  BY <1>0, CountsTyped, BoundAssumption DEF TypeOK, LeftInv, OpeningInv
<1>3. Ended' = Ended /\ Ended \in Int
  BY <1>1, <1>2 DEF Ended
<1>4. Cardinality(Old) + Cardinality(Waiting) <= SIZE * Ended
  BY DEF LeftInv
<1>5. ASSUME OpeningInv', NEW o \in Nat, NEW w \in Nat,
             Cardinality(Old') = o, Cardinality(Waiting') = w,
             o + w <= Cardinality(Old) + Cardinality(Waiting),
             o = Cardinality(Old) \/ connection # 0
      PROVE  LeftInv'
  <2> DEFINE a == Cardinality(Old)
             b == Cardinality(Waiting)
             m == SIZE * Ended
  <2>1. a \in Nat /\ b \in Nat /\ a + b <= m /\ o + w <= a + b /\ m \in Int
    BY <1>2, <1>3, <1>4, <1>5, SizeAssumption
  <2>2. Ended' = Ended /\ m = SIZE * Ended
    BY <1>3
  <2> HIDE DEF a, b, m
  <2>3. o + w <= m /\ o <= m
    BY <2>1
  <2>4. o <= SIZE * (IF conns = 0 THEN 0 ELSE conns - 1)
    <3>1. CASE o = Cardinality(Old)
      BY <3>1 DEF LeftInv, LeftoversFitTheQueue, Old
    <3>2. CASE connection # 0
      <4>1. Ended = conns - 1 /\ conns # 0
        BY <1>2, <3>2 DEF Ended
      <4> QED
        BY <2>2, <2>3, <4>1
    <3> QED
      BY <1>5, <3>1, <3>2
  <2>5. LeftoversFitTheQueue'
    BY <1>1, <1>5, <2>4 DEF LeftoversFitTheQueue, Old
  <2>6. Cardinality(Old') + Cardinality(Waiting') <= SIZE * Ended'
    BY <1>5, <2>2, <2>3
  <2> QED
    BY <1>5, <2>5, <2>6 DEF LeftInv
<1>6. CASE SoftTimer
  <2> DEFINE item == Head(queue)
  <2>1. queue # << >> /\ queue' = Tail(queue) /\ Send(item)
    BY <1>6 DEF SoftTimer
  <2>2. /\ queue \in Seq(Items) /\ item \in Items
        /\ Len(queue) \in Nat \ {0}
        /\ DOMAIN queue = 1 .. Len(queue)
        /\ DOMAIN queue' = 1 .. (Len(queue) - 1)
        /\ \A i \in 1 .. (Len(queue) - 1) : queue'[i] = queue[i + 1]
    BY <1>0, <2>1, TailIndexed DEF TypeOK
  <2>3. \A j \in DOMAIN queue' : j + 1 \in DOMAIN queue /\ queue'[j] = queue[j + 1]
    BY <2>2
  <2>4. OpeningInv'
    BY <1>1, <2>3 DEF LeftInv, OpeningInv
  <2>5. /\ Cardinality(Waiting') =
             IF item.conn # connection THEN Cardinality(Waiting) - 1
             ELSE Cardinality(Waiting)
    BY <1>0, <1>1, <2>1, TailCounts
  <2>6. \/ Cardinality(Old') = Cardinality(Old)
        \/ /\ Cardinality(Old') = Cardinality(Old) + 1 /\ item.conn # connection
    BY <1>0, <2>1, <2>2, SendCounts
  <2>7. connection = 0 => Cardinality(Old') = Cardinality(Old)
    <3>1. connection = 0 => sent' = sent
      BY <2>1 DEF Send, SendStatus
    <3> QED
      BY <3>1 DEF Old
  <2>8. Cardinality(Waiting') \in Nat
    BY <1>1, FewWait DEF TypeOK, Waiting
  <2> DEFINE a == Cardinality(Old)
             b == Cardinality(Waiting)
             o == Cardinality(Old')
             w == Cardinality(Waiting')
             d == item.conn # connection
  <2>9. /\ a \in Nat /\ b \in Nat /\ w \in Nat
        /\ w = IF d THEN b - 1 ELSE b
        /\ o = a \/ (o = a + 1 /\ d)
    BY <1>2, <2>5, <2>6, <2>8
  <2> HIDE DEF a, b, o, w, d
  <2>10. o \in Nat /\ o + w <= a + b
    <3>1. CASE d
      BY <2>9, <3>1
    <3>2. CASE ~d
      BY <2>9, <3>2
    <3> QED
      BY <3>1, <3>2
  <2> QED
    BY <1>5, <2>4, <2>7, <2>9, <2>10 DEF a, b, o, w
<1>7. ASSUME NEW c \in Chars, SendValue(c)
      PROVE  LeftInv'
  <2> DEFINE item == Item(c)
  <2>1. item \in Items /\ item.conn = connection
    BY <1>0, <1>7 DEF SendValue, Item, Items, TypeOK
  <2>2. CASE Send(item) /\ queue' = queue
    <3>1. Cardinality(Old') = Cardinality(Old)
      <4> HIDE DEF item
      <4> QED
        BY <1>0, <2>1, <2>2, SendCounts
    <3>2. Waiting' = Waiting /\ OpeningInv'
      BY <1>1, <2>2 DEF Waiting, LeftInv, OpeningInv
    <3> QED
      BY <1>2, <1>5, <3>1, <3>2
  <2>3. CASE queue' = Append(queue, item) /\ sent' = sent /\ connection # 0
    <3>1. /\ Len(queue) \in Nat /\ DOMAIN queue = 1 .. Len(queue)
          /\ DOMAIN queue' = 1 .. (Len(queue) + 1)
          /\ \A i \in 1 .. Len(queue) : queue'[i] = queue[i]
          /\ queue'[Len(queue) + 1] = item
      <4>1. queue \in Seq(Items)
        BY <1>0 DEF TypeOK
      <4> HIDE DEF item
      <4>2. /\ Append(queue, item) \in Seq(Items)
            /\ Len(queue) \in Nat
            /\ Len(Append(queue, item)) = Len(queue) + 1
            /\ \A i \in 1 .. Len(queue) : Append(queue, item)[i] = queue[i]
            /\ Append(queue, item)[Len(queue) + 1] = item
        BY <2>1, <4>1, AppendIndexed
      <4> QED
        BY <2>3, <4>1, <4>2
    <3>2. /\ \A i \in DOMAIN queue : i \in DOMAIN queue' /\ queue'[i] = queue[i]
          /\ \A i \in DOMAIN queue' :
               \/ i \in DOMAIN queue /\ queue'[i] = queue[i]
               \/ queue'[i].conn = connection
      BY <2>1, <3>1
    <3>3. Waiting' = Waiting
      <4>1. ASSUME NEW x \in Waiting'
            PROVE  x \in Waiting
        BY <1>1, <3>2, <4>1 DEF Waiting
      <4>2. ASSUME NEW x \in Waiting
            PROVE  x \in Waiting'
        BY <1>1, <3>2, <4>2 DEF Waiting
      <4> QED
        BY <4>1, <4>2
    <3>4. OpeningInv'
      <4>1. connection = conns /\ conns \in 1 .. conns
        BY <1>2, <2>3
      <4>2. \A i \in DOMAIN queue' : queue'[i].conn \in 1 .. conns
        BY <3>2, <4>1 DEF LeftInv, OpeningInv
      <4>3. \A i \in DOMAIN events : events[i].kind # "opened"
        BY <2>3 DEF LeftInv, OpeningInv
      <4> QED
        BY <1>1, <1>2, <4>2, <4>3 DEF OpeningInv
    <3>5. Old' = Old
      BY <2>3 DEF Old
    <3> QED
      BY <1>2, <1>5, <3>3, <3>4, <3>5
  <2>4. CASE UNCHANGED <<queue, sent>>
    <3>1. Old' = Old /\ Waiting' = Waiting /\ OpeningInv'
      BY <1>1, <2>4 DEF Old, Waiting, LeftInv, OpeningInv
    <3> QED
      BY <1>2, <1>5, <3>1
  <2>5. MustQueue(c) => connection # 0
    BY DEF MustQueue
  <2> QED
    BY <1>7, <2>2, <2>3, <2>4, <2>5 DEF SendValue
<1> QED
  BY <1>6, <1>7

\* Nothing waits at first.
LEMMA InitLeft == Init => LeftInv
<1> SUFFICES ASSUME Init
             PROVE  LeftInv
  OBVIOUS
<1>1. /\ sent = << >> /\ queue = << >> /\ events = << >> /\ conns = 0 /\ connection = 0
      /\ DOMAIN sent = {} /\ DOMAIN queue = {} /\ DOMAIN events = {}
  BY DEF Init
<1>2. Old = {} /\ Waiting = {} /\ Ended = 0
  BY <1>1 DEF Old, Waiting, Ended
<1>3. Cardinality(Old) = 0 /\ Cardinality(Waiting) = 0 /\ SIZE * 0 = 0
  BY <1>2, FS_EmptySet, SizeAssumption
<1>4. LeftoversFitTheQueue
  BY <1>1, <1>3 DEF LeftoversFitTheQueue, Old
<1>5. OpeningInv
  BY <1>1 DEF OpeningInv
<1> QED
  BY <1>2, <1>3, <1>4, <1>5 DEF LeftInv

\* Every step keeps the count.
LEMMA StepLeft == ViewInv /\ ValuesInv /\ LeftInv /\ [Next]_vars => LeftInv'
<1> SUFFICES ASSUME ViewInv, ValuesInv, LeftInv, [Next]_vars
             PROVE  LeftInv'
  OBVIOUS
<1>0. TypeOK /\ TypeOK'
  BY StepType DEF ViewInv
<1>1. CASE Connect
  BY <1>1, ConnectLeft
<1>2. ASSUME NEW kind \in Kinds \ {"opened"}, NEW c \in Chars \cup {NoChar},
             NEW f \in Flags, kind = "client_config" => c \in Chars,
             Post(Event(kind, link, c, f)),
             UNCHANGED <<connection, queue, sent, conns>>
      PROVE  LeftInv'
  <2> DEFINE e == Event(kind, link, c, f)
  <2>1. e \in Events /\ e.kind # "opened"
    BY <1>0, <1>2, EventTyped DEF TypeOK, Event
  <2>2. Post(e)
    BY <1>2
  <2> HIDE DEF e
  <2> QED
    BY <1>0, <1>2, <2>1, <2>2, PostLeft
<1>3. CASE Disconnect
  BY <1>2, <1>3 DEF Disconnect, Kinds, Flags, appVars
<1>4. ASSUME NEW c \in Chars, ClientEnables(c) \/ ClientDisables(c)
      PROVE  LeftInv'
  BY <1>2, <1>4 DEF ClientEnables, ClientDisables, Kinds, Flags, appVars
<1>5. CASE ClientConfirms
  <2> DEFINE f == IF outstanding.char \in cccd THEN "indication" ELSE "disable"
  <2>1. f \in Flags
    BY DEF Flags
  <2>2. outstanding.char \in Chars \cup {NoChar}
    BY <1>0 DEF TypeOK, Items, NoItem
  <2>3. Post(Event("confirmation", link, outstanding.char, f))
    BY <1>5 DEF ClientConfirms
  <2>4. UNCHANGED <<connection, queue, sent, conns>>
    BY <1>5 DEF ClientConfirms, appVars
  <2> HIDE DEF f
  <2> QED
    BY <1>2, <2>1, <2>2, <2>3, <2>4 DEF Kinds
<1>6. CASE IndicationTimesOut
  BY <1>2, <1>6 DEF IndicationTimesOut, Kinds, Flags, appVars
<1>7. CASE SoftTimer \/ \E c \in Chars : SendValue(c)
  BY <1>0, <1>7, SendLeft
<1>8. CASE HandleEvent
  BY <1>0, <1>8, HandleLeft
<1>9. CASE UNCHANGED vars
  <2>1. UNCHANGED <<connection, queue, sent, conns, events>>
    BY <1>9 DEF vars, appVars, stackVars
  <2>2. Ended' = Ended
    BY <2>1 DEF Ended
  <2> QED
    BY <2>1, <2>2, KeptLeft
<1> QED
  BY <1>1, <1>3, <1>4, <1>5, <1>6, <1>7, <1>8, <1>9 DEF Next

\* The values a client receives of an earlier link are never more than the
\* queue holds for each link that was closed, for every size of it, however
\* often links come and go and sends fail (ble.c:437-445, 521-538, 941-956).
THEOREM LeftoversFit == Spec => []LeftoversFitTheQueue
<1>1. LeftInv => LeftoversFitTheQueue
  BY DEF LeftInv
<1>2. QED BY <1>1, InitView, StepView, InitValues, StepValues, InitLeft, StepLeft,
             PTL DEF Spec
-----------------------------------------------------------------------------
(* Why the flag does not stay up while the client leaves its subscriptions *)
(* alone and confirms in time: the indication that is awaited belongs to a *)
(* characteristic that is still enabled, so that its confirmation carries  *)
(* "indication" and takes the flag down.                                   *)

AwaitedIsEnabled == outstanding # NoItem => outstanding.char \in cccd

ConfirmedAsOn ==
  \A i \in DOMAIN events :
    events[i].kind = "confirmation" => events[i].flags = "indication"

CalmInv ==
  TypeOK /\ (calm => AwaitedIsEnabled /\ ConfirmedAsOn /\ InFlightMeansPending)

\* A calm step is one that the code's own next-state relation allows, and not
\* one in which the client disables anything or is late.
LEMMA CalmSteps ==
  ASSUME TypeOK, MaxValues >= 3, Calm!Next
  PROVE  \/ Connect \/ Disconnect \/ ClientConfirms \/ SoftTimer \/ HandleEvent
         \/ \E c \in Chars : ClientEnables(c) \/ SendValue(c)
<1>1. CASE Calm!Connect
  BY <1>1 DEF Calm!Connect, Connect, Calm!Post, Post, Calm!Event, Event,
     Calm!appVars, appVars
<1>2. CASE Calm!Disconnect
  BY <1>2 DEF Calm!Disconnect, Disconnect, Calm!Post, Post, Calm!Event, Event,
     Calm!appVars, appVars, Calm!NoItem, NoItem
<1>3. ASSUME NEW c \in Chars, Calm!ClientEnables(c) PROVE ClientEnables(c)
  BY <1>3 DEF Calm!ClientEnables, ClientEnables, Calm!Post, Post, Calm!Event,
     Event, Calm!appVars, appVars
<1>4. ASSUME NEW c \in Chars, Calm!ClientDisables(c) PROVE FALSE
  BY <1>4 DEF Calm!ClientDisables
<1>5. CASE Calm!ClientConfirms
  BY <1>5 DEF Calm!ClientConfirms, ClientConfirms, Calm!Post, Post, Calm!Event,
     Event, Calm!appVars, appVars, Calm!NoItem, NoItem
<1>6. ~Calm!IndicationTimesOut
  BY DEF Calm!IndicationTimesOut
<1>7. ASSUME NEW item, Calm!Send(item) PROVE Send(item)
  BY <1>7 DEF Calm!Send, Send, Calm!SendStatus, SendStatus, Calm!Log, Log,
     Calm!NoItem, NoItem
<1>8. ASSUME NEW c \in Chars, Calm!SendValue(c) PROVE SendValue(c)
  <2>1. Calm!Item(c) = Item(c)
    BY DEF Calm!Item, Item
  <2>2. /\ Calm!MaySendNow(c) <=> MaySendNow(c)
        /\ Calm!MustQueue(c) <=> MustQueue(c)
        /\ Calm!HasRoom <=> HasRoom
    BY DEF Calm!MaySendNow, MaySendNow, Calm!MustQueue, MustQueue,
           Calm!HasRoom, HasRoom
  <2>3. produced < MaxValues
    BY <1>8, BoundAssumption DEF Calm!SendValue, TypeOK
  <2> QED
    BY <1>7, <1>8, <2>1, <2>2, <2>3 DEF Calm!SendValue, SendValue
<1>9. CASE Calm!SoftTimer
  BY <1>7, <1>9 DEF Calm!SoftTimer, SoftTimer
<1>10. CASE Calm!HandleEvent
  BY <1>10 DEF Calm!HandleEvent, HandleEvent,
     Calm!ConnectionOpened, ConnectionOpened, Calm!ConnectionClosed,
     ConnectionClosed, Calm!IndicationTimeout, IndicationTimeout,
     Calm!IndicationsOn, IndicationsOn, Calm!Confirmation, Confirmation,
     Calm!IndicationsOff, IndicationsOff, Calm!Handle, Handle,
     Calm!appVars, appVars
<1> QED
  BY <1>1, <1>2, <1>3, <1>4, <1>5, <1>6, <1>8, <1>9, <1>10 DEF Calm!Next

\* What is posted after the events that are there does not hide any of them.
LEMMA PostCalm ==
  ASSUME TypeOK, ConfirmedAsOn, NEW e \in Events, Post(e),
         e.kind = "confirmation" => e.flags = "indication",
         UNCHANGED in_flight,
         InFlightMeansPending,
         outstanding' = outstanding \/ e.kind \in {"confirmation", "closed"}
  PROVE  ConfirmedAsOn' /\ InFlightMeansPending'
<1>1. /\ Len(events) \in Nat
      /\ Len(events') = Len(events) + 1
      /\ \A i \in 1 .. Len(events) : events'[i] = events[i]
      /\ events'[Len(events) + 1] = e
  BY PostShape
<1>2. DOMAIN events = 1 .. Len(events) /\ DOMAIN events' = 1 .. Len(events')
  BY PostTyped DEF TypeOK
<1>3. Len(events) + 1 \in DOMAIN events' /\ DOMAIN events \subseteq DOMAIN events'
  BY <1>1, <1>2
<1>4. ConfirmedAsOn'
  BY <1>1, <1>2 DEF ConfirmedAsOn
<1>5. CASE e.kind \in {"confirmation", "closed"}
  BY <1>1, <1>3, <1>4, <1>5 DEF InFlightMeansPending
<1>6. CASE outstanding' = outstanding
  BY <1>1, <1>2, <1>3, <1>4, <1>6 DEF InFlightMeansPending, NoItem
<1> QED
  BY <1>4, <1>5, <1>6

\* The application's handlers: a confirmation and a closed link take the flag
\* down, and no other event is what the flag waits for.
LEMMA HandleCalm ==
  ASSUME TypeOK, TypeOK', AwaitedIsEnabled, ConfirmedAsOn, InFlightMeansPending,
         HandleEvent
  PROVE  AwaitedIsEnabled' /\ ConfirmedAsOn' /\ InFlightMeansPending'
<1>1. PICK kind : Handle(kind)
  BY DEF HandleEvent, ConnectionOpened, ConnectionClosed, IndicationTimeout,
         IndicationsOn, Confirmation, IndicationsOff
<1>2. /\ Len(events) \in Nat \ {0}
      /\ Len(events') = Len(events) - 1
      /\ \A i \in 1 .. Len(events) - 1 : events'[i] = events[i + 1]
      /\ Head(events) = events[1]
      /\ events[1].kind = kind
  BY <1>1, HandleShape
<1>3. DOMAIN events = 1 .. Len(events) /\ DOMAIN events' = 1 .. Len(events')
  BY DEF TypeOK
<1>4. AwaitedIsEnabled'
  BY <1>1 DEF Handle, AwaitedIsEnabled, NoItem
<1>5. \A i \in DOMAIN events' :
        i + 1 \in DOMAIN events /\ events'[i] = events[i + 1]
  BY <1>2, <1>3
<1>6. ConfirmedAsOn'
  BY <1>5 DEF ConfirmedAsOn
<1>7. 1 \in DOMAIN events
  BY <1>2, <1>3
<1>8. \/ in_flight' = 0
      \/ kind \notin {"confirmation", "closed"} /\ in_flight' = in_flight
  <2>1. CASE ConnectionClosed \/ Confirmation
    BY <2>1 DEF ConnectionClosed, Confirmation
  <2>2. CASE ConnectionOpened \/ IndicationTimeout \/ IndicationsOn
    BY <1>2, <2>2 DEF ConnectionOpened, IndicationTimeout, IndicationsOn,
       Handle, appVars
  <2>3. CASE IndicationsOff
    <3>1. Head(events).kind \in {"client_config", "confirmation"}
          /\ Head(events).flags = "disable" /\ in_flight' = in_flight
      BY <2>3 DEF IndicationsOff, Handle
    <3>2. events[1].kind # "confirmation"
      BY <1>2, <1>7, <3>1 DEF ConfirmedAsOn
    <3> QED
      BY <1>2, <3>1, <3>2
  <2> QED
    BY <2>1, <2>2, <2>3 DEF HandleEvent
<1>9. ASSUME kind \notin {"confirmation", "closed"},
             NEW i \in DOMAIN events, events[i].kind \in {"confirmation", "closed"}
      PROVE  \E j \in DOMAIN events' :
               events'[j].kind \in {"confirmation", "closed"}
  <2>1. i # 1
    BY <1>2, <1>9
  <2>2. i - 1 \in DOMAIN events' /\ i - 1 \in 1 .. Len(events) - 1 /\ (i - 1) + 1 = i
    BY <1>2, <1>3, <2>1
  <2>3. events'[i - 1] = events[i]
    BY <1>2, <2>2
  <2> QED
    BY <1>9, <2>2, <2>3
<1>10. outstanding' = outstanding
  BY <1>1 DEF Handle
<1>11. InFlightMeansPending'
  BY <1>8, <1>9, <1>10 DEF InFlightMeansPending, NoItem
<1> QED
  BY <1>4, <1>6, <1>11

\* An indication that is accepted is of an enabled characteristic, and is
\* outstanding from then on.
LEMMA SendCalm ==
  ASSUME TypeOK, NEW item \in Items, Send(item),
         AwaitedIsEnabled, InFlightMeansPending, UNCHANGED <<cccd, events>>
  PROVE  AwaitedIsEnabled' /\ InFlightMeansPending'
<1>1. item # NoItem
  BY CharAssumption DEF Items, NoItem
<1>2. NoItem' = NoItem
  BY DEF NoItem
<1>3. PICK sc \in SendStatus(item.char) :
        \/ sc = "OK" /\ in_flight' = 1 /\ outstanding' = item
        \/ sc # "OK" /\ in_flight' = 0 /\ UNCHANGED outstanding
  BY DEF Send
<1>4. CASE sc = "OK"
  <2>1. item.char \in cccd
    BY <1>3, <1>4 DEF SendStatus
  <2> QED
    BY <1>1, <1>2, <1>3, <1>4, <2>1 DEF AwaitedIsEnabled, InFlightMeansPending
<1>5. CASE sc # "OK"
  BY <1>2, <1>3, <1>5 DEF AwaitedIsEnabled, InFlightMeansPending
<1> QED
  BY <1>4, <1>5

LEMMA InitCalm == MCInit => CalmInv
<1> SUFFICES ASSUME MCInit PROVE CalmInv
  OBVIOUS
<1>1. TypeOK
  BY InitType DEF MCInit
<1>2. AwaitedIsEnabled /\ ConfirmedAsOn /\ InFlightMeansPending
  BY DEF MCInit, Init, AwaitedIsEnabled, ConfirmedAsOn, InFlightMeansPending
<1> QED
  BY <1>1, <1>2 DEF CalmInv

LEMMA StepCalm ==
  ASSUME MaxValues >= 3
  PROVE  CalmInv /\ [MCNext]_<<vars, calm>> => CalmInv'
<1> SUFFICES ASSUME CalmInv, [MCNext]_<<vars, calm>> PROVE CalmInv'
  OBVIOUS
<1>1. TypeOK
  BY DEF CalmInv
<1>2. calm' = calm
  BY DEF MCNext
<1>3. CASE UNCHANGED vars
  <2>1. TypeOK'
    BY <1>1, <1>3, StepType
  <2>2. UNCHANGED <<in_flight, outstanding, cccd, events>>
    BY <1>3 DEF vars, appVars, stackVars
  <2> QED
    BY <1>2, <2>1, <2>2 DEF CalmInv, AwaitedIsEnabled, ConfirmedAsOn,
       InFlightMeansPending, NoItem
<1>4. CASE ~calm /\ Next
  BY <1>1, <1>2, <1>4, StepType DEF CalmInv
<1>5. CASE calm /\ Calm!Next
  <2>1. \/ Connect \/ Disconnect \/ ClientConfirms \/ SoftTimer \/ HandleEvent
        \/ \E c \in Chars : ClientEnables(c) \/ SendValue(c)
    BY <1>1, <1>5, CalmSteps
  <2>2. TypeOK'
    BY <1>1, <2>1, StepType DEF Next
  <2>3. AwaitedIsEnabled /\ ConfirmedAsOn /\ InFlightMeansPending
    BY <1>5 DEF CalmInv
  <2> SUFFICES AwaitedIsEnabled' /\ ConfirmedAsOn' /\ InFlightMeansPending'
    BY <2>2 DEF CalmInv
  <2>4. CASE Connect
    <3> DEFINE e == Event("opened", conns + 1, NoChar, "disable")
    <3>1. conns + 1 \in 0 .. MaxConns
      BY <1>1, <2>4, BoundAssumption DEF Connect, TypeOK
    <3>2. e \in Events /\ e.kind = "opened" /\ Post(e)
      BY <2>4, <3>1, EventTyped DEF Connect, Event, Kinds, Flags
    <3>3. UNCHANGED <<in_flight, outstanding, cccd>>
      BY <2>4 DEF Connect, appVars
    <3> HIDE DEF e
    <3> QED
      BY <1>1, <2>3, <3>2, <3>3, PostCalm DEF AwaitedIsEnabled, NoItem
  <2>5. CASE Disconnect
    <3> DEFINE e == Event("closed", link, NoChar, "disable")
    <3>1. e \in Events /\ e.kind = "closed" /\ Post(e)
      BY <1>1, <2>5, EventTyped DEF Disconnect, Event, Kinds, Flags, TypeOK
    <3>2. UNCHANGED in_flight /\ outstanding' = NoItem
      BY <2>5 DEF Disconnect, appVars
    <3> HIDE DEF e
    <3> QED
      BY <1>1, <2>3, <3>1, <3>2, PostCalm DEF AwaitedIsEnabled, NoItem
  <2>6. CASE ClientConfirms
    <3> DEFINE e == Event("confirmation", link, outstanding.char, "indication")
    <3>1. outstanding # NoItem /\ outstanding.char \in cccd
      BY <2>3, <2>6 DEF ClientConfirms, AwaitedIsEnabled
    <3>2. Post(e)
      BY <2>6, <3>1 DEF ClientConfirms
    <3>3. e \in Events /\ e.kind = "confirmation" /\ e.flags = "indication"
      BY <1>1, <3>1, EventTyped DEF Event, Kinds, Flags, TypeOK
    <3>4. UNCHANGED <<in_flight, cccd>> /\ outstanding' = NoItem
      BY <2>6 DEF ClientConfirms, appVars
    <3> HIDE DEF e
    <3> QED
      BY <1>1, <2>3, <3>2, <3>3, <3>4, PostCalm DEF AwaitedIsEnabled, NoItem
  <2>7. ASSUME NEW c \in Chars, ClientEnables(c)
        PROVE  AwaitedIsEnabled' /\ ConfirmedAsOn' /\ InFlightMeansPending'
    <3> DEFINE e == Event("client_config", link, c, "indication")
    <3>1. e \in Events /\ e.kind = "client_config" /\ Post(e)
      BY <1>1, <2>7, EventTyped DEF ClientEnables, Event, Kinds, Flags, TypeOK
    <3>2. UNCHANGED <<in_flight, outstanding>> /\ cccd \subseteq cccd'
      BY <2>7 DEF ClientEnables, appVars
    <3> HIDE DEF e
    <3> QED
      BY <1>1, <2>3, <3>1, <3>2, PostCalm DEF AwaitedIsEnabled, NoItem
  <2>8. ASSUME NEW c \in Chars, SendValue(c)
        PROVE  AwaitedIsEnabled' /\ ConfirmedAsOn' /\ InFlightMeansPending'
    <3>1. UNCHANGED <<cccd, events>>
      BY <2>8 DEF SendValue
    <3>2. ConfirmedAsOn'
      BY <2>3, <3>1 DEF ConfirmedAsOn
    <3>3. CASE MaySendNow(c)
      <4>1. Item(c) \in Items
        BY <1>1, <2>8, BoundAssumption DEF Item, Items, SendValue, TypeOK
      <4>2. Send(Item(c))
        BY <2>8, <3>3 DEF SendValue
      <4> QED
        BY <1>1, <2>3, <3>1, <3>2, <4>1, <4>2, SendCalm
    <3>4. CASE ~MaySendNow(c)
      <4>1. UNCHANGED <<in_flight, outstanding>>
        BY <2>8, <3>4 DEF SendValue
      <4> QED
        BY <2>3, <3>1, <3>2, <4>1 DEF AwaitedIsEnabled, InFlightMeansPending, NoItem
    <3> QED
      BY <3>3, <3>4
  <2>9. CASE SoftTimer
    <3>1. Head(queue) \in Items /\ Send(Head(queue)) /\ UNCHANGED <<cccd, events>>
      BY <1>1, <2>9, TailIndexed DEF SoftTimer, TypeOK
    <3>2. ConfirmedAsOn'
      BY <2>3, <3>1 DEF ConfirmedAsOn
    <3> QED
      BY <1>1, <2>3, <3>1, <3>2, SendCalm
  <2>10. CASE HandleEvent
    BY <1>1, <2>2, <2>3, <2>10, HandleCalm
  <2> QED
    BY <2>1, <2>4, <2>5, <2>6, <2>7, <2>8, <2>9, <2>10
<1> QED
  BY <1>3, <1>4, <1>5 DEF MCNext

\* in_flight is up only while the confirmation, or the event that will take
\* it down, is still to come, as long as no confirmation finds the descriptor
\* changed and none times out; in a calm behaviour three values are produced
\* at most (ble.c:521-550, 580-587; ble.h:46).
THEOREM FlagComesDown == ASSUME MaxValues >= 3 PROVE MCSpec => []FlagWhenCalm
<1>1. CalmInv => FlagWhenCalm
  BY DEF CalmInv, FlagWhenCalm
<1>2. QED BY <1>1, InitCalm, StepCalm, PTL DEF MCSpec
=============================================================================
