---------------------------- MODULE ClientProofs ----------------------------
(***************************************************************************)
(* What Client promises for every set of readings and gestures and every   *)
(* bound: a gesture turns one page at most, no indication is left without  *)
(* its confirmation, and a discovery that was not refused ends subscribed. *)
(*                                                                         *)
(* The second rests on the order of the stack's events.  The opening of a  *)
(* connection is the first event of it that is handled and its closing the *)
(* last, so that the program's handle is that of the link whenever the     *)
(* server has something to indicate; and what it indicates has a           *)
(* characteristic whose handle was discovered.                             *)
(*                                                                         *)
(* The third follows the discovery: until the gesture's handle is known    *)
(* one command runs or one completion waits, behind what it found; from    *)
(* then on a button's read may complete as well and move the machine on,   *)
(* but no handle is missing any more, and a descriptor that was asked for  *)
(* is written or being written.                                            *)
(***************************************************************************)
EXTENDS Client, TLAPS

\* Link, handle and radio.
LinkInv ==
  /\ link # 0 => link = conns /\ radio = "idle"
  /\ link = 0 => indicating = {} /\ awaiting = None /\ procedure = Idle /\ pairing = "none"
  /\ radio # "idle" => events = << >>
  /\ connection <= conns
  /\ indicating # {} \/ awaiting # None \/ procedure # Idle => connection = link

\* What is posted.
QueueInv ==
  \A i \in DOMAIN events :
    /\ events[i].kind = "closed" => i = Len(events) /\ link = 0
    /\ events[i].kind = "opened" => i = 1 /\ events[i].val = conns /\ connection # conns
    /\ events[i].kind = "indication" => events[i].char \in handles

\* What is indicated.
HandleInv ==
  /\ indicating \subseteq handles
  /\ procedure.op = "indication" /\ procedure.known => procedure.char \in handles
  /\ awaiting # None => \E i \in DOMAIN events : events[i].kind = "indication"

IInv == TypeOK /\ LinkInv /\ QueueInv /\ HandleInv /\ NoRepeat
-----------------------------------------------------------------------------
(* Sequences.                                                              *)

\* One sequence after the other.
LEMMA ConcatFacts ==
  ASSUME NEW S, NEW q \in Seq(S), NEW t \in Seq(S)
  PROVE  /\ q \o t \in Seq(S)
         /\ Len(q) \in Nat /\ Len(t) \in Nat
         /\ DOMAIN q = 1 .. Len(q) /\ DOMAIN t = 1 .. Len(t)
         /\ Len(q \o t) = Len(q) + Len(t)
         /\ DOMAIN (q \o t) = 1 .. (Len(q) + Len(t))
         /\ \A i \in 1 .. Len(q) : (q \o t)[i] = q[i]
         /\ \A i \in 1 .. Len(t) : (q \o t)[Len(q) + i] = t[i]
OBVIOUS

\* The tail is what follows the head.
LEMMA TailFacts ==
  ASSUME NEW S, NEW q \in Seq(S), q # << >>
  PROVE  /\ Tail(q) \in Seq(S)
         /\ Len(q) \in Nat /\ Len(q) >= 1
         /\ DOMAIN q = 1 .. Len(q)
         /\ Len(Tail(q)) = Len(q) - 1
         /\ DOMAIN Tail(q) = 1 .. (Len(q) - 1)
         /\ Head(q) = q[1] /\ Head(q) \in S
         /\ \A i \in 1 .. (Len(q) - 1) : Tail(q)[i] = q[i + 1]
OBVIOUS

\* Sequences of one and two elements.
LEMMA ShortSeqs ==
  ASSUME NEW S, NEW a \in S, NEW b \in S
  PROVE  /\ <<a>> \in Seq(S) /\ Len(<<a>>) = 1 /\ <<a>>[1] = a
         /\ <<a, b>> \in Seq(S) /\ Len(<<a, b>>) = 2
         /\ <<a, b>>[1] = a /\ <<a, b>>[2] = b
OBVIOUS

\* Nothing is left of a sequence of no elements.
LEMMA NoneLeft ==
  ASSUME NEW S, NEW q \in Seq(S), Len(q) = 0
  PROVE  q = << >>
OBVIOUS
-----------------------------------------------------------------------------
(* discovery_state_machine.                                                *)

\* An event is what it is made of.
LEMMA EventTyped ==
  ASSUME NEW kind \in EventKinds, NEW c \in Chars \cup {None}, NEW val \in Nat,
         kind \in Found => c \in Chars
  PROVE  /\ Event(kind, c, val) \in Events
         /\ Event(kind, c, val).kind = kind
         /\ Event(kind, c, val).char = c
         /\ Event(kind, c, val).val = val
BY DEF Event, Events

\* A command of the machine or a button; one that enables indications goes to
\* a handle that is known.
Sound(cmd) ==
  /\ cmd \in Commands
  /\ cmd.op = "indication" /\ cmd.known => cmd.char \in handles

\* Nothing, or one sound command.
Commanded(cmds) == cmds = << >> \/ \E cmd : Sound(cmd) /\ cmds = <<cmd>>

\* A procedure starts on the link the program knows, when none runs.
LEMMA IssueFacts ==
  ASSUME NEW first, NEW then, Commanded(first), Commanded(then), Issue(first, then)
  PROVE  \/ procedure' = procedure
         \/ /\ procedure = Idle /\ link # 0 /\ connection' = link
            /\ Sound(procedure')
<1>1. first \o then # << >> => Sound((first \o then)[1])
  <2>1. CASE first = << >>
    <3>1. CASE then = << >>
      BY <2>1, <3>1
    <3>2. CASE \E cmd : Sound(cmd) /\ then = <<cmd>>
      BY <2>1, <3>2
    <3> QED
      BY <3>1, <3>2 DEF Commanded
  <2>2. CASE \E cmd : Sound(cmd) /\ first = <<cmd>>
    <3>1. PICK cmd : Sound(cmd) /\ first = <<cmd>>
      BY <2>2
    <3>2. CASE then = << >>
      BY <3>1, <3>2
    <3>3. CASE \E cmd2 : Sound(cmd2) /\ then = <<cmd2>>
      BY <3>1, <3>3
    <3> QED
      BY <3>2, <3>3 DEF Commanded
  <2> QED
    BY <2>1, <2>2 DEF Commanded
<1> QED
  BY <1>1 DEF Issue

\* The commands of the states are sound.
LEMMA PlanSound ==
  /\ \A st \in DOMAIN Plan :
       /\ Plan[st].next \in DOMAIN Plan \cup {"INITLCD"}
       /\ Sound(Command(Plan[st].op, Plan[st].char, Known(Plan[st].op, Plan[st].char)))
  /\ \A op \in {"indication", "disable", "read"}, c \in Chars :
       Sound(Command(op, c, Known(op, c)))
<1>1. \A op \in {"service", "characteristic", "indication", "disable", "read"}, c \in Chars :
        Sound(Command(op, c, Known(op, c)))
  <2> SUFFICES ASSUME NEW op \in {"service", "characteristic", "indication", "disable", "read"},
                      NEW c \in Chars
               PROVE  Sound(Command(op, c, Known(op, c)))
    OBVIOUS
  <2>1. op = "service" => Known(op, c) = TRUE
    BY DEF Known
  <2>2. op = "characteristic" => Known(op, c) = (c \in services)
    BY DEF Known
  <2>3. op \notin {"service", "characteristic"} => Known(op, c) = (c \in handles)
    BY DEF Known
  <2>4. /\ (c \in services) = TRUE \/ (c \in services) = FALSE
        /\ (c \in handles) = TRUE \/ (c \in handles) = FALSE
    OBVIOUS
  <2>5. Known(op, c) \in BOOLEAN
    BY <2>1, <2>2, <2>3, <2>4
  <2>6. op = "indication" /\ Known(op, c) => c \in handles
    BY <2>3
  <2> DEFINE k == Known(op, c)
  <2> HIDE DEF k
  <2>7. k \in BOOLEAN /\ (op = "indication" /\ k => c \in handles)
    BY <2>5, <2>6 DEF k
  <2>8. Sound(Command(op, c, k))
    BY <2>7 DEF Sound, Command, Commands
  <2> QED
    BY <2>8 DEF k
<1>2. /\ DOMAIN Plan = {"OPEN_S1", "OPEN_S2", "CHARACTERISTICS_S1", "CHARACTERISTICS_S2",
                        "NOTIFY_S1", "NOTIFY_S2"}
      /\ \A st \in DOMAIN Plan :
           /\ Plan[st].next \in DOMAIN Plan \cup {"INITLCD"}
           /\ Plan[st].op \in {"service", "characteristic", "indication"}
           /\ Plan[st].char \in Chars
  BY DEF Plan, Stage, Chars
<1> QED
  BY <1>1, <1>2

\* Page turns that were made or may still be.
Owed(m, g) == m + (IF g # 0 THEN 1 ELSE 0)

\* What issuing commands leaves behind.
Issued ==
  /\ refused' \subseteq {"unlinked", "busy"}
  /\ \/ procedure' = procedure
     \/ /\ procedure = Idle /\ link # 0 /\ connection' = link
        /\ Sound(procedure')

\* The same of the reasons for refusal.
LEMMA IssuedFacts ==
  ASSUME TypeOK, NEW first, NEW then, Commanded(first), Commanded(then), Issue(first, then)
  PROVE  Issued
<1>1. refused' \subseteq {"unlinked", "busy"}
  BY DEF Issue, TypeOK
<1> QED
  BY <1>1, IssueFacts DEF Issued

\* What the machine leaves behind.
Ran(g) ==
  /\ currentste' \in DOMAIN Plan \cup {"INITLCD", "UPDATELCD"}
  /\ book' \in BOOLEAN
  /\ {gesture_val', prev_ambient', moves'} \subseteq Nat
  /\ Owed(moves', gesture_val') <= Owed(moves, g)
  /\ Issued

\* The machine leaves that behind, in whatever state and for whatever event.
LEMMA MachineFacts ==
  ASSUME TypeOK, NEW kind, NEW g \in Nat, NEW first, Commanded(first),
         ambient_lt_val' \in Nat, discovery_state_machine(kind, g, first)
  PROVE  Ran(g)
<1> DEFINE Quiet == /\ gesture_val' = g
                    /\ moves' = moves
<1>t. /\ moves \in Nat /\ prev_ambient \in Nat /\ book \in BOOLEAN
      /\ currentste \in DOMAIN Plan \cup {"INITLCD", "UPDATELCD"}
  BY DEF TypeOK
<1>n. Commanded(<< >>)
  BY DEF Commanded
<1>q. Quiet => /\ {gesture_val', moves'} \subseteq Nat
               /\ Owed(moves', gesture_val') <= Owed(moves, g)
  BY <1>t DEF Owed
<1>1. CASE /\ Discovers(kind)
           /\ LET s == Plan[currentste]
              IN  /\ currentste' = s.next
                  /\ Issue(first, <<Command(s.op, s.char, Known(s.op, s.char))>>)
           /\ gesture_val' = g
           /\ UNCHANGED <<book, prev_ambient, moves>>
  <2> DEFINE cmd == Command(Plan[currentste].op, Plan[currentste].char,
                            Known(Plan[currentste].op, Plan[currentste].char))
  <2>1. currentste \in DOMAIN Plan
    BY <1>1 DEF Discovers
  <2>2. Sound(cmd) /\ currentste' \in DOMAIN Plan \cup {"INITLCD"}
    BY <1>1, <2>1, PlanSound
  <2>3. Issue(first, <<cmd>>)
    BY <1>1
  <2> HIDE DEF cmd
  <2>4. Commanded(<<cmd>>)
    BY <2>2 DEF Commanded
  <2>5. Issued
    BY <2>3, <2>4, IssuedFacts
  <2> QED
    BY <1>1, <1>t, <1>q, <2>2, <2>5 DEF Ran
<1>2. CASE /\ currentste = "INITLCD" /\ bonding_state' = "BONDED"
           /\ currentste' = "UPDATELCD"
           /\ book' = TRUE
           /\ gesture_val' = g
           /\ Issue(first, << >>)
           /\ UNCHANGED <<prev_ambient, moves>>
  BY <1>2, <1>t, <1>q, <1>n, IssuedFacts DEF Ran
<1>3. CASE /\ currentste = "UPDATELCD"
           /\ Follow(IF Darkens THEN "disable" ELSE "indication", first)
           /\ gesture_val' = g
           /\ UNCHANGED <<currentste, moves>>
  <2> DEFINE op == IF Darkens THEN "disable" ELSE "indication"
             cmd == Command(op, Gesture, Known(op, Gesture))
  <2>1. Sound(cmd)
    BY PlanSound DEF Chars
  <2>2. /\ Issue(first, <<cmd>>) /\ book' \in BOOLEAN /\ prev_ambient' = ambient_lt_val'
    BY <1>3 DEF Follow
  <2> HIDE DEF cmd
  <2>3. Commanded(<<cmd>>)
    BY <2>1 DEF Commanded
  <2>4. Issued
    BY <2>2, <2>3, IssuedFacts
  <2> QED
    BY <1>3, <1>t, <1>q, <2>2, <2>4 DEF Ran
<1>4. CASE /\ currentste = "UPDATELCD"
           /\ Turn(g)
           /\ Issue(first, << >>)
           /\ UNCHANGED <<currentste, prev_ambient>>
  <2>1. Issued
    BY <1>4, <1>n, IssuedFacts
  <2>2. /\ gesture_val' = 0 /\ book' \in BOOLEAN
        /\ moves' = IF g \in Turns THEN moves + 1 ELSE moves
    BY <1>4, <1>t DEF Turn
  <2>3. CASE g \in Turns
    <3>1. moves' = moves + 1 /\ gesture_val' = 0 /\ g # 0
      BY <2>2, <2>3 DEF Turns
    <3>2. {gesture_val', moves'} \subseteq Nat /\ Owed(moves', gesture_val') <= Owed(moves, g)
      BY <3>1, <1>t DEF Owed
    <3> QED
      BY <3>2, <2>1, <2>2, <1>t, <1>4 DEF Ran
  <2>4. CASE g \notin Turns
    <3>1. moves' = moves /\ gesture_val' = 0
      BY <2>2, <2>4
    <3>2. {gesture_val', moves'} \subseteq Nat /\ Owed(moves', gesture_val') <= Owed(moves, g)
      BY <3>1, <1>t DEF Owed
    <3> QED
      BY <3>2, <2>1, <2>2, <1>t, <1>4 DEF Ran
  <2> QED
    BY <2>3, <2>4
<1>5. CASE /\ gesture_val' = g
           /\ Issue(first, << >>)
           /\ UNCHANGED <<currentste, book, prev_ambient, moves>>
  BY <1>5, <1>t, <1>q, <1>n, IssuedFacts DEF Ran
<1> QED
  BY <1>1, <1>2, <1>3, <1>4, <1>5 DEF discovery_state_machine
-----------------------------------------------------------------------------
(* What the application's steps have in common.                            *)

\* The types of what the machine leaves alone.
RestOK ==
  /\ bonding_state \in {"NOT_BONDED", "BONDING", "BONDED"}
  /\ services \subseteq Chars /\ handles \subseteq Chars
  /\ connection \in Nat /\ ambient_lt_val \in Nat
  /\ radio \in {"scanning", "initiating", "idle"}
  /\ indicating \subseteq Chars
  /\ awaiting \in Chars \cup {None}
  /\ pairing \in {"none", "requested", "passkey", "confirmed", "bonded"}
  /\ signals \in {{}, PB0, PB1}
  /\ events \in Seq(Events)
  /\ {link, conns, presses, values, received} \subseteq Nat

\* An event is handled, or a scan report, a soft timer or a signal.
Heard ==
  /\ UNCHANGED <<link, conns, indicating>>
  /\ handles \subseteq handles'
  /\ pairing' = pairing \/ link # 0
  /\ \/ /\ UNCHANGED <<events, connection, handles, awaiting>>
        /\ radio' = radio \/ (radio = "scanning" /\ radio' = "initiating")
     \/ /\ events # << >> /\ events' = Tail(events)
        /\ connection' = IF Head(events).kind = "opened" THEN Head(events).val
                         ELSE connection
        /\ radio' = IF Head(events).kind = "closed" THEN "scanning" ELSE radio
        /\ awaiting' = IF Head(events).kind = "indication" /\ Confirms THEN None
                       ELSE awaiting

\* The whole of a step of the application.
Served ==
  /\ RestOK'
  /\ Heard
  /\ \E g \in Nat : Ran(g) /\ Owed(moves, g) <= received'

\* The head of the queue, and the queue without it.
LEMMA TakeFacts ==
  ASSUME TypeOK, NEW kind, Take(kind)
  PROVE  /\ events # << >> /\ events' = Tail(events) /\ events' \in Seq(Events)
         /\ Head(events) \in Events
         /\ Head(events).kind = kind
         /\ Head(events).val \in Nat
         /\ kind \in Found => Head(events).char \in Chars
         /\ UNCHANGED <<link, conns, indicating, values, signals, presses>>
<1>1. events \in Seq(Events) /\ events # << >> /\ events' = Tail(events)
  BY DEF Take, TypeOK
<1>2. Tail(events) \in Seq(Events) /\ Head(events) \in Events
  BY <1>1, TailFacts
<1>3. Head(events).kind = kind /\ UNCHANGED <<link, conns, indicating, values, signals, presses>>
  BY DEF Take
<1> DEFINE e == Head(events)
<1> HIDE DEF e
<1>4. e \in Events /\ e.kind = kind
  BY <1>2, <1>3 DEF e
<1>5. e.val \in Nat /\ (kind \in Found => e.char \in Chars)
  BY <1>4 DEF Events
<1> QED
  BY <1>1, <1>2, <1>3, <1>5 DEF e

\* What there is to be done of gestures, when none came.
LEMMA OwedFacts ==
  ASSUME TypeOK, NoRepeat
  PROVE  /\ gesture_val \in Nat /\ moves \in Nat /\ received \in Nat
         /\ Owed(moves, gesture_val) <= received
         /\ moves <= received
         /\ RestOK
<1>1. gesture_val \in Nat /\ moves \in Nat /\ received \in Nat
  BY DEF TypeOK
<1>2. RestOK
  BY DEF RestOK, TypeOK
<1>3. Owed(moves, gesture_val) <= received
  BY DEF NoRepeat, Owed
<1>4. moves <= received
  BY <1>1 DEF NoRepeat
<1> QED
  BY <1>1, <1>2, <1>3, <1>4

\* No gesture came, and the machine ran.
LEMMA RanIdly ==
  ASSUME TypeOK, NoRepeat, NEW kind, NEW first, Commanded(first),
         ambient_lt_val' \in Nat, received' = received,
         discovery_state_machine(kind, gesture_val, first)
  PROVE  \E g \in Nat : Ran(g) /\ Owed(moves, g) <= received'
<1>1. Ran(gesture_val)
  BY MachineFacts, OwedFacts
<1> QED
  BY <1>1, OwedFacts

\* Events that come with nothing the application keeps.
LEMMA PlainServed ==
  ASSUME TypeOK, NoRepeat, LinkInv, NEW kind,
         kind \notin {"opened", "closed", "indication"},
         Take(kind),
         UNCHANGED <<connection, ambient_lt_val, received, radio, awaiting>>,
         services' \subseteq Chars,
         bonding_state' \in {"NOT_BONDED", "BONDING", "BONDED"},
         handles \subseteq handles', handles' \subseteq Chars,
         pairing' = pairing \/ (link # 0 /\ pairing' = "requested"),
         discovery_state_machine(kind, gesture_val, << >>)
  PROVE  Served
<1>1. Commanded(<< >>)
  BY DEF Commanded
<1>2. ambient_lt_val' \in Nat /\ received' = received
  BY DEF TypeOK
<1>3. \E g \in Nat : Ran(g) /\ Owed(moves, g) <= received'
  BY <1>1, <1>2, RanIdly
<1>4. RestOK'
  BY TakeFacts, OwedFacts DEF RestOK
<1>5. Heard
  BY TakeFacts DEF Heard
<1> QED
  BY <1>3, <1>4, <1>5 DEF Served

\* Every event of the stack is served.
LEMMA PostedServed == IInv /\ HandlePosted => Served
<1> SUFFICES ASSUME IInv, HandlePosted
             PROVE  Served
  OBVIOUS
<1> USE DEF IInv
<1>e. Commanded(<< >>)
  BY DEF Commanded
<1>t. RestOK
  BY OwedFacts
<1>1. ASSUME ConnectionOpened
      PROVE  Served
  <2>1. ambient_lt_val' \in Nat /\ received' = received
    BY <1>1 DEF ConnectionOpened, TypeOK
  <2>2. \E g \in Nat : Ran(g) /\ Owed(moves, g) <= received'
    BY <1>1, <1>e, <2>1, RanIdly DEF ConnectionOpened
  <2>3. RestOK'
    BY <1>1, <1>t, TakeFacts DEF RestOK, ConnectionOpened
  <2>4. Heard
    BY <1>1, TakeFacts DEF Heard, ConnectionOpened
  <2> QED
    BY <2>2, <2>3, <2>4 DEF Served
<1>2. ASSUME ConnectionClosed
      PROVE  Served
  <2>1. ambient_lt_val' \in Nat /\ received' = received
    BY <1>2 DEF ConnectionClosed, TypeOK
  <2>2. \E g \in Nat : Ran(g) /\ Owed(moves, g) <= received'
    BY <1>2, <1>e, <2>1, RanIdly DEF ConnectionClosed
  <2>3. RestOK'
    BY <1>2, <1>t, TakeFacts DEF RestOK, ConnectionClosed
  <2>4. Heard
    BY <1>2, TakeFacts DEF Heard, ConnectionClosed
  <2> QED
    BY <2>2, <2>3, <2>4 DEF Served
<1>3. ASSUME ServiceFound
      PROVE  Served
  <2>1. services' \subseteq Chars
    BY <1>3, <1>t, TakeFacts DEF ServiceFound, RestOK, Found
  <2> QED
    BY <1>3, <1>t, <2>1, PlainServed DEF ServiceFound, RestOK
<1>4. ASSUME CharacteristicFound
      PROVE  Served
  <2>1. handles' \subseteq Chars /\ handles \subseteq handles'
    BY <1>4, <1>t, TakeFacts DEF CharacteristicFound, RestOK, Found
  <2> QED
    BY <1>4, <1>t, <2>1, PlainServed DEF CharacteristicFound, RestOK
<1>5. ASSUME LightValue
      PROVE  Served
  <2>1. ambient_lt_val' \in Nat /\ received' = received
    BY <1>5, <1>t, TakeFacts DEF LightValue, RestOK
  <2>2. \E g \in Nat : Ran(g) /\ Owed(moves, g) <= received'
    BY <1>5, <1>e, <2>1, RanIdly DEF LightValue
  <2>3. RestOK'
    BY <1>5, <1>t, <2>1, TakeFacts DEF RestOK, LightValue
  <2>4. Heard
    BY <1>5, TakeFacts DEF Heard, LightValue
  <2> QED
    BY <2>2, <2>3, <2>4 DEF Served
<1>6. ASSUME NEW kind \in {"indication", "read_response"}, GestureValue(kind)
      PROVE  Served
  <2> DEFINE val == Head(events).val
             g == IF Gesture \in handles THEN val ELSE gesture_val
  <2>1. /\ UNCHANGED <<bonding_state, connection, services, handles, ambient_lt_val>>
        /\ discovery_state_machine(kind, g, << >>)
        /\ received' = IF val # 0 THEN received + 1 ELSE received
        /\ awaiting' = IF kind = "indication" /\ Confirms THEN None ELSE awaiting
        /\ UNCHANGED <<radio, pairing>>
        /\ Take(kind)
    BY <1>6 DEF GestureValue
  <2>2. val \in Nat
    BY <2>1, TakeFacts
  <2> HIDE DEF val
  <2>3. g \in Nat /\ received' \in Nat /\ received <= received'
    <3>1. CASE val = 0
      BY <3>1, <2>1, <2>2, OwedFacts
    <3>2. CASE val # 0
      BY <3>2, <2>1, <2>2, OwedFacts
    <3> QED
      BY <3>1, <3>2
  <2>4. Owed(moves, g) <= received'
    <3>1. CASE Gesture \notin handles
      <4>1. Owed(moves, g) <= received /\ Owed(moves, g) \in Nat
        BY <3>1, OwedFacts DEF Owed
      <4> QED
        BY <4>1, <2>3, OwedFacts
    <3>2. CASE Gesture \in handles /\ val = 0
      <4>1. Owed(moves, g) = moves
        BY <3>2, OwedFacts DEF Owed
      <4> QED
        BY <4>1, <2>3, OwedFacts
    <3>3. CASE Gesture \in handles /\ val # 0
      <4>1. Owed(moves, g) = moves + 1
        BY <3>3, OwedFacts DEF Owed
      <4>2. received' = received + 1
        BY <2>1, <3>3
      <4> QED
        BY <4>1, <4>2, OwedFacts
    <3> QED
      BY <3>1, <3>2, <3>3
  <2>5. ambient_lt_val' \in Nat
    BY <2>1, <1>t DEF RestOK
  <2> HIDE DEF g
  <2>6. Ran(g)
    BY <2>1, <2>3, <2>5, <1>e, MachineFacts
  <2>7. RestOK'
    BY <2>1, <2>3, <1>t, TakeFacts DEF RestOK
  <2>8. Heard
    BY <2>1, TakeFacts DEF Heard
  <2> QED
    BY <2>3, <2>4, <2>6, <2>7, <2>8 DEF Served
<1>7. ASSUME NEW kind \in {"completed", "failed"}, ProcedureCompleted(kind)
      PROVE  Served
  BY <1>7, <1>t, PlainServed DEF ProcedureCompleted, bleVars, RestOK
<1>8. ASSUME IncreaseSecurity
      PROVE  Served
  BY <1>8, <1>t, PlainServed DEF IncreaseSecurity, bleVars, RestOK
<1>9. ASSUME ConfirmPasskey
      PROVE  Served
  BY <1>9, <1>t, PlainServed DEF ConfirmPasskey, RestOK
<1>10. ASSUME BondingFailed
       PROVE  Served
  BY <1>10, <1>t, PlainServed DEF BondingFailed, RestOK
<1>11. ASSUME Bonded
       PROVE  Served
  BY <1>11, <1>t, PlainServed DEF Bonded, bleVars, RestOK
<1> QED
  BY <1>1, <1>2, <1>3, <1>4, <1>5, <1>6, <1>7, <1>8, <1>9, <1>10, <1>11 DEF HandlePosted

\* And so is whatever else runs the machine.
LEMMA ApplicationServed == IInv /\ Application => Served
<1> SUFFICES ASSUME IInv, Application
             PROVE  Served
  OBVIOUS
<1> USE DEF IInv
<1>e. Commanded(<< >>)
  BY DEF Commanded
<1>t. RestOK
  BY OwedFacts
<1>1. ASSUME ScanReport
      PROVE  Served
  <2>1. ambient_lt_val' \in Nat /\ received' = received
    BY <1>1 DEF ScanReport, bleVars, TypeOK
  <2>2. \E g \in Nat : Ran(g) /\ Owed(moves, g) <= received'
    BY <1>1, <1>e, <2>1, RanIdly DEF ScanReport
  <2>3. RestOK' /\ Heard
    BY <1>1, <1>t DEF RestOK, Heard, ScanReport, bleVars, serverVars
  <2> QED
    BY <2>2, <2>3 DEF Served
<1>2. ASSUME SoftTimer
      PROVE  Served
  <2>1. ambient_lt_val' \in Nat /\ received' = received
    BY <1>2 DEF SoftTimer, bleVars, TypeOK
  <2>2. \E g \in Nat : Ran(g) /\ Owed(moves, g) <= received'
    BY <1>2, <1>e, <2>1, RanIdly DEF SoftTimer
  <2>3. RestOK' /\ Heard
    BY <1>2, <1>t DEF RestOK, Heard, SoftTimer, bleVars, serverVars, linkVars
  <2> QED
    BY <2>2, <2>3 DEF Served
<1>3. ASSUME NEW first, Commanded(first), Signal(first), received' = received,
             UNCHANGED <<connection, services, handles, ambient_lt_val>>,
             bonding_state' \in {"NOT_BONDED", "BONDING", "BONDED"},
             pairing' = pairing \/ (link # 0 /\ pairing' = "confirmed")
      PROVE  Served
  <2>1. ambient_lt_val' \in Nat
    BY <1>3 DEF TypeOK
  <2>2. \E g \in Nat : Ran(g) /\ Owed(moves, g) <= received'
    BY <1>3, <2>1, RanIdly DEF Signal
  <2>3. RestOK' /\ Heard
    BY <1>3, <1>t DEF RestOK, Heard, Signal, serverVars, linkVars
  <2> QED
    BY <2>2, <2>3 DEF Served
<1>4. ASSUME ReadButton
      PROVE  Served
  <2> DEFINE cmd == Command("read", Gesture, Known("read", Gesture))
  <2>1. Sound(cmd)
    BY PlanSound DEF Chars
  <2>2. /\ UNCHANGED <<bleVars, pairing>>
        /\ Signal(<<cmd>>) \/ Signal(<< >>)
    BY <1>4 DEF ReadButton
  <2> HIDE DEF cmd
  <2>3. Commanded(<<cmd>>)
    BY <2>1 DEF Commanded
  <2>4. CASE Signal(<<cmd>>)
    BY <2>2, <2>3, <2>4, <1>3, <1>t DEF bleVars, RestOK
  <2>5. CASE Signal(<< >>)
    BY <2>2, <2>5, <1>e, <1>3, <1>t DEF bleVars, RestOK
  <2> QED
    BY <2>2, <2>4, <2>5
<1>5. ASSUME ConfirmButton
      PROVE  Served
  <2>1. pairing = "passkey" => link # 0
    BY DEF LinkInv
  <2>2. pairing' = pairing \/ (link # 0 /\ pairing' = "confirmed")
    BY <1>5, <2>1 DEF ConfirmButton
  <2>3. bonding_state' \in {"NOT_BONDED", "BONDING", "BONDED"}
    BY <1>5, <1>t DEF ConfirmButton, RestOK
  <2> QED
    BY <1>5, <2>2, <2>3, <1>3, <1>e DEF ConfirmButton
<1> QED
  BY <1>1, <1>2, <1>4, <1>5, PostedServed DEF Application
-----------------------------------------------------------------------------
(* The invariant, over a step of the application.                          *)

\* The types.
LEMMA ServedTypes == IInv /\ Served => TypeOK'
<1> SUFFICES ASSUME IInv, Served
             PROVE  TypeOK'
  OBVIOUS
<1>1. PICK g \in Nat : Ran(g)
  BY DEF Served
<1>2. procedure' \in Commands \cup {Idle}
  BY <1>1 DEF Ran, Issued, Sound, IInv, TypeOK
<1>3. /\ refused' \subseteq {"unlinked", "busy"}
      /\ currentste' \in DOMAIN Plan \cup {"INITLCD", "UPDATELCD"}
      /\ book' \in BOOLEAN
      /\ {gesture_val', prev_ambient', moves'} \subseteq Nat
  BY <1>1 DEF Ran, Issued
<1>4. RestOK'
  BY DEF Served
<1> QED
  BY <1>2, <1>3, <1>4 DEF TypeOK, RestOK

\* What is owed is a number.
LEMMA OwedTyped ==
  ASSUME NEW m \in Nat, NEW g \in Nat
  PROVE  Owed(m, g) \in Nat
BY DEF Owed

\* A gesture is acted upon once.
LEMMA ServedOnce == IInv /\ Served => NoRepeat'
<1> SUFFICES ASSUME IInv, Served
             PROVE  NoRepeat'
  OBVIOUS
<1>1. PICK g \in Nat : Ran(g) /\ Owed(moves, g) <= received'
  BY DEF Served
<1>2. moves \in Nat /\ received' \in Nat
  BY DEF IInv, TypeOK, Served, RestOK
<1>3. Owed(moves, g) \in Nat
  BY <1>1, <1>2, OwedTyped
<1>4. moves' \in Nat /\ gesture_val' \in Nat /\ Owed(moves', gesture_val') <= Owed(moves, g)
  BY <1>1 DEF Ran
<1>5. Owed(moves', gesture_val') \in Nat
  BY <1>4, OwedTyped
<1> DEFINE a == Owed(moves', gesture_val')
           b == Owed(moves, g)
           c == received'
<1>6. a \in Nat /\ b \in Nat /\ c \in Nat /\ a <= b /\ b <= c
  BY <1>1, <1>2, <1>3, <1>4, <1>5
<1> HIDE DEF a, b, c
<1>7. a <= c
  BY <1>6
<1> QED
  BY <1>7 DEF a, c, Owed, NoRepeat

\* The events of the queue after its head was taken.
LEMMA QueueFacts ==
  ASSUME TypeOK, QueueInv, events # << >>
  PROVE  /\ Len(events) \in Nat /\ Len(events) >= 1
         /\ DOMAIN events = 1 .. Len(events)
         /\ DOMAIN Tail(events) = 1 .. (Len(events) - 1)
         /\ Len(Tail(events)) = Len(events) - 1
         /\ \A i \in 1 .. (Len(events) - 1) : Tail(events)[i] = events[i + 1]
         /\ Head(events) = events[1]
         /\ Head(events).kind = "closed" => Len(events) = 1 /\ link = 0
         /\ Head(events).kind = "opened" => Head(events).val = conns /\ connection # conns
         /\ Head(events).kind = "indication" => Head(events).char \in handles
<1>1. events \in Seq(Events)
  BY DEF TypeOK
<1>2. /\ Len(events) \in Nat /\ Len(events) >= 1
      /\ DOMAIN events = 1 .. Len(events)
      /\ DOMAIN Tail(events) = 1 .. (Len(events) - 1)
      /\ Len(Tail(events)) = Len(events) - 1
      /\ \A i \in 1 .. (Len(events) - 1) : Tail(events)[i] = events[i + 1]
      /\ Head(events) = events[1]
  BY <1>1, TailFacts
<1>3. 1 \in DOMAIN events
  BY <1>2
<1> QED
  BY <1>2, <1>3 DEF QueueInv

\* The link, the handle and the radio.
LEMMA ServedLink == IInv /\ Served => LinkInv'
<1> SUFFICES ASSUME IInv, Served
             PROVE  LinkInv'
  OBVIOUS
<1> USE DEF IInv
<1>1. Issued
  BY DEF Served, Ran
<1>2. Heard
  BY DEF Served
<1>t. link \in Nat /\ conns \in Nat /\ connection \in Nat /\ events \in Seq(Events)
  BY DEF TypeOK
<1>3. CASE /\ UNCHANGED <<events, connection, handles, awaiting>>
           /\ radio' = radio \/ (radio = "scanning" /\ radio' = "initiating")
  BY <1>1, <1>2, <1>3 DEF Heard, Issued, LinkInv
<1>4. CASE /\ events # << >> /\ events' = Tail(events)
           /\ connection' = IF Head(events).kind = "opened" THEN Head(events).val
                            ELSE connection
           /\ radio' = IF Head(events).kind = "closed" THEN "scanning" ELSE radio
           /\ awaiting' = IF Head(events).kind = "indication" /\ Confirms THEN None
                          ELSE awaiting
  <2>1. radio = "idle"
    BY <1>4 DEF LinkInv
  <2>2. Head(events).kind = "closed" => link = 0 /\ events' = << >>
    <3>1. Head(events).kind = "closed" => Len(Tail(events)) = 0
      BY <1>4, QueueFacts
    <3>2. Tail(events) \in Seq(Events)
      BY <1>4, <1>t, TailFacts
    <3> QED
      BY <3>1, <3>2, <1>4, QueueFacts, NoneLeft
  <2>3. Head(events).kind = "opened" =>
          /\ Head(events).val = conns
          /\ link # 0 => indicating = {} /\ awaiting = None /\ procedure = Idle
    BY <1>4, <1>t, QueueFacts DEF LinkInv
  <2>4. link' # 0 => link' = conns' /\ radio' = "idle"
    BY <1>2, <1>4, <2>1, <2>2 DEF Heard, LinkInv
  <2>5. link' = 0 => /\ indicating' = {} /\ awaiting' = None
                     /\ procedure' = Idle /\ pairing' = "none"
    BY <1>1, <1>2, <1>4 DEF Heard, Issued, LinkInv
  <2>6. radio' # "idle" => events' = << >>
    BY <1>4, <2>1, <2>2
  <2>7. connection' <= conns'
    BY <1>2, <1>4, <1>t, <2>3 DEF Heard, LinkInv
  <2>8. indicating' # {} \/ awaiting' # None \/ procedure' # Idle => connection' = link'
    <3>1. CASE link = 0
      BY <3>1, <1>2, <2>5 DEF Heard
    <3>2. CASE link # 0 /\ Head(events).kind = "opened"
      BY <3>2, <1>1, <1>2, <1>4, <2>3 DEF Heard, Issued, LinkInv
    <3>3. CASE Head(events).kind # "opened"
      BY <3>3, <1>1, <1>2, <1>4 DEF Heard, Issued, LinkInv
    <3> QED
      BY <3>1, <3>2, <3>3
  <2> QED
    BY <2>4, <2>5, <2>6, <2>7, <2>8 DEF LinkInv
<1> QED
  BY <1>2, <1>3, <1>4 DEF Heard

\* What is posted and what is indicated.
LEMMA ServedQueue == IInv /\ Served => QueueInv' /\ HandleInv'
<1> SUFFICES ASSUME IInv, Served
             PROVE  QueueInv' /\ HandleInv'
  OBVIOUS
<1> USE DEF IInv
<1>1. Issued
  BY DEF Served, Ran
<1>2. Heard
  BY DEF Served
<1>t. events \in Seq(Events)
  BY DEF TypeOK
<1>3. /\ handles \subseteq handles' /\ indicating' = indicating
      /\ link' = link /\ conns' = conns
  BY <1>2 DEF Heard
<1>4. /\ indicating' \subseteq handles'
      /\ procedure'.op = "indication" /\ procedure'.known => procedure'.char \in handles'
  BY <1>1, <1>3 DEF Issued, Sound, HandleInv
<1>5. CASE UNCHANGED <<events, connection, handles, awaiting>>
  BY <1>3, <1>4, <1>5 DEF QueueInv, HandleInv
<1>6. CASE /\ events # << >> /\ events' = Tail(events)
           /\ connection' = IF Head(events).kind = "opened" THEN Head(events).val
                            ELSE connection
           /\ awaiting' = IF Head(events).kind = "indication" /\ Confirms THEN None
                          ELSE awaiting
  <2> DEFINE n == Len(events)
  <2>1. /\ n \in Nat /\ n >= 1
        /\ DOMAIN events = 1 .. n
        /\ DOMAIN events' = 1 .. (n - 1)
        /\ Len(events') = n - 1
        /\ \A i \in 1 .. (n - 1) : events'[i] = events[i + 1]
        /\ Head(events) = events[1]
    BY <1>6, QueueFacts
  <2>2. QueueInv'
    <3> SUFFICES ASSUME NEW i \in 1 .. (n - 1)
                 PROVE  /\ events'[i].kind = "closed" => i = Len(events') /\ link' = 0
                        /\ events'[i].kind = "opened" =>
                             i = 1 /\ events'[i].val = conns' /\ connection' # conns'
                        /\ events'[i].kind = "indication" => events'[i].char \in handles'
      BY <2>1 DEF QueueInv
    <3>1. events'[i] = events[i + 1]
      BY <2>1
    <3> HIDE DEF n
    <3>2. i + 1 \in 1 .. n /\ i + 1 # 1
      BY <2>1
    <3>3. /\ events[i + 1].kind = "closed" => i + 1 = n /\ link = 0
          /\ events[i + 1].kind = "opened" => i + 1 = 1
          /\ events[i + 1].kind = "indication" => events[i + 1].char \in handles
      BY <2>1, <3>2 DEF QueueInv, n
    <3>4. i + 1 = n => i = Len(events')
      BY <2>1
    <3> QED
      BY <1>3, <3>1, <3>2, <3>3, <3>4
  <2>3. awaiting' # None => \E i \in DOMAIN events' : events'[i].kind = "indication"
    <3> SUFFICES ASSUME awaiting' # None
                 PROVE  \E i \in DOMAIN events' : events'[i].kind = "indication"
      OBVIOUS
    <3>1. awaiting # None /\ ~(Head(events).kind = "indication" /\ Confirms)
      BY <1>6
    <3>2. connection = link /\ link # 0
      BY <3>1 DEF LinkInv
    <3>3. Head(events).kind # "indication"
      BY <3>1, <3>2, <1>6, QueueFacts DEF Confirms
    <3>4. PICK k \in DOMAIN events : events[k].kind = "indication"
      BY <3>1 DEF HandleInv
    <3>5. k # 1
      BY <3>3, <3>4, <2>1
    <3>6. k \in 1 .. n
      BY <2>1
    <3> HIDE DEF n
    <3>7. k - 1 \in 1 .. (n - 1) /\ (k - 1) + 1 = k
      BY <3>5, <3>6, <2>1
    <3>8. events'[k - 1] = events[k]
      BY <3>7, <2>1
    <3> QED
      BY <3>4, <3>7, <3>8, <2>1
  <2> QED
    BY <1>4, <2>2, <2>3 DEF HandleInv
<1> QED
  BY <1>2, <1>5, <1>6 DEF Heard
-----------------------------------------------------------------------------
(* The invariant, over a step of the stack, the server and the user.       *)

\* What no such step touches.
Aside == UNCHANGED <<currentste, book, gesture_val, prev_ambient, moves, refused,
                     bleVars>>

\* An event of the link that is up, neither its opening nor its closing.
Speaks(e) ==
  /\ e \in Events
  /\ e.kind \notin {"opened", "closed"}
  /\ e.kind = "indication" => e.char \in handles

\* The stack or the server has something to say over the link.
Told(es) ==
  /\ Aside
  /\ link # 0
  /\ events' = events \o es
  /\ es \in Seq(Events)
  /\ \A k \in DOMAIN es : Speaks(es[k])
  /\ UNCHANGED <<link, conns, radio, presses, signals>>
  /\ indicating' \subseteq handles
  /\ pairing' \in {"none", "requested", "passkey", "confirmed", "bonded"}
  /\ values' \in Nat
  /\ procedure' \in {procedure, Idle}
  /\ indicating' # indicating => connection = link
  /\ \/ awaiting' = awaiting
     \/ /\ awaiting' \in Chars /\ connection = link
        /\ es # << >> /\ es[1].kind = "indication"

\* The queue once it is told.
LEMMA ToldQueue ==
  ASSUME TypeOK, NEW es, Told(es)
  PROVE  /\ Len(events) \in Nat /\ Len(es) \in Nat
         /\ DOMAIN events = 1 .. Len(events)
         /\ DOMAIN events' = 1 .. (Len(events) + Len(es))
         /\ events' \in Seq(Events)
         /\ \A i \in 1 .. Len(events) : events'[i] = events[i]
         /\ \A i \in DOMAIN events' : i \notin 1 .. Len(events) => Speaks(events'[i])
         /\ es # << >> => /\ Len(events) + 1 \in DOMAIN events'
                          /\ events'[Len(events) + 1] = es[1]
<1>1. events \in Seq(Events) /\ es \in Seq(Events) /\ events' = events \o es
  BY DEF TypeOK, Told
<1> DEFINE q == events
<1>2. q \in Seq(Events) /\ es \in Seq(Events) /\ events' = q \o es
  BY <1>1
<1> HIDE DEF q
<1>3. /\ q \o es \in Seq(Events)
      /\ Len(q) \in Nat /\ Len(es) \in Nat
      /\ DOMAIN q = 1 .. Len(q) /\ DOMAIN es = 1 .. Len(es)
      /\ DOMAIN (q \o es) = 1 .. (Len(q) + Len(es))
      /\ \A i \in 1 .. Len(q) : (q \o es)[i] = q[i]
      /\ \A i \in 1 .. Len(es) : (q \o es)[Len(q) + i] = es[i]
  BY <1>2, ConcatFacts
<1>4. ASSUME NEW i \in DOMAIN (q \o es), i \notin 1 .. Len(q)
      PROVE  Speaks((q \o es)[i])
  <2> DEFINE k == i - Len(q)
  <2>1. k \in 1 .. Len(es) /\ Len(q) + k = i
    BY <1>3, <1>4
  <2>2. (q \o es)[i] = es[k]
    BY <1>3, <2>1
  <2> HIDE DEF k
  <2>3. Speaks(es[k])
    BY <1>3, <2>1 DEF Told
  <2> QED
    BY <2>2, <2>3
<1>5. es # << >> => /\ Len(q) + 1 \in DOMAIN (q \o es)
                    /\ (q \o es)[Len(q) + 1] = es[1]
  <2>1. es # << >> => Len(es) # 0
    BY <1>2, NoneLeft
  <2>2. es # << >> => 1 \in 1 .. Len(es) /\ Len(q) + 1 \in 1 .. (Len(q) + Len(es))
    BY <1>3, <2>1
  <2> QED
    BY <1>3, <2>2
<1> QED
  BY <1>2, <1>3, <1>4, <1>5 DEF q

\* Being told keeps the invariant.
LEMMA ToldKeeps ==
  ASSUME IInv, NEW es, Told(es)
  PROVE  IInv'
<1> USE DEF IInv
<1>1. TypeOK'
  BY ToldQueue DEF Told, Aside, bleVars, TypeOK
<1>2. NoRepeat'
  BY DEF Told, Aside, bleVars, NoRepeat
<1>3. /\ link' = link /\ link # 0 /\ conns' = conns /\ radio' = radio /\ radio = "idle"
      /\ connection' = connection /\ handles' = handles
  BY DEF Told, Aside, bleVars, LinkInv
<1>4. LinkInv'
  BY <1>3 DEF Told, LinkInv
<1>5. QueueInv'
  <2> SUFFICES ASSUME NEW i \in DOMAIN events'
               PROVE  /\ events'[i].kind = "closed" => i = Len(events') /\ link' = 0
                      /\ events'[i].kind = "opened" =>
                           i = 1 /\ events'[i].val = conns' /\ connection' # conns'
                      /\ events'[i].kind = "indication" => events'[i].char \in handles'
    BY DEF QueueInv
  <2>1. CASE i \in 1 .. Len(events)
    <3>1. events'[i] = events[i] /\ i \in DOMAIN events
      BY <2>1, ToldQueue
    <3> QED
      BY <3>1, <1>3 DEF QueueInv
  <2>2. CASE i \notin 1 .. Len(events)
    <3>1. Speaks(events'[i])
      BY <2>2, ToldQueue
    <3> QED
      BY <3>1, <1>3 DEF Speaks
  <2> QED
    BY <2>1, <2>2
<1>6. HandleInv'
  <2>1. /\ indicating' \subseteq handles'
        /\ procedure'.op = "indication" /\ procedure'.known => procedure'.char \in handles'
    BY <1>3 DEF Told, HandleInv, Idle, Command
  <2>2. ASSUME awaiting' # None
        PROVE  \E i \in DOMAIN events' : events'[i].kind = "indication"
    <3>1. CASE awaiting' = awaiting
      <4>1. PICK i \in DOMAIN events : events[i].kind = "indication"
        BY <2>2, <3>1 DEF HandleInv
      <4>2. i \in 1 .. Len(events) /\ events'[i] = events[i]
        BY <4>1, ToldQueue
      <4>3. i \in DOMAIN events'
        BY <4>2, ToldQueue
      <4> QED
        BY <4>1, <4>2, <4>3
    <3>2. CASE es # << >> /\ es[1].kind = "indication"
      BY <3>2, ToldQueue
    <3> QED
      BY <3>1, <3>2 DEF Told
  <2> QED
    BY <2>1, <2>2 DEF HandleInv
<1> QED
  BY <1>1, <1>2, <1>4, <1>5, <1>6

\* One event, or two, make a message.
LEMMA Messages ==
  ASSUME NEW a, NEW b, Speaks(a), Speaks(b)
  PROVE  /\ <<a>> \in Seq(Events) /\ (\A k \in DOMAIN <<a>> : Speaks(<<a>>[k]))
         /\ <<a, b>> \in Seq(Events) /\ (\A k \in DOMAIN <<a, b>> : Speaks(<<a, b>>[k]))
         /\ <<a>> # << >> /\ <<a>>[1] = a
<1>1. a \in Events /\ b \in Events
  BY DEF Speaks
<1>2. /\ DOMAIN <<a>> = {1} /\ <<a>>[1] = a
      /\ DOMAIN <<a, b>> = {1, 2} /\ <<a, b>>[1] = a /\ <<a, b>>[2] = b
  OBVIOUS
<1>3. <<a>> \in Seq(Events) /\ <<a, b>> \in Seq(Events) /\ <<a>> # << >>
  BY <1>1
<1> QED
  BY <1>2, <1>3

\* Events of a kind that says nothing of the server's characteristics.
LEMMA Speaking ==
  ASSUME NEW kind \in EventKinds \ {"opened", "closed", "indication"},
         NEW c \in Chars \cup {None}, NEW val \in Nat,
         kind \in Found => c \in Chars
  PROVE  Speaks(Event(kind, c, val))
BY EventTyped DEF Speaks

\* The stack tells how far the pairing is.
LEMMA PairingKeeps ==
  ASSUME IInv, NEW kind \in {"confirm_passkey", "bonded", "bonding_failed"},
         pairing # "none",
         pairing' \in {"none", "passkey", "bonded"},
         Post(<<Event(kind, None, link)>>),
         UNCHANGED <<machineVars, bleVars, linkVars, serverVars, signals, presses>>
  PROVE  IInv'
<1> DEFINE e == Event(kind, None, link)
<1>1. link # 0 /\ link \in Nat /\ indicating \subseteq handles /\ values \in Nat
  BY DEF IInv, TypeOK, LinkInv, HandleInv
<1>2. Speaks(e)
  BY <1>1, Speaking DEF EventKinds, Found
<1>3. events' = events \o <<e>>
  BY DEF Post
<1> HIDE DEF e
<1>4. <<e>> \in Seq(Events) /\ \A k \in DOMAIN <<e>> : Speaks(<<e>>[k])
  BY <1>2, Messages
<1>5. Told(<<e>>)
  BY <1>1, <1>3, <1>4 DEF Told, Aside, machineVars, linkVars, serverVars
<1> QED
  BY <1>5, ToldKeeps

\* A connection is made while none is up and nothing is posted.
LEMMA ConnectKeeps == IInv /\ Connect => IInv'
<1> SUFFICES ASSUME IInv, Connect
             PROVE  IInv'
  OBVIOUS
<1> USE DEF IInv
<1> DEFINE e == Event("opened", None, conns + 1)
<1>1. /\ radio = "initiating" /\ radio' = "idle"
      /\ conns' = conns + 1 /\ link' = conns + 1
      /\ events' = events \o <<e>>
      /\ UNCHANGED <<machineVars, bleVars, serverVars, pairing, signals, presses>>
  BY DEF Connect, Post
<1>2. conns \in Nat /\ connection \in Nat /\ connection <= conns
  BY DEF TypeOK, LinkInv
<1>3. /\ events = << >> /\ link = 0
      /\ indicating = {} /\ awaiting = None /\ procedure = Idle /\ pairing = "none"
  BY <1>1 DEF LinkInv
<1>4. e \in Events /\ e.kind = "opened" /\ e.val = conns + 1
  BY <1>2, EventTyped DEF EventKinds, Found
<1> HIDE DEF e
<1>5. events' = <<e>>
  BY <1>1, <1>3
<1>6. /\ events' \in Seq(Events) /\ DOMAIN events' = {1} /\ events'[1] = e
  BY <1>4, <1>5
<1>7. TypeOK'
  BY <1>1, <1>2, <1>6 DEF TypeOK, machineVars, bleVars, serverVars
<1>8. NoRepeat'
  BY <1>1 DEF NoRepeat, machineVars, bleVars
<1>9. LinkInv'
  <2>1. connection' = connection /\ connection <= conns + 1
    BY <1>1, <1>2 DEF bleVars
  <2>2. link' = conns' /\ link' # 0 /\ radio' = "idle" /\ connection' <= conns'
    BY <1>1, <1>2, <2>1
  <2> QED
    BY <1>1, <1>3, <2>2 DEF LinkInv, machineVars, serverVars
<1>10. QueueInv'
  <2>1. connection' # conns' /\ events'[1].val = conns'
    BY <1>1, <1>2, <1>4, <1>6 DEF bleVars
  <2> QED
    BY <1>4, <1>6, <2>1 DEF QueueInv
<1>11. HandleInv'
  BY <1>1, <1>3 DEF HandleInv, machineVars, bleVars, serverVars, Idle, Command
<1> QED
  BY <1>7, <1>8, <1>9, <1>10, <1>11

\* A connection is lost: nothing is posted after that.
LEMMA DisconnectKeeps == IInv /\ Disconnect => IInv'
<1> SUFFICES ASSUME IInv, Disconnect
             PROVE  IInv'
  OBVIOUS
<1> USE DEF IInv
<1> DEFINE e == Event("closed", None, link)
           q == events
<1>1. /\ link # 0 /\ link' = 0 /\ procedure' = Idle /\ indicating' = {}
      /\ awaiting' = None /\ pairing' = "none"
      /\ events' = q \o <<e>>
      /\ UNCHANGED <<currentste, book, gesture_val, prev_ambient, moves, refused,
                     bleVars, radio, conns, values, signals, presses>>
  BY DEF Disconnect, Post
<1>2. link \in Nat /\ q \in Seq(Events) /\ radio = "idle"
  BY <1>1 DEF TypeOK, LinkInv
<1>3. e \in Events /\ e.kind = "closed"
  BY <1>2, EventTyped DEF EventKinds, Found
<1> HIDE DEF e, q
<1>4. /\ q \o <<e>> \in Seq(Events)
      /\ Len(q) \in Nat /\ DOMAIN q = 1 .. Len(q)
      /\ Len(q \o <<e>>) = Len(q) + 1
      /\ DOMAIN (q \o <<e>>) = 1 .. (Len(q) + 1)
      /\ \A i \in 1 .. Len(q) : (q \o <<e>>)[i] = q[i]
      /\ (q \o <<e>>)[Len(q) + 1] = e
  <2>1. <<e>> \in Seq(Events) /\ Len(<<e>>) = 1 /\ <<e>>[1] = e /\ 1 \in 1 .. 1
    BY <1>3
  <2> QED
    BY <1>2, <2>1, ConcatFacts
<1>5. TypeOK'
  BY <1>1, <1>4 DEF TypeOK, bleVars
<1>6. NoRepeat'
  BY <1>1 DEF NoRepeat, bleVars
<1>7. LinkInv'
  BY <1>1, <1>2 DEF LinkInv, bleVars
<1>8. QueueInv'
  <2> SUFFICES ASSUME NEW i \in DOMAIN events'
               PROVE  /\ events'[i].kind = "closed" => i = Len(events') /\ link' = 0
                      /\ events'[i].kind = "opened" =>
                           i = 1 /\ events'[i].val = conns' /\ connection' # conns'
                      /\ events'[i].kind = "indication" => events'[i].char \in handles'
    BY DEF QueueInv
  <2>1. CASE i \in 1 .. Len(q)
    <3>1. events'[i] = events[i] /\ i \in DOMAIN events
      BY <2>1, <1>1, <1>4 DEF q
    <3>2. events[i].kind # "closed"
      BY <3>1, <1>1 DEF QueueInv
    <3> QED
      BY <3>1, <3>2, <1>1 DEF QueueInv, bleVars
  <2>2. CASE i = Len(q) + 1
    <3>1. events'[i] = e /\ i = Len(events')
      BY <2>2, <1>1, <1>4
    <3> QED
      BY <3>1, <1>1, <1>3
  <2>3. i \in 1 .. (Len(q) + 1)
    BY <1>1, <1>4
  <2> QED
    BY <1>4, <2>1, <2>2, <2>3
<1>9. HandleInv'
  BY <1>1 DEF HandleInv, Idle, Command
<1> QED
  BY <1>5, <1>6, <1>7, <1>8, <1>9

\* A procedure ends, and says what it found.
LEMMA EndProcedureKeeps == IInv /\ EndProcedure => IInv'
<1> SUFFICES ASSUME IInv, EndProcedure
             PROVE  IInv'
  OBVIOUS
<1> USE DEF IInv
<1>1. /\ procedure # Idle /\ procedure' = Idle
      /\ UNCHANGED <<currentste, book, gesture_val, prev_ambient, moves, refused,
                     bleVars, linkVars, awaiting, values, signals, presses>>
      /\ pairing' = pairing
  BY DEF EndProcedure
<1>2. /\ procedure \in Commands
      /\ link # 0 /\ connection = link /\ indicating \subseteq handles
      /\ pairing \in {"none", "requested", "passkey", "confirmed", "bonded"}
      /\ values \in Nat
  BY <1>1 DEF TypeOK, LinkInv, HandleInv
<1> DEFINE c == procedure.char
<1>3. c \in Chars /\ (procedure.op = "indication" /\ procedure.known => c \in handles)
  BY <1>2 DEF Commands, HandleInv
<1>4. ASSUME NEW es \in Seq(Events), \A k \in DOMAIN es : Speaks(es[k]),
             events' = events \o es, indicating' \subseteq handles
      PROVE  IInv'
  <2>1. Told(es)
    BY <1>1, <1>2, <1>4 DEF Told, Aside, linkVars
  <2> QED
    BY <2>1, ToldKeeps
<1>5. \A kind \in EventKinds \ {"opened", "closed", "indication"} : Speaks(Result(kind))
  BY <1>3, Speaking DEF Result
<1> HIDE DEF c
<1>6. CASE /\ Post(<<Result("failed")>>)
           /\ UNCHANGED indicating
  BY <1>2, <1>4, <1>5, <1>6, Messages DEF Post, EventKinds
<1>7. CASE /\ procedure.op \in {"service", "characteristic"}
           /\ Post(<<Result(procedure.op), Result("completed")>>)
           /\ UNCHANGED indicating
  <2>1. Speaks(Result(procedure.op)) /\ Speaks(Result("completed"))
    BY <1>5, <1>7 DEF EventKinds
  <2> QED
    BY <1>2, <1>4, <1>7, <2>1, Messages DEF Post
<1>8. CASE /\ procedure.known /\ procedure.op = "indication"
           /\ indicating' = indicating \cup {procedure.char}
           /\ Post(<<Result("completed")>>)
  <2>1. indicating' \subseteq handles
    BY <1>2, <1>3, <1>8 DEF c
  <2> DEFINE a == Result("completed")
  <2>2. Speaks(a)
    BY <1>5 DEF EventKinds
  <2>3. events' = events \o <<a>>
    BY <1>8 DEF Post
  <2> HIDE DEF a
  <2>4. <<a>> \in Seq(Events) /\ \A k \in DOMAIN <<a>> : Speaks(<<a>>[k])
    BY <2>2, Messages
  <2> QED
    BY <1>4, <2>1, <2>3, <2>4
<1>9. CASE /\ indicating' = indicating \ {procedure.char}
           /\ Post(<<Result("completed")>>)
  BY <1>2, <1>4, <1>5, <1>9, Messages DEF Post, EventKinds
<1>10. CASE /\ \E g \in Gestures \cup {0} :
                 Post(<<Event("read_response", Gesture, g), Result("completed")>>)
            /\ UNCHANGED indicating
  <2>1. PICK g \in Gestures \cup {0} :
          Post(<<Event("read_response", Gesture, g), Result("completed")>>)
    BY <1>10
  <2>2. g \in Nat
    BY ValueAssumption
  <2> DEFINE a == Event("read_response", Gesture, g)
             b == Result("completed")
  <2>3. Speaks(a) /\ Speaks(b)
    BY <1>5, <2>2, Speaking DEF EventKinds, Chars
  <2>4. events' = events \o <<a, b>>
    BY <2>1 DEF Post
  <2> HIDE DEF a, b
  <2>5. <<a, b>> \in Seq(Events) /\ \A k \in DOMAIN <<a, b>> : Speaks(<<a, b>>[k])
    BY <2>3, Messages
  <2> QED
    BY <1>2, <1>4, <1>10, <2>4, <2>5
<1>11. CASE /\ Post(<<Result("unencrypted")>>)
            /\ UNCHANGED indicating
  BY <1>2, <1>4, <1>5, <1>11, Messages DEF Post, EventKinds
<1> QED
  BY <1>6, <1>7, <1>8, <1>9, <1>10, <1>11 DEF EndProcedure

\* The server indicates a characteristic whose handle the program knows.
LEMMA IndicateKeeps ==
  ASSUME IInv, NEW c \in Chars, NEW v \in Nat, Indicate(c, v)
  PROVE  IInv'
<1> USE DEF IInv
<1> DEFINE e == Event("indication", c, v)
<1>1. /\ link # 0 /\ c \in indicating /\ awaiting' = c /\ values' = values + 1
      /\ events' = events \o <<e>>
      /\ UNCHANGED <<machineVars, bleVars, linkVars, indicating, pairing, signals,
                     presses>>
  BY DEF Indicate, Post
<1>2. /\ connection = link /\ indicating \subseteq handles /\ c \in handles
      /\ values' \in Nat
      /\ pairing \in {"none", "requested", "passkey", "confirmed", "bonded"}
  BY <1>1 DEF LinkInv, HandleInv, TypeOK
<1>3. Speaks(e) /\ e.kind = "indication"
  BY <1>2, EventTyped DEF EventKinds, Speaks, Found
<1> HIDE DEF e
<1>4. /\ <<e>> \in Seq(Events) /\ (\A k \in DOMAIN <<e>> : Speaks(<<e>>[k]))
      /\ <<e>> # << >> /\ <<e>>[1].kind = "indication"
  BY <1>3, Messages
<1>5. Told(<<e>>)
  BY <1>1, <1>2, <1>4 DEF Told, Aside, machineVars, linkVars
<1> QED
  BY <1>5, ToldKeeps

\* Any step of the environment.
LEMMA EnvironmentKeeps == IInv /\ Environment => IInv'
<1> SUFFICES ASSUME IInv, Environment
             PROVE  IInv'
  OBVIOUS
<1>1. ASSUME NEW v \in Readings, Indicate(Light, v)
      PROVE  IInv'
  BY <1>1, IndicateKeeps, ValueAssumption DEF Chars
<1>2. ASSUME NEW v \in Gestures, Indicate(Gesture, v)
      PROVE  IInv'
  BY <1>2, IndicateKeeps, ValueAssumption DEF Chars
<1>3. CASE ShowPasskey
  BY <1>3, PairingKeeps DEF ShowPasskey
<1>4. CASE Bond
  BY <1>4, PairingKeeps DEF Bond
<1>5. CASE FailPairing
  BY <1>5, PairingKeeps DEF FailPairing
<1>6. ASSUME NEW button \in {PB0, PB1}, Press(button)
      PROVE  IInv'
  <2>1. signals' \in {{}, PB0, PB1}
    BY <1>6 DEF IInv, TypeOK, Press, PB0, PB1
  <2>2. presses' \in Nat
    BY <1>6 DEF IInv, TypeOK, Press
  <2>3. UNCHANGED <<machineVars, bleVars, linkVars, serverVars, pairing, events>>
    BY <1>6 DEF Press
  <2>4. TypeOK'
    BY <2>1, <2>2, <2>3 DEF IInv, TypeOK, machineVars, bleVars, linkVars, serverVars
  <2> QED
    BY <2>3, <2>4 DEF IInv, LinkInv, QueueInv, HandleInv, NoRepeat, machineVars,
                      bleVars, linkVars, serverVars
<1> QED
  BY <1>1, <1>2, <1>3, <1>4, <1>5, <1>6, ConnectKeeps, DisconnectKeeps,
     EndProcedureKeeps DEF Environment
-----------------------------------------------------------------------------
(* The invariant.                                                          *)

\* The program boots into the invariant.
LEMMA InitInv == Init => IInv
<1> SUFFICES ASSUME Init
             PROVE  IInv
  OBVIOUS
<1>1. TypeOK
  <2>1. events \in Seq(Events) /\ signals \in {{}, PB0, PB1}
    BY DEF Init
  <2>2. currentste \in DOMAIN Plan
    BY DEF Init, Plan
  <2>3. procedure \in Commands \cup {Idle}
    BY DEF Init
  <2>4. book \in BOOLEAN
    BY Zenon DEF Init
  <2> QED
    BY <2>1, <2>2, <2>3, <2>4 DEF Init, TypeOK
<1> QED
  BY <1>1 DEF Init, IInv, LinkInv, QueueInv, HandleInv, NoRepeat, Idle, Command

\* Every step of the client and of what is around it keeps the invariant.
LEMMA NextInv == IInv /\ [Next]_vars => IInv'
<1> SUFFICES ASSUME IInv, [Next]_vars
             PROVE  IInv'
  OBVIOUS
<1>1. CASE Application
  <2>1. Served
    BY <1>1, ApplicationServed
  <2> QED
    BY <2>1, ServedTypes, ServedOnce, ServedLink, ServedQueue DEF IInv
<1>2. CASE Environment
  BY <1>2, EnvironmentKeeps
<1>3. CASE UNCHANGED vars
  BY <1>3 DEF IInv, TypeOK, LinkInv, QueueInv, HandleInv, NoRepeat, vars, machineVars,
              bleVars, linkVars, serverVars
<1> QED
  BY <1>1, <1>2, <1>3 DEF Next
-----------------------------------------------------------------------------
(* Discovery, on the first link and while no command was refused: either   *)
(* a service or a characteristic is sought, and the machine's command runs *)
(* or its answer waits, or all handles are known and only the descriptors  *)
(* are left to be written.                                                 *)

\* The program has not handled the opening of a connection.
Fresh ==
  /\ currentste = "OPEN_S1"
  /\ services = {} /\ handles = {}
  /\ pairing = "none"
  /\ \A i \in DOMAIN events : events[i].kind \in {"opened", "closed"}

\* What each state waits for.
Sought ==
  [OPEN_S2            |-> [op |-> "service", char |-> Light],
   CHARACTERISTICS_S1 |-> [op |-> "service", char |-> Gesture],
   CHARACTERISTICS_S2 |-> [op |-> "characteristic", char |-> Light],
   NOTIFY_S1          |-> [op |-> "characteristic", char |-> Gesture]]

Answers == {"service", "characteristic", "completed"}

\* What was found before, and whether what is sought was.
FoundBefore ==
  /\ currentste # "OPEN_S2" => Light \in services
  /\ currentste \in {"CHARACTERISTICS_S2", "NOTIFY_S1"} => Gesture \in services
  /\ currentste = "NOTIFY_S1" => Light \in handles
FoundNow ==
  \/ Sought[currentste].op = "service" /\ Sought[currentste].char \in services
  \/ Sought[currentste].op = "characteristic" /\ Sought[currentste].char \in handles

\* The event that says it.
Tells(e) == e.kind = Sought[currentste].op /\ e.char = Sought[currentste].char

\* The command runs, or its completion waits and what it found is known or
\* waits before it.
Asking ==
  /\ procedure = Command(Sought[currentste].op, Sought[currentste].char, TRUE)
  /\ \A i \in DOMAIN events : events[i].kind \notin Answers
Answered ==
  /\ procedure \in {Idle, Command("read", Gesture, FALSE)}
  /\ \E k \in DOMAIN events :
       /\ events[k].kind = "completed"
       /\ ~FoundNow => \E j \in DOMAIN events : j < k /\ Tells(events[j])
       /\ \A j \in DOMAIN events :
            events[j].kind \in Answers /\ j # k => j < k /\ Tells(events[j])

\* The gesture's handle comes last.
Seeking ==
  /\ currentste \in DOMAIN Sought
  /\ Gesture \notin handles
  /\ FoundBefore
  /\ Asking \/ Answered

Reading == procedure.op \in {"none", "read"}
Enabling(c) == procedure = Command("indication", c, TRUE)
Disabling == procedure = Command("disable", Gesture, TRUE)
Lit == prev_ambient >= LightThreshold

\* A descriptor that the machine asked to be written is, or is being, written.
Subscribing ==
  /\ handles = Chars
  /\ currentste \in {"NOTIFY_S1", "NOTIFY_S2", "INITLCD", "UPDATELCD"}
  /\ currentste = "NOTIFY_S1" => Reading
  /\ currentste = "NOTIFY_S2" => Enabling(Light) \/ (Reading /\ Light \in indicating)
  /\ currentste \in {"INITLCD", "UPDATELCD"} =>
       /\ Light \in indicating
       /\ \/ Enabling(Gesture) /\ Lit
          \/ Disabling /\ ~Lit
          \/ Reading /\ (Gesture \in indicating <=> Lit)

OnCourse == connection = 1 /\ link = 1 /\ refused = {}

SubInv ==
  /\ currentste # "UPDATELCD" => Lit
  /\ connection = 0 => Fresh
  /\ OnCourse => Seeking \/ Subscribing

\* The machine has one command of its own to issue, and the stack takes it.
Starts(op, c) == procedure = Idle /\ procedure' = Command(op, c, Known(op, c))

\* What the machine does while none of its commands is refused.
Proceeds(kind, first) ==
  \/ /\ Discovers(kind)
     /\ currentste' = Plan[currentste].next
     /\ Starts(Plan[currentste].op, Plan[currentste].char)
     /\ prev_ambient' = prev_ambient
  \/ /\ ~Discovers(kind)
     /\ currentste' = currentste \/ (currentste = "INITLCD" /\ currentste' = "UPDATELCD")
     /\ prev_ambient' = prev_ambient
     /\ procedure' = procedure \/ (procedure = Idle /\ first # << >> /\ procedure' = first[1])
  \/ /\ currentste = "UPDATELCD" /\ currentste' = "UPDATELCD"
     /\ \/ Starts("disable", Gesture) /\ ~Lit'
        \/ Starts("indication", Gesture) /\ Lit'

\* One command of the machine's own, on its own or after a button's.
LEMMA IssueOne ==
  ASSUME NEW first, NEW cmd, first = << >> \/ \E c : first = <<c>>,
         Issue(first, <<cmd>>), refused' = {}
  PROVE  procedure = Idle /\ procedure' = cmd /\ refused = {}
<1>1. <<cmd>> # << >>
  OBVIOUS
<1>2. /\ link # 0 /\ connection' = link
      /\ procedure = Idle /\ first = << >>
      /\ refused = {}
  BY <1>1 DEF Issue
<1>3. (first \o <<cmd>>) = <<cmd>>
  BY <1>2
<1> QED
  BY <1>1, <1>2, <1>3 DEF Issue

\* No command of the machine's own.
LEMMA IssueNone ==
  ASSUME NEW first, first = << >> \/ \E c : first = <<c>>,
         Issue(first, << >>)
  PROVE  /\ procedure' = procedure \/ (procedure = Idle /\ first # << >> /\ procedure' = first[1])
         /\ refused' = refused
<1>1. first \o << >> = first
  OBVIOUS
<1> QED
  BY <1>1 DEF Issue

\* The machine proceeds.
LEMMA MachineProceeds ==
  ASSUME TypeOK, NEW kind, NEW g, NEW first, first = << >> \/ \E c : first = <<c>>,
         ambient_lt_val' \in Nat,
         discovery_state_machine(kind, g, first), refused' = {}
  PROVE  Proceeds(kind, first) /\ refused = {}
<1>1. CASE /\ Discovers(kind)
           /\ LET s == Plan[currentste]
              IN  /\ currentste' = s.next
                  /\ Issue(first, <<Command(s.op, s.char, Known(s.op, s.char))>>)
           /\ gesture_val' = g
           /\ UNCHANGED <<book, prev_ambient, moves>>
  <2> DEFINE cmd == Command(Plan[currentste].op, Plan[currentste].char,
                            Known(Plan[currentste].op, Plan[currentste].char))
  <2>1. Issue(first, <<cmd>>)
    BY <1>1
  <2> HIDE DEF cmd
  <2>2. procedure = Idle /\ procedure' = cmd /\ refused = {}
    BY <2>1, IssueOne
  <2> QED
    BY <1>1, <2>2 DEF cmd, Proceeds, Starts
<1>2. CASE /\ currentste = "INITLCD" /\ currentste' = "UPDATELCD"
           /\ Issue(first, << >>)
           /\ UNCHANGED <<prev_ambient, moves>>
  <2>1. ~Discovers(kind)
    BY <1>2 DEF Discovers, Plan
  <2> QED
    BY <1>2, <2>1, IssueNone DEF Proceeds
<1>3. CASE /\ currentste = "UPDATELCD" /\ (Darkens \/ Lightens)
           /\ Follow(IF Darkens THEN "disable" ELSE "indication", first)
           /\ gesture_val' = g
           /\ UNCHANGED <<currentste, moves>>
  <2>1. ASSUME NEW op, Follow(op, first)
        PROVE  Starts(op, Gesture) /\ prev_ambient' = ambient_lt_val' /\ refused = {}
    <3> DEFINE cmd == Command(op, Gesture, Known(op, Gesture))
    <3>1. Issue(first, <<cmd>>) /\ prev_ambient' = ambient_lt_val'
      BY <2>1 DEF Follow
    <3> HIDE DEF cmd
    <3>2. procedure = Idle /\ procedure' = cmd /\ refused = {}
      BY <3>1, IssueOne
    <3> QED
      BY <3>1, <3>2 DEF cmd, Starts
  <2>2. CASE Darkens
    <3>1. Starts("disable", Gesture) /\ prev_ambient' = ambient_lt_val' /\ refused = {}
      BY <1>3, <2>1, <2>2
    <3>2. ~Lit'
      BY <2>2, <3>1 DEF Darkens, Lit, LightThreshold
    <3> QED
      BY <1>3, <3>1, <3>2 DEF Proceeds
  <2>3. CASE ~Darkens
    <3>1. Starts("indication", Gesture) /\ prev_ambient' = ambient_lt_val' /\ refused = {}
      BY <1>3, <2>1, <2>3
    <3>2. Lit'
      BY <1>3, <2>3, <3>1 DEF Lightens, Lit, LightThreshold
    <3> QED
      BY <1>3, <3>1, <3>2 DEF Proceeds
  <2> QED
    BY <2>2, <2>3
<1>4. CASE /\ currentste = "UPDATELCD"
           /\ Issue(first, << >>)
           /\ UNCHANGED <<currentste, prev_ambient>>
  <2>1. ~Discovers(kind)
    BY <1>4 DEF Discovers, Plan
  <2> QED
    BY <1>4, <2>1, IssueNone DEF Proceeds
<1>5. CASE /\ ~Discovers(kind)
           /\ Issue(first, << >>)
           /\ UNCHANGED <<currentste, book, prev_ambient, moves>>
  BY <1>5, IssueNone DEF Proceeds
<1> QED
  BY <1>1, <1>2, <1>3, <1>4, <1>5 DEF discovery_state_machine

\* The light that was seen last is forgotten only while pages are shown, which
\* has no end; and before a connection is opened nothing is done.
LEMMA MachineStays ==
  ASSUME NEW kind, NEW g, NEW first, discovery_state_machine(kind, g, first)
  PROVE  /\ (currentste # "UPDATELCD" => Lit) => (currentste' # "UPDATELCD" => Lit')
         /\ currentste = "OPEN_S1" /\ kind # "opened" => currentste' = "OPEN_S1"
<1>1. /\ DOMAIN Plan = {"OPEN_S1", "OPEN_S2", "CHARACTERISTICS_S1", "CHARACTERISTICS_S2",
                        "NOTIFY_S1", "NOTIFY_S2"}
  BY DEF Plan
<1>2. currentste = "UPDATELCD" => currentste' = "UPDATELCD"
  BY <1>1 DEF discovery_state_machine, Discovers
<1>3. currentste # "UPDATELCD" => prev_ambient' = prev_ambient
  BY <1>1 DEF discovery_state_machine, Discovers
<1>4. currentste = "OPEN_S1" /\ kind # "opened" => currentste' = "OPEN_S1"
  BY <1>1 DEF discovery_state_machine, Discovers
<1> QED
  BY <1>2, <1>3, <1>4 DEF Lit

\* A step of the application: an event of the stack, or another one.
Handles(kind, first) ==
  /\ \E g : discovery_state_machine(kind, g, first)
  /\ ambient_lt_val' \in Nat
  /\ first \in {<< >>, <<Command("read", Gesture, Known("read", Gesture))>>}
  /\ \/ /\ kind \notin EventKinds /\ UNCHANGED <<events, connection>>
     \/ /\ kind \in EventKinds /\ first = << >>
        /\ events # << >> /\ Head(events).kind = kind /\ events' = Tail(events)
        /\ connection' = IF kind = "opened" THEN Head(events).val ELSE connection
  /\ services' = IF kind = "service" THEN services \cup {Head(events).char} ELSE services
  /\ handles' = IF kind = "characteristic" THEN handles \cup {Head(events).char} ELSE handles
  /\ UNCHANGED <<link, conns, indicating>>
  /\ pairing = "none" /\ kind # "unencrypted" => pairing' = "none"

\* Every step of the application is one.
LEMMA ApplicationHandles ==
  IInv /\ Application => \E kind, first : Handles(kind, first)
<1> SUFFICES ASSUME IInv, Application
             PROVE  \E kind, first : Handles(kind, first)
  OBVIOUS
<1> USE DEF IInv
<1> DEFINE rd == Command("read", Gesture, Known("read", Gesture))
<1>a. ambient_lt_val \in Nat
  BY DEF TypeOK
<1>b. ambient_lt_val' \in Nat
  <2>1. Served
    BY ApplicationServed
  <2> QED
    BY <2>1 DEF Served, RestOK
<1>1. ASSUME ConnectionOpened
      PROVE  Handles("opened", << >>)
  BY <1>1, <1>b DEF ConnectionOpened, Take, Handles, EventKinds
<1>2. ASSUME ConnectionClosed
      PROVE  Handles("closed", << >>)
  BY <1>2, <1>b DEF ConnectionClosed, Take, Handles, EventKinds
<1>3. ASSUME ServiceFound
      PROVE  Handles("service", << >>)
  BY <1>3, <1>b DEF ServiceFound, Take, Handles, EventKinds
<1>4. ASSUME CharacteristicFound
      PROVE  Handles("characteristic", << >>)
  BY <1>4, <1>b DEF CharacteristicFound, Take, Handles, EventKinds
<1>5. ASSUME LightValue
      PROVE  Handles("indication", << >>)
  BY <1>5, <1>b DEF LightValue, Take, Handles, EventKinds
<1>6. ASSUME NEW kind \in {"indication", "read_response"}, GestureValue(kind)
      PROVE  Handles(kind, << >>)
  BY <1>6, <1>b DEF GestureValue, Take, Handles, EventKinds
<1>7. ASSUME NEW kind \in {"completed", "failed"}, ProcedureCompleted(kind)
      PROVE  Handles(kind, << >>)
  BY <1>7, <1>b DEF ProcedureCompleted, Take, Handles, EventKinds, bleVars
<1>8. ASSUME IncreaseSecurity
      PROVE  Handles("unencrypted", << >>)
  BY <1>8, <1>b DEF IncreaseSecurity, Take, Handles, EventKinds, bleVars
<1>9. ASSUME ConfirmPasskey
      PROVE  Handles("confirm_passkey", << >>)
  BY <1>9, <1>b DEF ConfirmPasskey, Take, Handles, EventKinds
<1>10. ASSUME BondingFailed
       PROVE  Handles("bonding_failed", << >>)
  BY <1>10, <1>b DEF BondingFailed, Take, Handles, EventKinds
<1>11. ASSUME Bonded
       PROVE  Handles("bonded", << >>)
  BY <1>11, <1>b DEF Bonded, Take, Handles, EventKinds, bleVars
<1>12. ASSUME ScanReport
       PROVE  Handles("scan_report", << >>)
  BY <1>12, <1>b DEF ScanReport, Handles, EventKinds, bleVars, serverVars
<1>13. ASSUME SoftTimer
       PROVE  Handles("soft_timer", << >>)
  BY <1>13, <1>b DEF SoftTimer, Handles, EventKinds, bleVars, linkVars, serverVars
<1>14. ASSUME ReadButton
       PROVE  \E first : Handles("external_signal", first)
  <2>1. UNCHANGED <<bleVars, pairing>> /\ (Signal(<<rd>>) \/ Signal(<< >>))
    BY <1>14 DEF ReadButton
  <2>2. ASSUME NEW first \in {<< >>, <<rd>>}, Signal(first)
        PROVE  Handles("external_signal", first)
    BY <2>1, <2>2, <1>b DEF Signal, Handles, EventKinds, bleVars, linkVars, serverVars
  <2> QED
    BY <2>1, <2>2
<1>15. ASSUME ConfirmButton
       PROVE  Handles("external_signal", << >>)
  BY <1>15, <1>b DEF ConfirmButton, Signal, Handles, EventKinds, linkVars, serverVars
<1> HIDE DEF IInv
<1> QED
  BY <1>1, <1>2, <1>3, <1>4, <1>5, <1>6, <1>7, <1>8, <1>9, <1>10, <1>11, <1>12, <1>13,
     <1>14, <1>15 DEF Application, HandlePosted

\* The state the machine waits in.
LEMMA SoughtFacts ==
  /\ DOMAIN Sought = {"OPEN_S2", "CHARACTERISTICS_S1", "CHARACTERISTICS_S2", "NOTIFY_S1"}
  /\ DOMAIN Plan = {"OPEN_S1", "OPEN_S2", "CHARACTERISTICS_S1", "CHARACTERISTICS_S2",
                    "NOTIFY_S1", "NOTIFY_S2"}
  /\ Sought["OPEN_S2"].op = "service" /\ Sought["OPEN_S2"].char = Light
  /\ Sought["CHARACTERISTICS_S1"].op = "service" /\ Sought["CHARACTERISTICS_S1"].char = Gesture
  /\ Sought["CHARACTERISTICS_S2"].op = "characteristic" /\ Sought["CHARACTERISTICS_S2"].char = Light
  /\ Sought["NOTIFY_S1"].op = "characteristic" /\ Sought["NOTIFY_S1"].char = Gesture
  /\ Plan["OPEN_S1"].next = "OPEN_S2"
  /\ Plan["OPEN_S1"].op = "service" /\ Plan["OPEN_S1"].char = Light
  /\ Plan["OPEN_S2"].next = "CHARACTERISTICS_S1"
  /\ Plan["OPEN_S2"].op = "service" /\ Plan["OPEN_S2"].char = Gesture
  /\ Plan["CHARACTERISTICS_S1"].next = "CHARACTERISTICS_S2"
  /\ Plan["CHARACTERISTICS_S1"].op = "characteristic" /\ Plan["CHARACTERISTICS_S1"].char = Light
  /\ Plan["CHARACTERISTICS_S2"].next = "NOTIFY_S1"
  /\ Plan["CHARACTERISTICS_S2"].op = "characteristic" /\ Plan["CHARACTERISTICS_S2"].char = Gesture
  /\ Plan["NOTIFY_S1"].next = "NOTIFY_S2"
  /\ Plan["NOTIFY_S1"].op = "indication" /\ Plan["NOTIFY_S1"].char = Light
  /\ Plan["NOTIFY_S2"].next = "INITLCD"
  /\ Plan["NOTIFY_S2"].op = "indication" /\ Plan["NOTIFY_S2"].char = Gesture
BY DEF Sought, Plan, Stage

\* Commands differ from one another, and from none.
LEMMA CommandFacts ==
  \A op1, op2, c1, c2, k1, k2 :
    /\ Command(op1, c1, k1).op = op1
    /\ Command(op1, c1, k1).char = c1
    /\ Command(op1, c1, k1).known = k1
    /\ Command(op1, c1, k1) = Command(op2, c2, k2) => op1 = op2 /\ c1 = c2
    /\ Idle.op = "none"
BY DEF Command, Idle

\* What is known of a command, as a truth value.
LEMMA KnownFacts ==
  \A c :
    /\ Known("service", c) = TRUE
    /\ c \in services => Known("characteristic", c) = TRUE
    /\ \A op \in {"indication", "disable", "read"} :
         /\ c \in handles => Known(op, c) = TRUE
         /\ c \notin handles => Known(op, c) = FALSE
BY DEF Known

\* What the machine starts, by what is known.
LEMMA StartFacts ==
  \A c :
    /\ Starts("service", c) => procedure = Idle /\ procedure' = Command("service", c, TRUE)
    /\ Starts("characteristic", c) /\ c \in services =>
         procedure = Idle /\ procedure' = Command("characteristic", c, TRUE)
    /\ \A op \in {"indication", "disable"} :
         Starts(op, c) /\ c \in handles =>
           procedure = Idle /\ procedure' = Command(op, c, TRUE)
<1> TAKE c
<1>1. Starts("service", c) => procedure = Idle /\ procedure' = Command("service", c, TRUE)
  <2>1. Known("service", c) = TRUE
    BY DEF Known
  <2> QED
    BY <2>1 DEF Starts
<1>2. Starts("characteristic", c) /\ c \in services =>
        procedure = Idle /\ procedure' = Command("characteristic", c, TRUE)
  <2>1. c \in services => Known("characteristic", c) = TRUE
    BY DEF Known
  <2> QED
    BY <2>1 DEF Starts
<1>3. ASSUME NEW op \in {"indication", "disable"}, Starts(op, c), c \in handles
      PROVE  procedure = Idle /\ procedure' = Command(op, c, TRUE)
  <2>1. Known(op, c) = TRUE
    BY <1>3 DEF Known
  <2> QED
    BY <1>3, <2>1 DEF Starts
<1> QED
  BY <1>1, <1>2, <1>3

\* The opening is handled: the first service is asked for.
LEMMA OpeningAsks ==
  ASSUME IInv, SubInv, NEW first, Handles("opened", first), OnCourse'
  PROVE  Seeking'
<1> USE DEF IInv
<1>1. /\ events # << >> /\ Head(events).kind = "opened" /\ events' = Tail(events)
      /\ first = << >> /\ connection' = Head(events).val
      /\ services' = services /\ handles' = handles /\ link' = link /\ conns' = conns
      /\ ambient_lt_val' \in Nat
  BY DEF Handles, EventKinds
<1>2. connection # conns /\ conns = 1
  BY <1>1, QueueFacts DEF OnCourse
<1>3. connection = 0
  BY <1>2 DEF LinkInv, TypeOK
<1>4. Fresh /\ procedure = Idle
  BY <1>1, <1>2, <1>3 DEF SubInv, LinkInv, OnCourse
<1>5. Proceeds("opened", << >>)
  BY <1>1, MachineProceeds DEF Handles, OnCourse
<1>6. Discovers("opened")
  BY <1>4, SoughtFacts DEF Fresh, Discovers
<1>7. /\ currentste' = "OPEN_S2" /\ procedure' = Command("service", Light, TRUE)
  <2>1. currentste' = "OPEN_S2" /\ Starts("service", Light)
    BY <1>4, <1>5, <1>6, SoughtFacts DEF Fresh, Proceeds
  <2> QED
    BY <2>1, StartFacts
<1>8. ASSUME NEW i \in DOMAIN events'
      PROVE  events'[i].kind \notin Answers
  <2>1. i \in 1 .. (Len(events) - 1) /\ events'[i] = events[i + 1] /\ Len(events) \in Nat
    BY <1>1, QueueFacts
  <2>2. i + 1 \in DOMAIN events
    BY <2>1, <1>1, QueueFacts
  <2> QED
    BY <1>4, <2>1, <2>2 DEF Fresh, Answers
<1>9. Asking'
  BY <1>7, <1>8, SoughtFacts DEF Asking
<1> QED
  BY <1>1, <1>4, <1>7, <1>9, SoughtFacts DEF Seeking, FoundBefore, Fresh

\* What is sought is found, and what comes next is asked for.
LEMMA CompletionAsks ==
  ASSUME IInv, Seeking, NEW first, Handles("completed", first),
         Proceeds("completed", first)
  PROVE  Seeking'
<1> USE DEF IInv
<1>1. /\ events # << >> /\ Head(events).kind = "completed" /\ events' = Tail(events)
      /\ services' = services /\ handles' = handles
  BY DEF Handles, EventKinds
<1>2. /\ Len(events) \in Nat /\ Len(events) >= 1
      /\ DOMAIN events = 1 .. Len(events)
      /\ events[1].kind = "completed"
  BY <1>1, QueueFacts
<1>3. 1 \in DOMAIN events
  BY <1>2
<1>4. currentste \in DOMAIN Sought /\ Gesture \notin handles /\ FoundBefore
  BY DEF Seeking
<1>5. Answered
  BY <1>2, <1>3 DEF Seeking, Asking, Answers
<1>6. PICK k \in DOMAIN events :
        /\ ~FoundNow => \E j \in DOMAIN events : j < k /\ Tells(events[j])
        /\ \A j \in DOMAIN events :
             events[j].kind \in Answers /\ j # k => j < k /\ Tells(events[j])
  BY <1>5 DEF Answered
<1>7. ~Tells(events[1])
  BY <1>2, <1>4, SoughtFacts DEF Tells
<1>8. k = 1
  BY <1>2, <1>3, <1>6, <1>7 DEF Answers
<1>9. FoundNow
  BY <1>2, <1>6, <1>8
<1>10. currentste # "NOTIFY_S1"
  BY <1>4, <1>9, SoughtFacts DEF FoundNow
<1>11. Discovers("completed")
  BY <1>4, SoughtFacts DEF Discovers
<1>12. /\ currentste' = Plan[currentste].next
       /\ Starts(Plan[currentste].op, Plan[currentste].char)
  BY <1>4, <1>11, SoughtFacts DEF Proceeds
<1>13. ASSUME NEW i \in DOMAIN events'
       PROVE  events'[i].kind \notin Answers
  <2>1. i \in 1 .. (Len(events) - 1) /\ events'[i] = events[i + 1]
    BY <1>1, QueueFacts
  <2>2. i + 1 \in DOMAIN events /\ i + 1 # 1 /\ ~(i + 1 < 1)
    BY <1>2, <2>1
  <2> QED
    BY <1>6, <1>8, <2>1, <2>2
<1>14. CASE currentste = "OPEN_S2"
  <2>1. currentste' = "CHARACTERISTICS_S1" /\ procedure' = Command("service", Gesture, TRUE)
    <3>1. currentste' = "CHARACTERISTICS_S1" /\ Starts("service", Gesture)
      BY <1>12, <1>14, SoughtFacts
    <3> QED
      BY <3>1, StartFacts
  <2>2. Light \in services'
    BY <1>1, <1>9, <1>14, SoughtFacts DEF FoundNow
  <2> QED
    BY <1>1, <1>4, <1>13, <2>1, <2>2, SoughtFacts DEF Seeking, Asking, FoundBefore
<1>15. CASE currentste = "CHARACTERISTICS_S1"
  <2>1. Light \in services /\ Gesture \in services
    BY <1>4, <1>9, <1>15, SoughtFacts DEF FoundNow, FoundBefore
  <2>2. /\ currentste' = "CHARACTERISTICS_S2"
        /\ procedure' = Command("characteristic", Light, TRUE)
    <3>1. currentste' = "CHARACTERISTICS_S2" /\ Starts("characteristic", Light)
      BY <1>12, <1>15, SoughtFacts
    <3> QED
      BY <3>1, <2>1, StartFacts
  <2> QED
    BY <1>1, <1>4, <1>13, <2>1, <2>2, SoughtFacts DEF Seeking, Asking, FoundBefore
<1>16. CASE currentste = "CHARACTERISTICS_S2"
  <2>1. Light \in services /\ Gesture \in services /\ Light \in handles
    BY <1>4, <1>9, <1>16, SoughtFacts DEF FoundNow, FoundBefore
  <2>2. /\ currentste' = "NOTIFY_S1"
        /\ procedure' = Command("characteristic", Gesture, TRUE)
    <3>1. currentste' = "NOTIFY_S1" /\ Starts("characteristic", Gesture)
      BY <1>12, <1>16, SoughtFacts
    <3> QED
      BY <3>1, <2>1, StartFacts
  <2> QED
    BY <1>1, <1>4, <1>13, <2>1, <2>2, SoughtFacts DEF Seeking, Asking, FoundBefore
<1> QED
  BY <1>4, <1>10, <1>14, <1>15, <1>16, SoughtFacts

\* Nothing else disturbs the search, but that the gesture's handle ends it.
LEMMA SearchGoesOn ==
  ASSUME IInv, Seeking, NEW kind, kind \notin {"opened", "completed"}, NEW first,
         Handles(kind, first), Proceeds(kind, first)
  PROVE  Seeking' \/ Subscribing'
<1> USE DEF IInv
<1>1. /\ services \subseteq services' /\ handles \subseteq handles'
  BY DEF Handles
<1>2. currentste \in DOMAIN Sought /\ Gesture \notin handles /\ FoundBefore
  BY DEF Seeking
<1>3. ~Discovers(kind) /\ currentste \notin {"INITLCD", "UPDATELCD"}
  BY <1>2, SoughtFacts DEF Discovers
<1>4. currentste' = currentste
  BY <1>3 DEF Proceeds
<1>5. procedure' = procedure
        \/ (procedure = Idle /\ procedure' = Command("read", Gesture, FALSE))
  <2>1. first # << >> => first[1] = Command("read", Gesture, FALSE)
    <3>1. Known("read", Gesture) = FALSE
      BY <1>2, KnownFacts
    <3>2. first \in {<< >>, <<Command("read", Gesture, FALSE)>>}
      BY <3>1 DEF Handles
    <3> DEFINE rd == Command("read", Gesture, FALSE)
    <3>3. first \in {<< >>, <<rd>>}
      BY <3>2
    <3> HIDE DEF rd
    <3>4. first # << >> => first[1] = rd
      BY <3>3
    <3> QED
      BY <3>4 DEF rd
  <2> QED
    BY <1>3, <2>1 DEF Proceeds
<1>6. FoundBefore'
  BY <1>1, <1>2, <1>4 DEF FoundBefore
<1>a. Asking => procedure' = procedure
  <2>1. Asking => procedure.op \in {"service", "characteristic"}
    BY <1>2, SoughtFacts DEF Asking, Command
  <2>2. procedure.op \in {"service", "characteristic"} => procedure # Idle
    BY CommandFacts
  <2> QED
    BY <1>5, <2>1, <2>2
<1>7. CASE kind \notin EventKinds
  <2>1. events' = events /\ services' = services /\ handles' = handles
    BY <1>7 DEF Handles, EventKinds
  <2>2. CASE Asking
    BY <1>2, <1>4, <1>6, <1>a, <2>1, <2>2 DEF Seeking, Asking
  <2>3. CASE Answered
    <3>1. procedure' \in {Idle, Command("read", Gesture, FALSE)}
      BY <1>5, <2>3 DEF Answered
    <3>2. FoundNow' <=> FoundNow
      BY <1>4, <2>1 DEF FoundNow
    <3>3. \A j : Tells(events[j])' <=> Tells(events[j])
      BY <1>4, <2>1 DEF Tells
    <3>4. Answered'
      BY <2>1, <2>3, <3>1, <3>2, <3>3 DEF Answered
    <3> QED
      BY <1>2, <1>4, <1>6, <2>1, <3>4 DEF Seeking
  <2> QED
    BY <2>2, <2>3 DEF Seeking
<1>8. CASE kind \in EventKinds
  <2> DEFINE n == Len(events)
  <2>1. /\ events # << >> /\ Head(events).kind = kind /\ events' = Tail(events)
        /\ first = << >>
    BY <1>8 DEF Handles
  <2>2. /\ n \in Nat /\ n >= 1
        /\ DOMAIN events = 1 .. n /\ DOMAIN events' = 1 .. (n - 1)
        /\ \A i \in 1 .. (n - 1) : events'[i] = events[i + 1]
        /\ Head(events) = events[1]
    BY <2>1, QueueFacts
  <2>3. 1 \in DOMAIN events /\ events[1].kind = kind
    BY <2>1, <2>2
  <2> HIDE DEF n
  <2>4. \A i \in DOMAIN events' : i + 1 \in DOMAIN events /\ events'[i] = events[i + 1]
    BY <2>2
  <2>5. CASE Asking
    <3>1. kind \notin Answers
      BY <2>3, <2>5 DEF Asking
    <3>2. handles' = handles
      BY <3>1 DEF Handles, Answers
    <3> QED
      BY <1>2, <1>4, <1>6, <1>a, <2>4, <2>5, <3>2 DEF Seeking, Asking
  <2>6. CASE Answered
    <3>1. PICK k \in DOMAIN events :
            /\ events[k].kind = "completed"
            /\ ~FoundNow => \E j \in DOMAIN events : j < k /\ Tells(events[j])
            /\ \A j \in DOMAIN events :
                 events[j].kind \in Answers /\ j # k => j < k /\ Tells(events[j])
      BY <2>6 DEF Answered
    <3>2. procedure' \in {Idle, Command("read", Gesture, FALSE)}
      BY <1>5, <2>6 DEF Answered
    <3>3. k # 1
      BY <2>3, <3>1
    <3>4. k \in 1 .. n
      BY <2>2
    <3>5. /\ k - 1 \in DOMAIN events' /\ k - 1 \in Nat
          /\ events'[k - 1] = events[k]
      <4>1. k - 1 \in 1 .. (n - 1) /\ (k - 1) + 1 = k
        BY <2>2, <3>3, <3>4
      <4> QED
        BY <2>2, <4>1
    <3>6. kind \in Answers => Tells(events[1])
      BY <2>3, <3>1, <3>3
    <3>7. CASE Gesture \in handles'
      <4>1. kind = "characteristic" /\ Head(events).char = Gesture
        BY <1>2, <3>7 DEF Handles
      <4>2. currentste = "NOTIFY_S1"
        <5>1. Sought[currentste].op = "characteristic" /\ Sought[currentste].char = Gesture
          BY <2>2, <2>3, <3>6, <4>1 DEF Tells, Answers
        <5> QED
          BY <1>2, <5>1, SoughtFacts, CharAssumption
      <4>3. Light \in handles'
        BY <1>1, <1>2, <4>2 DEF FoundBefore
      <4>4. handles' \subseteq Chars
        BY <4>1 DEF Handles, TypeOK, Chars
      <4>5. handles' = Chars
        BY <3>7, <4>3, <4>4 DEF Chars
      <4>6. Reading'
        BY <3>2 DEF Reading, Command, Idle
      <4> QED
        BY <1>4, <4>2, <4>5, <4>6 DEF Subscribing
    <3>8. CASE Gesture \notin handles'
      <4>1. ASSUME ~FoundNow'
            PROVE  \E j \in DOMAIN events' : j < k - 1 /\ Tells(events[j])'
        <5>1. ~FoundNow
          BY <1>1, <1>4, <4>1 DEF FoundNow
        <5>2. PICK j \in DOMAIN events : j < k /\ Tells(events[j])
          BY <3>1, <5>1
        <5>3. j # 1
          <6>1. SUFFICES ASSUME j = 1
                         PROVE  FALSE
            OBVIOUS
          <6>2. kind = Sought[currentste].op /\ Head(events).char = Sought[currentste].char
            BY <2>2, <2>3, <5>2, <6>1 DEF Tells
          <6>3. \/ kind = "service" /\ Head(events).char \in services'
                \/ kind = "characteristic" /\ Head(events).char \in handles'
            BY <1>2, <6>2, SoughtFacts DEF Handles
          <6> QED
            BY <1>4, <4>1, <6>2, <6>3 DEF FoundNow
        <5>4. j \in 1 .. n
          BY <2>2
        <5>5. /\ j - 1 \in 1 .. (n - 1) /\ (j - 1) + 1 = j /\ j - 1 < k - 1
          BY <2>2, <3>4, <5>2, <5>3, <5>4
        <5>6. events'[j - 1] = events[j]
          BY <2>2, <5>5
        <5>7. Tells(events[j - 1])'
          BY <1>4, <5>2, <5>6 DEF Tells
        <5> QED
          BY <2>2, <5>5, <5>7
      <4>2. ASSUME NEW j \in DOMAIN events', events'[j].kind \in Answers, j # k - 1
            PROVE  j < k - 1 /\ Tells(events[j])'
        <5>1. j + 1 \in DOMAIN events /\ events'[j] = events[j + 1]
          BY <2>4
        <5>2. j \in 1 .. (n - 1)
          BY <2>2
        <5>3. j + 1 # k
          BY <2>2, <3>4, <4>2, <5>2
        <5>4. j + 1 < k /\ Tells(events[j + 1])
          BY <3>1, <4>2, <5>1, <5>3
        <5>5. j < k - 1
          BY <2>2, <3>4, <5>2, <5>4
        <5> QED
          BY <1>4, <5>1, <5>4, <5>5 DEF Tells
      <4>3. Answered'
        <5> DEFINE m == k - 1
        <5>1. /\ m \in DOMAIN events' /\ events'[m].kind = "completed"
              /\ ~FoundNow' => \E j \in DOMAIN events' : j < m /\ Tells(events[j])'
              /\ \A j \in DOMAIN events' :
                   events'[j].kind \in Answers /\ j # m => j < m /\ Tells(events[j])'
          BY <3>1, <3>5, <4>1, <4>2
        <5> HIDE DEF m
        <5> QED
          BY <3>2, <5>1 DEF Answered, Tells
      <4> QED
        BY <1>2, <1>4, <1>6, <3>8, <4>3 DEF Seeking
    <3> QED
      BY <3>7, <3>8
  <2> QED
    BY <2>5, <2>6 DEF Seeking
<1> QED
  BY <1>7, <1>8

\* What follows the search: the descriptors are written as the light goes.
LEMMA SubscriptionsFollow ==
  ASSUME IInv, Subscribing, currentste # "UPDATELCD" => Lit,
         NEW kind, kind # "opened", NEW first,
         Handles(kind, first), Proceeds(kind, first)
  PROVE  Subscribing'
<1> USE DEF IInv
<1>1. handles = Chars /\ handles' = Chars /\ indicating' = indicating
  <2>1. handles' = handles \/ (kind = "characteristic" /\ handles' = handles \cup {Head(events).char})
    BY DEF Handles
  <2>2. kind = "characteristic" => Head(events).char \in Chars
    <3>1. kind = "characteristic" => events # << >> /\ Head(events).kind = kind
      BY DEF Handles, EventKinds
    <3>2. events # << >> => Head(events) \in Events
      BY TailFacts DEF TypeOK
    <3> QED
      BY <3>1, <3>2 DEF Events, Found
  <2>3. handles = Chars /\ indicating' = indicating
    BY DEF Subscribing, Handles
  <2> QED
    BY <2>1, <2>2, <2>3
<1>2. Light \in handles /\ Gesture \in handles
  BY <1>1 DEF Chars
<1>3. currentste \in {"NOTIFY_S1", "NOTIFY_S2", "INITLCD", "UPDATELCD"}
  BY DEF Subscribing
<1>4. procedure = Idle => ~Disabling /\ \A c : ~Enabling(c)
  <2>1. Idle.op = "none" /\ (Disabling => procedure.op = "disable")
    BY DEF Disabling, Command, Idle
  <2>2. \A c : Enabling(c) => procedure.op = "indication"
    BY DEF Enabling, Command
  <2> QED
    BY <2>1, <2>2
<1>5. CASE /\ Discovers(kind)
           /\ currentste' = Plan[currentste].next
           /\ Starts(Plan[currentste].op, Plan[currentste].char)
           /\ prev_ambient' = prev_ambient
  <2>1. CASE currentste = "NOTIFY_S1"
    <3>1. currentste' = "NOTIFY_S2" /\ Starts("indication", Light)
      BY <1>5, <2>1, SoughtFacts
    <3>2. Enabling(Light)'
      BY <1>2, <3>1, StartFacts DEF Enabling
    <3> QED
      BY <1>1, <3>1, <3>2 DEF Subscribing
  <2>2. CASE currentste = "NOTIFY_S2"
    <3>1. currentste' = "INITLCD" /\ Starts("indication", Gesture)
      BY <1>5, <2>2, SoughtFacts
    <3>2. Enabling(Gesture)' /\ procedure = Idle
      BY <1>2, <3>1, StartFacts DEF Enabling
    <3>3. Light \in indicating'
      BY <1>1, <1>4, <2>2, <3>2 DEF Subscribing
    <3>4. Lit'
      BY <1>5, <2>2 DEF Lit
    <3> QED
      BY <1>1, <3>1, <3>2, <3>3, <3>4 DEF Subscribing
  <2>3. currentste \in {"NOTIFY_S1", "NOTIFY_S2"}
    BY <1>3, <1>5, SoughtFacts DEF Discovers
  <2> QED
    BY <2>1, <2>2, <2>3
<1>6. CASE /\ currentste' = currentste \/ (currentste = "INITLCD" /\ currentste' = "UPDATELCD")
           /\ prev_ambient' = prev_ambient
           /\ \/ procedure' = procedure
              \/ procedure = Idle /\ first # << >> /\ procedure' = first[1]
  <2>1. Lit' <=> Lit
    BY <1>6 DEF Lit
  <2>2. CASE procedure' = procedure
    BY <1>1, <1>6, <2>1, <2>2 DEF Subscribing, Reading, Enabling, Disabling
  <2>3. CASE procedure = Idle /\ first # << >> /\ procedure' = first[1]
    <3>1. Reading'
      <4> DEFINE rd == Command("read", Gesture, Known("read", Gesture))
      <4>1. first = <<rd>> /\ rd.op = "read"
        BY <2>3, CommandFacts DEF Handles
      <4> HIDE DEF rd
      <4>2. procedure' = rd
        BY <2>3, <4>1
      <4> QED
        BY <4>1, <4>2 DEF Reading
    <3> QED
      BY <1>1, <1>3, <1>4, <1>6, <2>1, <2>3, <3>1 DEF Subscribing
  <2> QED
    BY <1>6, <2>2, <2>3
<1>7. CASE /\ currentste = "UPDATELCD" /\ currentste' = "UPDATELCD"
           /\ Starts("disable", Gesture) /\ ~Lit'
  <2>1. Disabling'
    BY <1>2, <1>7, StartFacts DEF Disabling
  <2> QED
    BY <1>1, <1>7, <2>1 DEF Subscribing
<1>8. CASE /\ currentste = "UPDATELCD" /\ currentste' = "UPDATELCD"
           /\ Starts("indication", Gesture) /\ Lit'
  <2>1. Enabling(Gesture)'
    BY <1>2, <1>8, StartFacts DEF Enabling
  <2> QED
    BY <1>1, <1>8, <2>1 DEF Subscribing
<1> QED
  BY <1>5, <1>6, <1>7, <1>8 DEF Proceeds

\* Before a connection is opened only its closing can come.
LEMMA FreshStays ==
  ASSUME IInv, SubInv, NEW kind, NEW first, Handles(kind, first), connection' = 0
  PROVE  Fresh'
<1> USE DEF IInv
<1>t. /\ conns \in Nat /\ connection \in Nat /\ connection <= conns
  BY DEF TypeOK, LinkInv
<1>1. kind \in EventKinds => events # << >> /\ Head(events).kind = kind /\ events' = Tail(events)
  BY DEF Handles
<1>2. kind # "opened"
  <2>1. ASSUME kind = "opened"
        PROVE  FALSE
    <3>1. events # << >> /\ Head(events).kind = "opened" /\ connection' = Head(events).val
      BY <2>1 DEF Handles, EventKinds
    <3>2. conns = 0 /\ connection # conns
      BY <3>1, QueueFacts
    <3> QED
      BY <1>t, <3>2
  <2> QED
    BY <2>1
<1>3. Fresh
  BY <1>2 DEF Handles, SubInv
<1>4. currentste' = "OPEN_S1"
  BY <1>2, <1>3, MachineStays DEF Fresh, Handles
<1>5. CASE kind \notin EventKinds
  BY <1>3, <1>4, <1>5 DEF Fresh, Handles, EventKinds
<1>6. CASE kind \in EventKinds
  <2>1. /\ Len(events) \in Nat /\ Len(events) >= 1
        /\ DOMAIN events = 1 .. Len(events)
        /\ DOMAIN events' = 1 .. (Len(events) - 1)
        /\ \A i \in 1 .. (Len(events) - 1) : events'[i] = events[i + 1]
        /\ Head(events) = events[1]
    BY <1>1, <1>6, QueueFacts
  <2>2. kind = "closed"
    <3>1. 1 \in DOMAIN events /\ events[1].kind = kind
      BY <1>1, <1>6, <2>1
    <3> QED
      BY <1>2, <1>3, <3>1 DEF Fresh
  <2>3. \A i \in DOMAIN events' : i + 1 \in DOMAIN events /\ events'[i] = events[i + 1]
    BY <2>1
  <2>4. services' = services /\ handles' = handles /\ pairing' = "none"
    BY <1>3, <2>2 DEF Fresh, Handles
  <2> QED
    BY <1>3, <1>4, <2>3, <2>4 DEF Fresh
<1> QED
  BY <1>5, <1>6

\* A step of the application keeps discovery on its course.
LEMMA ApplicationOnCourse == IInv /\ SubInv /\ Application => SubInv'
<1> SUFFICES ASSUME IInv, SubInv, Application
             PROVE  SubInv'
  OBVIOUS
<1>1. PICK kind, first : Handles(kind, first)
  BY ApplicationHandles
<1>2. currentste' # "UPDATELCD" => Lit'
  BY <1>1, MachineStays DEF Handles, SubInv
<1>3. connection' = 0 => Fresh'
  BY <1>1, FreshStays
<1>4. ASSUME OnCourse'
      PROVE  Seeking' \/ Subscribing'
  <2>1. first = << >> \/ \E c : first = <<c>>
    BY <1>1 DEF Handles
  <2>2. Proceeds(kind, first) /\ refused = {}
    BY <1>1, <1>4, <2>1, MachineProceeds DEF Handles, OnCourse, IInv
  <2>3. CASE kind = "opened"
    BY <1>1, <1>4, <2>3, OpeningAsks
  <2>4. CASE kind # "opened"
    <3>1. OnCourse
      BY <1>1, <1>4, <2>2, <2>4 DEF Handles, OnCourse
    <3>2. CASE Seeking
      BY <1>1, <2>2, <2>4, <3>2, CompletionAsks, SearchGoesOn
    <3>3. CASE Subscribing
      BY <1>1, <2>2, <2>4, <3>3, SubscriptionsFollow DEF SubInv
    <3> QED
      BY <3>1, <3>2, <3>3 DEF SubInv
  <2> QED
    BY <2>3, <2>4
<1> QED
  BY <1>2, <1>3, <1>4 DEF SubInv

\* What is said over the link that is no answer leaves discovery on its course,
\* and so does the end of a button's command that is none.
LEMMA TalkKeepsCourse ==
  ASSUME TypeOK, Seeking \/ Subscribing, NEW es \in Seq(Events),
         \A k \in DOMAIN es : es[k].kind \notin Answers,
         events' = events \o es,
         UNCHANGED <<currentste, services, handles, prev_ambient, indicating>>,
         procedure' = procedure \/ (procedure.op = "read" /\ procedure' = Idle)
  PROVE  Seeking' \/ Subscribing'
<1>1. CASE Subscribing
  <2>1. Lit' <=> Lit
    BY DEF Lit
  <2>2. procedure' = procedure \/ (Reading /\ procedure' = Idle /\ Reading')
    BY DEF Reading, Command, Idle
  <2>3. Reading => ~Disabling /\ \A c : ~Enabling(c)
    BY DEF Reading, Disabling, Enabling, Command
  <2>4. CASE procedure' = procedure
    BY <1>1, <2>1, <2>4 DEF Subscribing, Reading, Enabling, Disabling
  <2>5. CASE Reading /\ Reading'
    BY <1>1, <2>1, <2>3, <2>5 DEF Subscribing
  <2> QED
    BY <2>2, <2>4, <2>5
<1>2. CASE Seeking
  <2> DEFINE q == events
             n == Len(q)
  <2>1. q \in Seq(Events) /\ events' = q \o es
    BY DEF TypeOK
  <2>2. currentste \in DOMAIN Sought /\ Gesture \notin handles /\ FoundBefore
    BY <1>2 DEF Seeking
  <2>3. FoundBefore' /\ (FoundNow' <=> FoundNow) /\ \A e : Tells(e)' <=> Tells(e)
    BY <2>2 DEF FoundBefore, FoundNow, Tells
  <2> HIDE DEF q
  <2>4. /\ n \in Nat /\ Len(es) \in Nat
        /\ DOMAIN q = 1 .. n /\ DOMAIN es = 1 .. Len(es)
        /\ DOMAIN (q \o es) = 1 .. (n + Len(es))
        /\ \A i \in 1 .. n : (q \o es)[i] = q[i]
        /\ \A i \in 1 .. Len(es) : (q \o es)[n + i] = es[i]
    BY <2>1, ConcatFacts
  <2> HIDE DEF n
  <2>5. /\ \A i \in DOMAIN q : i \in DOMAIN events' /\ events'[i] = q[i]
        /\ \A i \in DOMAIN events' : i \notin DOMAIN q => events'[i].kind \notin Answers
    <3>1. \A i \in DOMAIN q : i \in DOMAIN events' /\ events'[i] = q[i]
      BY <2>1, <2>4
    <3>2. ASSUME NEW i \in DOMAIN events', i \notin DOMAIN q
          PROVE  events'[i].kind \notin Answers
      <4> DEFINE k == i - n
      <4>1. k \in 1 .. Len(es) /\ n + k = i
        BY <2>1, <2>4, <3>2
      <4> HIDE DEF k
      <4>2. events'[i] = es[k]
        BY <2>1, <2>4, <4>1
      <4> QED
        BY <2>4, <4>1, <4>2
    <3> QED
      BY <3>1, <3>2
  <2>6. CASE Asking
    <3>1. procedure.op \in {"service", "characteristic"}
      BY <2>2, <2>6, SoughtFacts DEF Asking, Command
    <3>2. procedure' = procedure
      BY <3>1
    <3>3. \A i \in DOMAIN events' : events'[i].kind \notin Answers
      BY <2>5, <2>6 DEF Asking, q
    <3> QED
      BY <2>2, <2>3, <2>6, <3>2, <3>3 DEF Seeking, Asking
  <2>7. CASE Answered
    <3>1. PICK k \in DOMAIN q :
            /\ q[k].kind = "completed"
            /\ ~FoundNow => \E j \in DOMAIN q : j < k /\ Tells(q[j])
            /\ \A j \in DOMAIN q :
                 q[j].kind \in Answers /\ j # k => j < k /\ Tells(q[j])
      BY <2>7 DEF Answered, q
    <3>2. procedure' \in {Idle, Command("read", Gesture, FALSE)}
      BY <2>7 DEF Answered
    <3>3. k \in DOMAIN events' /\ events'[k].kind = "completed"
      BY <2>5, <3>1
    <3>4. ~FoundNow' => \E j \in DOMAIN events' : j < k /\ Tells(events[j])'
      <4>1. ASSUME NEW j \in DOMAIN q, Tells(q[j])
            PROVE  Tells(events[j])' /\ j \in DOMAIN events'
        BY <2>5, <4>1 DEF Tells
      <4> QED
        BY <2>3, <3>1, <4>1
    <3>5. ASSUME NEW j \in DOMAIN events', events'[j].kind \in Answers, j # k
          PROVE  j < k /\ Tells(events[j])'
      <4>1. j \in DOMAIN q /\ events'[j] = q[j]
        BY <2>5, <3>5
      <4>2. j < k /\ Tells(q[j])
        BY <3>1, <3>5, <4>1
      <4> QED
        BY <4>1, <4>2 DEF Tells
    <3>6. Answered'
      BY <3>2, <3>3, <3>4, <3>5 DEF Answered
    <3> QED
      BY <2>2, <2>3, <3>6 DEF Seeking
  <2> QED
    BY <1>2, <2>6, <2>7 DEF Seeking
<1> QED
  BY <1>1, <1>2

\* The end of a procedure answers what was asked, or writes what was to be
\* written.
LEMMA EndKeepsCourse ==
  ASSUME IInv, Seeking \/ Subscribing, EndProcedure
  PROVE  Seeking' \/ Subscribing'
<1> USE DEF IInv
<1>1. /\ procedure # Idle /\ procedure' = Idle /\ Reading'
      /\ UNCHANGED <<currentste, services, handles, prev_ambient>>
      /\ Lit' <=> Lit
  BY DEF EndProcedure, bleVars, Lit, Reading, Command, Idle
<1>2. CASE Subscribing
  <2>1. procedure.op = "read" => indicating' = indicating
    BY DEF EndProcedure
  <2>2. \A c : Enabling(c) => indicating' = indicating \cup {c} /\ procedure.op = "indication"
    BY DEF EndProcedure, Enabling, Command
  <2>3. Disabling => indicating' = indicating \ {Gesture} /\ procedure.op = "disable"
    BY DEF EndProcedure, Disabling, Command
  <2>4. procedure.op # "none"
    BY <1>1 DEF TypeOK, Commands
  <2>5. Reading => indicating' = indicating
    BY <2>1, <2>4 DEF Reading
  <2>6. CASE currentste = "NOTIFY_S1"
    BY <1>1, <1>2, <2>6 DEF Subscribing
  <2>7. CASE currentste = "NOTIFY_S2"
    BY <1>1, <1>2, <2>2, <2>5, <2>7 DEF Subscribing
  <2>8. CASE currentste \in {"INITLCD", "UPDATELCD"}
    <3>1. CASE Enabling(Gesture) /\ Lit
      BY <1>1, <1>2, <2>2, <2>8, <3>1 DEF Subscribing
    <3>2. CASE Disabling /\ ~Lit
      BY <1>1, <1>2, <2>3, <2>8, <3>2, CharAssumption DEF Subscribing
    <3>3. CASE Reading /\ (Gesture \in indicating <=> Lit)
      BY <1>1, <1>2, <2>5, <2>8, <3>3 DEF Subscribing
    <3> QED
      BY <1>2, <2>8, <3>1, <3>2, <3>3 DEF Subscribing
  <2> QED
    BY <1>2, <2>6, <2>7, <2>8 DEF Subscribing
<1>3. CASE Seeking /\ Answered
  <2>1. procedure = Command("read", Gesture, FALSE)
    BY <1>1, <1>3 DEF Answered
  <2>2. ~procedure.known /\ procedure.op = "read" /\ procedure.char = Gesture
    BY <2>1 DEF Command
  <2>3. events' = events \o <<Event("failed", Gesture, 0)>> /\ indicating' = indicating
    BY <2>2 DEF EndProcedure, Post, Result
  <2> DEFINE e == Event("failed", Gesture, 0)
  <2>4. e \in Events /\ e.kind = "failed"
    BY EventTyped DEF EventKinds, Found, Chars
  <2>5. events' = events \o <<e>>
    BY <2>3
  <2> HIDE DEF e
  <2>6. <<e>> \in Seq(Events) /\ \A k \in DOMAIN <<e>> : <<e>>[k].kind \notin Answers
    BY <2>4 DEF Answers
  <2> QED
    BY <1>1, <1>3, <2>2, <2>3, <2>5, <2>6, TalkKeepsCourse
<1>4. CASE Seeking /\ Asking
  <2> DEFINE op == Sought[currentste].op
             c == Sought[currentste].char
  <2>1. /\ currentste \in DOMAIN Sought /\ Gesture \notin handles /\ FoundBefore
        /\ procedure = Command(op, c, TRUE)
        /\ \A i \in DOMAIN events : events[i].kind \notin Answers
    BY <1>4 DEF Seeking, Asking
  <2>2. op \in {"service", "characteristic"} /\ c \in Chars
    BY <2>1, SoughtFacts DEF Chars
  <2> HIDE DEF op, c
  <2>3. procedure.known /\ procedure.op = op /\ procedure.char = c
    BY <2>1 DEF Command
  <2> DEFINE a == Event(op, c, 0)
             b == Event("completed", c, 0)
             q == events
  <2>4. events' = q \o <<a, b>>
    BY <2>2, <2>3 DEF EndProcedure, Post, Result
  <2>5. /\ a \in Events /\ a.kind = op /\ a.char = c
        /\ b \in Events /\ b.kind = "completed"
    BY <2>2, EventTyped DEF EventKinds, Found
  <2>6. q \in Seq(Events)
    BY DEF TypeOK
  <2> HIDE DEF a, b, q
  <2>n. PICK n \in Nat : n = Len(q)
    BY <2>6
  <2>7. <<a, b>> \in Seq(Events) /\ Len(<<a, b>>) = 2 /\ <<a, b>>[1] = a /\ <<a, b>>[2] = b
    BY <2>5
  <2>8. /\ n \in Nat
        /\ DOMAIN q = 1 .. n
        /\ DOMAIN events' = 1 .. (n + 2)
        /\ \A i \in 1 .. n : events'[i] = q[i]
        /\ \A i \in 1 .. 2 : events'[n + i] = <<a, b>>[i]
    BY <2>4, <2>6, <2>7, <2>n, ConcatFacts
  <2>9. events'[n + 1] = a /\ events'[n + 2] = b
    BY <2>7, <2>8
  <2>10. /\ n + 1 \in DOMAIN events' /\ n + 2 \in DOMAIN events' /\ n + 1 < n + 2
         /\ \A j \in DOMAIN events' : j \in DOMAIN q \/ j = n + 1 \/ j = n + 2
    BY <2>8
  <2>11. Tells(events[n + 1])'
    BY <1>1, <2>5, <2>9 DEF Tells, op, c
  <2>12. ASSUME NEW j \in DOMAIN events', events'[j].kind \in Answers, j # n + 2
         PROVE  j < n + 2 /\ Tells(events[j])'
    <3>1. j \notin DOMAIN q
      BY <2>1, <2>8, <2>12 DEF q
    <3> QED
      BY <2>10, <2>11, <2>12, <3>1
  <2> DEFINE m == n + 2
             l == n + 1
  <2>13. /\ m \in DOMAIN events' /\ events'[m].kind = "completed"
         /\ l \in DOMAIN events' /\ l < m /\ Tells(events[l])'
         /\ \A j \in DOMAIN events' :
              events'[j].kind \in Answers /\ j # m => j < m /\ Tells(events[j])'
    BY <2>5, <2>9, <2>10, <2>11, <2>12
  <2> HIDE DEF m, l
  <2>14. Answered'
    BY <1>1, <2>13 DEF Answered
  <2>15. FoundBefore'
    BY <1>1, <2>1 DEF FoundBefore
  <2> QED
    BY <1>1, <2>1, <2>14, <2>15 DEF Seeking
<1> QED
  BY <1>2, <1>3, <1>4 DEF Seeking

\* So does what does not touch it.
LEMMA NothingKeepsCourse ==
  ASSUME Seeking \/ Subscribing,
         UNCHANGED <<currentste, services, handles, prev_ambient, indicating, procedure,
                     events>>
  PROVE  Seeking' \/ Subscribing'
<1>1. /\ (Lit' <=> Lit) /\ (Reading' <=> Reading) /\ (Disabling' <=> Disabling)
      /\ \A c : Enabling(c)' <=> Enabling(c)
  BY DEF Lit, Reading, Disabling, Enabling
<1>2. Subscribing => Subscribing'
  BY <1>1 DEF Subscribing
<1>3. /\ (FoundBefore' <=> FoundBefore) /\ (FoundNow' <=> FoundNow)
      /\ \A j : Tells(events[j])' <=> Tells(events[j])
  BY DEF FoundBefore, FoundNow, Tells
<1>4. Asking => Asking'
  BY DEF Asking
<1>5. Answered => Answered'
  BY <1>3 DEF Answered
<1>6. Seeking => Seeking'
  BY <1>3, <1>4, <1>5 DEF Seeking
<1> QED
  BY <1>2, <1>6

\* What the stack, the server and the user do keeps discovery on its course.
LEMMA EnvironmentOnCourse == IInv /\ SubInv /\ Environment => SubInv'
<1> SUFFICES ASSUME IInv, SubInv, Environment
             PROVE  SubInv'
  OBVIOUS
<1> USE DEF IInv
<1>1. UNCHANGED <<currentste, services, handles, prev_ambient, connection, refused>>
  BY DEF Environment, Connect, Disconnect, EndProcedure, Indicate, ShowPasskey, Bond,
         FailPairing, Press, machineVars, bleVars
<1>2. currentste' # "UPDATELCD" => Lit'
  BY <1>1 DEF SubInv, Lit
<1>3. /\ events \in Seq(Events) /\ conns \in Nat /\ link \in Nat /\ connection <= conns
      /\ connection \in Nat
  BY DEF TypeOK, LinkInv
<1>4. ASSUME connection' = 0
      PROVE  Fresh'
  <2>1. Fresh /\ connection = 0
    BY <1>1, <1>4 DEF SubInv
  <2>2. procedure = Idle /\ indicating = {} /\ pairing = "none"
    BY <2>1 DEF LinkInv, Fresh
  <2>3. Connect \/ Disconnect \/ \E button \in {PB0, PB1} : Press(button)
    BY <2>2 DEF Environment, EndProcedure, Indicate, ShowPasskey, Bond, FailPairing
  <2>4. pairing' = "none"
    BY <2>2, <2>3 DEF Connect, Disconnect, Press
  <2>5. ASSUME NEW e, e.kind \in {"opened", "closed"}, events' = events \o <<e>>
        PROVE  \A i \in DOMAIN events' : events'[i].kind \in {"opened", "closed"}
    <3> DEFINE S == {events[i] : i \in DOMAIN events} \cup {e}
               q == events
    <3>1. q \in Seq(S) /\ <<e>> \in Seq(S) /\ events' = q \o <<e>>
      BY <1>3, <2>5
    <3>2. \A x \in S : x.kind \in {"opened", "closed"}
      BY <2>1, <2>5 DEF Fresh
    <3> HIDE DEF S, q
    <3>3. q \o <<e>> \in Seq(S)
      BY <3>1, ConcatFacts
    <3>4. \A i \in DOMAIN (q \o <<e>>) : (q \o <<e>>)[i] \in S
      BY <3>3
    <3> QED
      BY <3>1, <3>2, <3>4
  <2>6. \A i \in DOMAIN events' : events'[i].kind \in {"opened", "closed"}
    <3>1. CASE Connect
      BY <2>5, <3>1 DEF Connect, Post, Event
    <3>2. CASE Disconnect
      BY <2>5, <3>2 DEF Disconnect, Post, Event
    <3>3. CASE \E button \in {PB0, PB1} : Press(button)
      BY <2>1, <3>3 DEF Press, Fresh
    <3> QED
      BY <2>3, <3>1, <3>2, <3>3
  <2> QED
    BY <1>1, <2>1, <2>4, <2>6 DEF Fresh
<1>5. ASSUME OnCourse'
      PROVE  Seeking' \/ Subscribing'
  <2>1. ~Connect /\ ~Disconnect
    <3>1. Connect => connection' <= conns /\ link' = conns + 1
      BY <1>1, <1>3 DEF Connect
    <3>2. Disconnect => link' = 0
      BY DEF Disconnect
    <3> QED
      BY <1>3, <1>5, <3>1, <3>2 DEF OnCourse
  <2>2. link' = link
    BY <2>1 DEF Environment, EndProcedure, Indicate, ShowPasskey, Bond, FailPairing,
                Press, linkVars
  <2>3. Seeking \/ Subscribing
    BY <1>1, <1>5, <2>2 DEF OnCourse, SubInv
  <2>4. ASSUME NEW kind \in {"indication", "confirm_passkey", "bonded", "bonding_failed"},
               NEW c \in Chars \cup {None}, kind = "indication" => c \in Chars,
               NEW val \in Nat,
               events' = events \o <<Event(kind, c, val)>>,
               procedure' = procedure, indicating' = indicating
        PROVE  Seeking' \/ Subscribing'
    <3> DEFINE e == Event(kind, c, val)
    <3>1. e \in Events /\ e.kind \notin Answers
      BY <2>4, EventTyped DEF EventKinds, Found, Answers
    <3>2. events' = events \o <<e>>
      BY <2>4
    <3> HIDE DEF e
    <3>3. <<e>> \in Seq(Events) /\ \A k \in DOMAIN <<e>> : <<e>>[k].kind \notin Answers
      BY <3>1
    <3> QED
      BY <1>1, <2>3, <2>4, <3>2, <3>3, TalkKeepsCourse
  <2>5. CASE EndProcedure
    BY <2>3, <2>5, EndKeepsCourse
  <2>6. ASSUME NEW c \in Chars, NEW v \in Nat, Indicate(c, v)
        PROVE  Seeking' \/ Subscribing'
    BY <2>4, <2>6 DEF Indicate, Post, machineVars
  <2>7. CASE ShowPasskey
    BY <1>3, <2>4, <2>7 DEF ShowPasskey, Post, machineVars, serverVars
  <2>8. CASE Bond
    BY <1>3, <2>4, <2>8 DEF Bond, Post, machineVars, serverVars
  <2>9. CASE FailPairing
    BY <1>3, <2>4, <2>9 DEF FailPairing, Post, machineVars, serverVars
  <2>10. ASSUME NEW button \in {PB0, PB1}, Press(button)
         PROVE  Seeking' \/ Subscribing'
    <3>1. events' = events /\ procedure' = procedure /\ indicating' = indicating
      BY <2>10 DEF Press, machineVars, serverVars
    <3> QED
      BY <1>1, <2>3, <3>1, NothingKeepsCourse
  <2>11. \/ EndProcedure \/ ShowPasskey \/ Bond \/ FailPairing
         \/ \E c \in Chars, v \in Nat : Indicate(c, v)
         \/ \E button \in {PB0, PB1} : Press(button)
    BY <2>1, ValueAssumption DEF Environment, Chars
  <2> QED
    BY <2>5, <2>6, <2>7, <2>8, <2>9, <2>10, <2>11
<1> QED
  BY <1>2, <1>4, <1>5 DEF SubInv

\* Discovery starts on its course.
LEMMA InitOnCourse == Init => SubInv
<1> SUFFICES ASSUME Init
             PROVE  SubInv
  OBVIOUS
<1>1. prev_ambient = 51 /\ connection = 0 /\ events = << >>
  BY DEF Init
<1>2. Lit
  BY <1>1 DEF Lit, LightThreshold
<1>3. DOMAIN events = {}
  BY <1>1
<1>4. Fresh
  BY <1>3 DEF Init, Fresh
<1> QED
  BY <1>1, <1>2, <1>4 DEF SubInv, OnCourse

\* And stays on it.
LEMMA NextOnCourse == IInv /\ SubInv /\ [Next]_vars => SubInv'
<1> SUFFICES ASSUME IInv, SubInv, [Next]_vars
             PROVE  SubInv'
  OBVIOUS
<1>1. CASE UNCHANGED vars
  <2>1. UNCHANGED <<currentste, services, handles, prev_ambient, indicating, procedure,
                    events, connection, link, refused, pairing>>
    BY <1>1 DEF vars, machineVars, bleVars, linkVars, serverVars
  <2>2. (Seeking \/ Subscribing) => (Seeking' \/ Subscribing')
    BY <2>1, NothingKeepsCourse
  <2>3. (Lit' <=> Lit) /\ (OnCourse' <=> OnCourse) /\ (Fresh' <=> Fresh)
    BY <2>1 DEF Lit, OnCourse, Fresh
  <2> QED
    BY <2>1, <2>2, <2>3 DEF SubInv
<1> QED
  BY <1>1, ApplicationOnCourse, EnvironmentOnCourse DEF Next
-----------------------------------------------------------------------------
(* The theorems.                                                           *)

\* The state and the stack's events have their types: in particular a command
\* is only ever about a characteristic, and a value found is of one.
THEOREM TypeCorrect == Spec => []TypeOK
<1>1. IInv => TypeOK
  BY DEF IInv
<1> QED
  BY <1>1, InitInv, NextInv, PTL DEF Spec

\* A gesture turns the page at most once, whatever events run the machine
\* after it came, for any readings, gestures and bounds.
THEOREM GesturesOnce == Spec => []NoRepeat
<1>1. IInv => NoRepeat
  BY DEF IInv
<1> QED
  BY <1>1, InitInv, NextInv, PTL DEF Spec

\* Whenever the client has handled its events no indication awaits its
\* confirmation, in whatever state discovery and pairing are and however many
\* links were lost before.
THEOREM EveryIndicationConfirmed == Spec => []ConfirmsIndications
<1>1. IInv => ConfirmsIndications
  BY DEF IInv, HandleInv, ConfirmsIndications
<1> QED
  BY <1>1, InitInv, NextInv, PTL DEF Spec

\* Whoever comes to show pages on his first link, with no command refused, is
\* subscribed to the light, and to the gestures exactly while he last saw
\* light: the answers, the buttons' reads and the light may come in any order.
THEOREM ReadyIsSubscribed == Spec => []ReadyMeansSubscribed
<1>1. IInv /\ SubInv => ReadyMeansSubscribed
  <2> SUFFICES ASSUME IInv, SubInv,
                      currentste \in {"INITLCD", "UPDATELCD"},
                      link # 0, conns = 1, refused = {}, procedure = Idle, events = << >>
               PROVE  Light \in indicating /\ (Gesture \in indicating <=> Lit)
    BY DEF ReadyMeansSubscribed, Lit
  <2>1. link = 1 /\ connection \in {0, 1}
    BY DEF IInv, TypeOK, LinkInv
  <2>2. connection # 0 /\ ~Seeking
    BY SoughtFacts DEF SubInv, Fresh, Seeking
  <2>3. Subscribing
    BY <2>1, <2>2 DEF SubInv, OnCourse
  <2>4. ~Disabling /\ ~Enabling(Gesture)
    BY DEF Disabling, Enabling, Command, Idle
  <2> QED
    BY <2>3, <2>4 DEF Subscribing
<1> QED
  BY <1>1, InitInv, NextInv, InitOnCourse, NextOnCourse, PTL DEF Spec
=============================================================================
