--------------------------- MODULE PairingProofs ---------------------------
(***************************************************************************)
(* What Pairing promises for every number of links, pairings, edges and    *)
(* resets: bonds are fresh, who takes itself for bonded is, and the client *)
(* confirms nothing it has not shown.                                      *)
(*                                                                         *)
(* What carries the proof is the shape of the queues of events.  A side    *)
(* that is not on the air has "boot" or "closed" as its last event, and    *)
(* one that searches has none, so that every event of a link is handled    *)
(* before the next link; and while a pairing is under way the client has   *)
(* at most the passkey's event to handle.                                  *)
(***************************************************************************)
EXTENDS Pairing, TLAPS

\* A side's radio, queue and bond against the link.
SideInv(s) ==
  /\ (radio[s] = "on") <=> link # 0
  /\ radio[s] = "searching" => events[s] = << >> /\ bond[s] = 0
  /\ \A i \in DOMAIN events[s] :
       events[s][i] \in {"boot", "closed"} => i = Len(events[s]) /\ radio[s] = "off"
  /\ Pending(s, "boot") => events[s] = <<"boot">> /\ bonding_state[s] = "NOT_BONDED"
  /\ link # 0 => bond[s] \in {0, link}

LinkInv ==
  /\ link = 0 => smp = NoPairing
  /\ \A s \in Sides : SideInv(s)

\* The two security managers are in step until the users answer.
SmpInv ==
  /\ smp["server"] = "requested" <=> smp["client"] = "requested"
  /\ smp["server"] = "none" <=> smp["client"] = "none"

\* The server is told of a bond of this link.
ServerInv ==
  Pending("server", "bonded") =>
    (link # 0 /\ bond["server"] = link) \/ Pending("server", "closed")

Ends(e) == e \in {"bonding_failed", "closed"}

\* The client's queue q against its part m of the pairing and its state st.
Shape(q, m, st) ==
  /\ \A i \in DOMAIN q : q[i] = "insufficient" =>
       m = "none" /\ \A j \in DOMAIN q : j > i => q[j] = "closed"
  /\ m \in {"requested", "confirmed"} => q = << >> /\ st # "BONDING"
  /\ m = "asked" => q = << >> \/ (q = <<"confirm_passkey">> /\ st # "BONDING")
  /\ m = "none" /\ st = "BONDING" => \E i \in DOMAIN q : Ends(q[i])
  /\ m = "none" => \A i \in DOMAIN q : q[i] = "confirm_passkey" =>
       \E j \in DOMAIN q : j > i /\ Ends(q[j])

\* The client that waits for its button waits for the last passkey's, and
\* what of the button is still to come is an answer to it.
AnswerInv ==
  bonding_state["client"] = "BONDING" =>
    /\ seen["client"] = attempts
    /\ "PB0" \in signal["client"] \/ pressed["client"] \/ ~prompt["client"]
         => answered["client"] \/ early["client"]

ClientInv ==
  /\ Shape(events["client"], smp["client"], bonding_state["client"])
  /\ AnswerInv

IInv == TypeOK /\ LinkInv /\ SmpInv /\ ServerInv /\ ClientInv /\ BondedIsBacked /\ ClientHasSeen
-----------------------------------------------------------------------------
(* Sequences.                                                              *)

\* What is appended comes last.
LEMMA AppendFacts ==
  ASSUME NEW S, NEW q \in Seq(S), NEW e \in S
  PROVE  /\ Append(q, e) \in Seq(S)
         /\ Len(q) \in Nat
         /\ DOMAIN q = 1 .. Len(q)
         /\ Len(Append(q, e)) = Len(q) + 1
         /\ DOMAIN Append(q, e) = 1 .. (Len(q) + 1)
         /\ \A i \in 1 .. Len(q) : Append(q, e)[i] = q[i]
         /\ Append(q, e)[Len(q) + 1] = e
OBVIOUS

\* One sequence after the other.
LEMMA ConcatFacts ==
  ASSUME NEW S, NEW q \in Seq(S), NEW t \in Seq(S)
  PROVE  /\ q \o t \in Seq(S)
         /\ Len(q) \in Nat /\ Len(t) \in Nat
         /\ DOMAIN q = 1 .. Len(q) /\ DOMAIN t = 1 .. Len(t)
         /\ Len(q \o t) = Len(q) + Len(t)
         /\ DOMAIN (q \o t) = 1 .. (Len(q) + Len(t))
         /\ \A i \in 1 .. Len(q) : (q \o t)[i] = q[i]
         /\ \A i \in 1 .. Len(t) : (q \o t)[Len(q) + i] = t[i]
OBVIOUS

\* The tail is what follows the head.
LEMMA TailFacts ==
  ASSUME NEW S, NEW q \in Seq(S), q # << >>
  PROVE  /\ Tail(q) \in Seq(S)
         /\ Len(q) \in Nat /\ Len(q) >= 1
         /\ DOMAIN q = 1 .. Len(q)
         /\ Len(Tail(q)) = Len(q) - 1
         /\ DOMAIN Tail(q) = 1 .. (Len(q) - 1)
         /\ Head(q) = q[1]
         /\ \A i \in 1 .. (Len(q) - 1) : Tail(q)[i] = q[i + 1]
OBVIOUS
\* One element more, written the other way.
LEMMA OneMore ==
  ASSUME NEW S, NEW q \in Seq(S), NEW e
  PROVE  q \o <<e>> = Append(q, e)
OBVIOUS

\* What a lost link adds when there was a pairing.
LEMMA TwoMore ==
  ASSUME NEW q \in Seq(Kinds)
  PROVE  q \o <<"bonding_failed", "closed">> = Append(Append(q, "bonding_failed"), "closed")
<1> HIDE DEF Kinds
<1> QED
  OBVIOUS

\* No element more.
LEMMA NoMore ==
  ASSUME NEW S, NEW q \in Seq(S)
  PROVE  q \o << >> = q
OBVIOUS

\* Nothing is left of a sequence of no elements.
LEMMA NoneLeft ==
  ASSUME NEW S, NEW q \in Seq(S), Len(q) = 0
  PROVE  q = << >>
OBVIOUS
-----------------------------------------------------------------------------
(* Types.                                                                  *)

\* Two values for the two sides.
LEMMA SidesAre == Sides = {"server", "client"} /\ "server" # "client"
BY DEF Sides

LEMMA TypeStep ==
  ASSUME TypeOK, [Next]_vars
  PROVE  TypeOK'
<1> USE DEF TypeOK
<1>1. CASE Connect
  <2>1. events' \in [Sides -> Seq(Kinds)]
    BY <1>1, AppendFacts DEF Connect, PostBoth, Kinds
  <2>2. links' \in 0 .. MaxLinks /\ link' \in 0 .. links'
    BY <1>1, BoundAssumption DEF Connect
  <2>3. bond' \in [Sides -> -1 .. links']
    <3>1. links' = links + 1 /\ links \in Nat /\ bond' = bond
      BY <1>1 DEF Connect
    <3>2. -1 .. links \subseteq -1 .. links'
      BY <3>1
    <3> QED
      BY <3>1, <3>2
  <2> QED
    BY <1>1, <2>1, <2>2, <2>3 DEF Connect, programVars, userVars
<1>2. CASE Drop
  <2>1. events' \in [Sides -> Seq(Kinds)]
    <3>1. <<"bonding_failed", "closed">> \in Seq(Kinds) /\ <<"closed">> \in Seq(Kinds)
      BY DEF Kinds
    <3> QED
      BY <1>2, <3>1, ConcatFacts DEF Drop
  <2>2. link' \in 0 .. links'
    BY <1>2 DEF Drop, historyVars
  <2> QED
    BY <1>2, <2>1, <2>2 DEF Drop, NoPairing, programVars, userVars, historyVars
<1>3. CASE ReadRefused
  BY <1>3, AppendFacts DEF ReadRefused, Kinds, programVars, stackVars, userVars, historyVars
<1>4. CASE Fail
  BY <1>4, AppendFacts DEF Fail, PostBoth, NoPairing, Kinds, programVars, userVars, historyVars
<1>5. CASE Pair
  BY <1>5, AppendFacts DEF Pair, PostBoth, NoPairing, Kinds, programVars, userVars, historyVars
<1>6. ASSUME NEW s \in Sides, PB0(s) PROVE TypeOK'
  <2>1. edges' \in [Sides -> 0 .. MaxEdges]
    <3>1. CASE prompt[s]
      BY <1>6, <3>1 DEF PB0
    <3>2. CASE ~prompt[s]
      <4>1. edges[s] + 1 \in 0 .. MaxEdges
        BY <1>6, <3>2, BoundAssumption DEF PB0
      <4> QED
        BY <1>6, <3>2, <4>1 DEF PB0
    <3> QED
      BY <3>1, <3>2
  <2>2. signal' \in [Sides -> SUBSET {"PB0", "other"}]
    BY <1>6 DEF PB0
  <2>3. pressed' \in [Sides -> BOOLEAN] /\ answered' \in [Sides -> BOOLEAN]
    BY <1>6 DEF PB0
  <2> QED
    BY <1>6, <2>1, <2>2, <2>3 DEF PB0, programVars, stackVars
<1>7. ASSUME NEW s \in Sides, Mix(s) PROVE TypeOK'
  BY <1>7 DEF Mix, programVars, stackVars, userVars, historyVars
<1>8. ASSUME NEW s \in Sides, Reset(s) PROVE TypeOK'
  <2>1. events' \in [Sides -> Seq(Kinds)]
    <3>1. <<"boot">> \in Seq(Kinds)
      BY DEF Kinds
    <3> QED
      BY <1>8, <3>1, AppendFacts DEF Reset, Kinds
  <2>2. resets' \in 0 .. MaxResets
    BY <1>8, BoundAssumption DEF Reset
  <2>3. /\ radio' \in [Sides -> {"off", "searching", "on"}]
        /\ signal' \in [Sides -> SUBSET {"PB0", "other"}]
        /\ bonding_state' \in [Sides -> {"NOT_BONDED", "BONDING", "BONDED"}]
        /\ prompt' \in [Sides -> BOOLEAN] /\ answered' \in [Sides -> BOOLEAN]
    BY <1>8 DEF Reset
  <2> QED
    BY <1>8, <2>1, <2>2, <2>3 DEF Reset, NoPairing, userVars
<1>9. ASSUME NEW s \in Sides, ExternalSignal(s) PROVE TypeOK'
  BY <1>9 DEF ExternalSignal, userVars, historyVars
<1>10. ASSUME NEW s \in Sides, Handle(s) PROVE TypeOK'
  <2>1. ASSUME NEW e, Take(s, e) PROVE events' \in [Sides -> Seq(Kinds)]
    BY <2>1, TailFacts DEF Take
  <2>2. CASE Boot(s)
    BY <2>1, <2>2 DEF Boot, programVars, userVars, historyVars
  <2>3. CASE Opened(s)
    BY <2>1, <2>3 DEF Opened, programVars, stackVars, userVars, historyVars
  <2>4. CASE Closed(s)
    BY <2>1, <2>4 DEF Closed, userVars, historyVars
  <2>5. CASE ConfirmPasskey(s)
    BY <2>1, <2>5 DEF ConfirmPasskey, stackVars, userVars
  <2>6. CASE BondingFailed(s)
    BY <2>1, <2>6 DEF BondingFailed, stackVars, userVars, historyVars
  <2>7. CASE Bonded(s)
    BY <2>1, <2>7 DEF Bonded, stackVars, userVars, historyVars
  <2>8. CASE IncreaseSecurity
    <3>1. events' \in [Sides -> Seq(Kinds)]
      <4>1. <<"confirm_bonding">> \in Seq(Kinds) /\ << >> \in Seq(Kinds)
        BY DEF Kinds
      <4>2. events'["client"] \in Seq(Kinds)
        BY <2>8, TailFacts, SidesAre DEF IncreaseSecurity
      <4>3. events'["server"] \in Seq(Kinds)
        BY <2>8, <4>1, ConcatFacts, SidesAre DEF IncreaseSecurity
      <4>4. events' = [t \in Sides |-> events'[t]]
        BY <2>8, SidesAre DEF IncreaseSecurity
      <4> QED
        BY <4>2, <4>3, <4>4, SidesAre
    <3>2. attempts' \in Nat /\ seen' \in [Sides -> 0 .. attempts']
      <4>1. attempts' \in {attempts, attempts + 1} /\ attempts \in Nat /\ seen' = seen
        BY <2>8 DEF IncreaseSecurity
      <4>2. 0 .. attempts \subseteq 0 .. attempts'
        BY <4>1
      <4> QED
        BY <4>1, <4>2
    <3> QED
      BY <2>8, <3>1, <3>2 DEF IncreaseSecurity, programVars, userVars
  <2>9. CASE ConfirmBonding
    <3>1. events' \in [Sides -> Seq(Kinds)]
      <4>1. <<"confirm_passkey">> \in Seq(Kinds) /\ << >> \in Seq(Kinds)
        BY DEF Kinds
      <4>2. events'["client"] \in Seq(Kinds)
        BY <2>9, <4>1, ConcatFacts, SidesAre DEF ConfirmBonding
      <4>3. events'["server"] \in Seq(Kinds)
        BY <2>9, <4>1, TailFacts, ConcatFacts, SidesAre DEF ConfirmBonding
      <4>4. events' = [t \in Sides |-> events'[t]]
        BY <2>9, SidesAre DEF ConfirmBonding
      <4> QED
        BY <4>2, <4>3, <4>4, SidesAre
    <3> QED
      BY <2>9, <3>1 DEF ConfirmBonding, programVars, userVars, historyVars
  <2> QED
    BY <1>10, <2>2, <2>3, <2>4, <2>5, <2>6, <2>7, <2>8, <2>9 DEF Handle
<1>11. CASE UNCHANGED vars
  BY <1>11 DEF vars, programVars, stackVars, userVars, historyVars
<1> QED
  BY <1>1, <1>2, <1>3, <1>4, <1>5, <1>6, <1>7, <1>8, <1>9, <1>10, <1>11 DEF Next
-----------------------------------------------------------------------------
(* Links and queues.                                                       *)

\* Nothing on the air: no pairing, and no link.
LEMMA OffAir ==
  ASSUME TypeOK, LinkInv, NEW s \in Sides, radio[s] # "on"
  PROVE  link = 0 /\ smp = NoPairing /\ \A t \in Sides : radio[t] # "on"
BY DEF LinkInv, SideInv

\* With a link the last event is no "boot" and no "closed", nor is any other.
LEMMA OnAir ==
  ASSUME TypeOK, LinkInv, link # 0, NEW s \in Sides
  PROVE  /\ radio[s] = "on"
         /\ \A i \in DOMAIN events[s] : events[s][i] \notin {"boot", "closed"}
BY DEF LinkInv, SideInv

\* A queue that grows by other events with the link up keeps its shape.
LEMMA Grown ==
  ASSUME TypeOK, LinkInv, link # 0, NEW s \in Sides, NEW e \in Kinds \ {"boot", "closed"},
         NEW q, q = Append(events[s], e)
  PROVE  \A i \in DOMAIN q : q[i] \notin {"boot", "closed"}
<1>1. events[s] \in Seq(Kinds)
  BY DEF TypeOK
<1> QED
  BY <1>1, OnAir, AppendFacts

\* What is left of a queue keeps its shape.
LEMMA Shortened ==
  ASSUME TypeOK, LinkInv, NEW s \in Sides, events[s] # << >>
  PROVE  /\ Tail(events[s]) \in Seq(Kinds)
         /\ \A i \in DOMAIN Tail(events[s]) : Tail(events[s])[i] \in {"boot", "closed"} =>
              i = Len(Tail(events[s])) /\ radio[s] = "off"
         /\ \A i \in DOMAIN Tail(events[s]) : Tail(events[s])[i] # "boot"
         /\ Head(events[s]) \in {"boot", "closed"} => Tail(events[s]) = << >>
<1> DEFINE q == events[s]
<1>1. q \in Seq(Kinds)
  BY DEF TypeOK
<1>2. \A i \in DOMAIN q : q[i] \in {"boot", "closed"} => i = Len(q) /\ radio[s] = "off"
  BY DEF LinkInv, SideInv
<1>3. /\ Tail(q) \in Seq(Kinds)
      /\ Len(q) \in Nat /\ Len(q) >= 1
      /\ DOMAIN q = 1 .. Len(q)
      /\ Len(Tail(q)) = Len(q) - 1
      /\ DOMAIN Tail(q) = 1 .. (Len(q) - 1)
      /\ Head(q) = q[1]
      /\ \A i \in 1 .. (Len(q) - 1) : Tail(q)[i] = q[i + 1]
  BY <1>1, TailFacts
<1>4. ASSUME NEW i \in DOMAIN Tail(q)
      PROVE  /\ Tail(q)[i] \in {"boot", "closed"} => i = Len(Tail(q)) /\ radio[s] = "off"
             /\ Tail(q)[i] # "boot"
  <2>1. i + 1 \in DOMAIN q /\ Tail(q)[i] = q[i + 1] /\ i + 1 # 1
    BY <1>3
  <2>2. q[i + 1] = "boot" => q = <<"boot">>
    BY <2>1 DEF LinkInv, SideInv, Pending
  <2>3. q[i + 1] # "boot"
    BY <2>1, <2>2, <1>3
  <2> QED
    BY <1>2, <1>3, <2>1, <2>3
<1>5. q[1] \in {"boot", "closed"} => Tail(q) = << >>
  <2>1. 1 \in DOMAIN q
    BY <1>3
  <2> HIDE DEF q
  <2>2. ASSUME q[1] \in {"boot", "closed"} PROVE Tail(q) = << >>
    <3>1. 1 = Len(q)
      BY <2>1, <2>2, <1>2
    <3>2. Len(Tail(q)) = 0
      BY <3>1, <1>3
    <3> QED
      BY <3>2, <1>3, NoneLeft
  <2> QED
    BY <2>2
<1> QED
  BY <1>3, <1>4, <1>5

\* Each step keeps every side in order.
LEMMA LinkStep ==
  ASSUME TypeOK, TypeOK', LinkInv, [Next]_vars
  PROVE  LinkInv'
<1> USE SidesAre
<1>1. CASE Connect
  <2>1. link = 0 /\ link' # 0
    BY <1>1, OffAir DEF Connect, TypeOK
  <2>2. ASSUME NEW t \in Sides PROVE SideInv(t)'
    <3>1. events[t] = << >> /\ bond[t] = 0 /\ radio'[t] = "on" /\ bond'[t] = 0
      BY <1>1 DEF Connect, LinkInv, SideInv, TypeOK
    <3>2. events'[t] = Append(events[t], "opened")
      BY <1>1 DEF Connect, PostBoth
    <3>3. events[t] \in Seq(Kinds) /\ Len(events[t]) = 0 /\ "opened" \in Kinds
      BY <3>1 DEF TypeOK, Kinds
    <3>4. \A i \in DOMAIN events'[t] : events'[t][i] = "opened"
      BY <3>2, <3>3, AppendFacts
    <3> QED
      BY <2>1, <3>1, <3>4 DEF SideInv, Pending
  <2> QED
    BY <2>1, <2>2 DEF LinkInv
<1>2. CASE Drop
  <2>1. link # 0 /\ link' = 0 /\ smp' = NoPairing
    BY <1>2 DEF Drop, NoPairing
  <2>2. ASSUME NEW t \in Sides PROVE SideInv(t)'
    <3>1. events[t] \in Seq(Kinds) /\ \A i \in DOMAIN events[t] : events[t][i] \notin {"boot", "closed"}
      BY <2>1, OnAir DEF TypeOK
    <3>2. events'[t] = events[t] \o <<"closed">>
            \/ events'[t] = events[t] \o <<"bonding_failed", "closed">>
      BY <1>2 DEF Drop
    <3>3. <<"closed">> \in Seq(Kinds) /\ <<"bonding_failed", "closed">> \in Seq(Kinds)
      BY DEF Kinds
    <3>4. \A i \in DOMAIN events'[t] :
            /\ events'[t][i] # "boot"
            /\ events'[t][i] = "closed" => i = Len(events'[t])
      <4>1. CASE events'[t] = events[t] \o <<"closed">>
        <5>1. Len(<<"closed">>) = 1 /\ <<"closed">>[1] = "closed"
          OBVIOUS
        <5> QED
          BY <3>1, <3>3, <4>1, <5>1, ConcatFacts
      <4>2. CASE events'[t] = events[t] \o <<"bonding_failed", "closed">>
        <5> DEFINE q == Append(events[t], "bonding_failed")
        <5>1. q \in Seq(Kinds) /\ \A i \in DOMAIN q : q[i] \notin {"boot", "closed"}
          BY <2>1, <3>1, AppendFacts, Grown DEF Kinds
        <5>2. events'[t] = Append(q, "closed")
          <6>1. events[t] \in Seq(Kinds)
            BY <3>1
          <6>2. events[t] \o <<"bonding_failed", "closed">>
                  = Append(Append(events[t], "bonding_failed"), "closed")
            BY <6>1, TwoMore, Zenon
          <6> QED
            BY <4>2, <6>2, Zenon DEF q
        <5> HIDE DEF q
        <5> QED
          BY <5>1, <5>2, AppendFacts DEF Kinds
      <4> QED
        BY <3>2, <4>1, <4>2
    <3>5. radio'[t] = "off"
      BY <1>2 DEF Drop
    <3> QED
      BY <2>1, <3>4, <3>5 DEF SideInv, Pending
  <2> QED
    BY <2>1, <2>2 DEF LinkInv, NoPairing
<1>3. CASE ReadRefused \/ Fail \/ Pair
  <2>1. link # 0 /\ link' = link /\ radio' = radio /\ bonding_state' = bonding_state
    BY <1>3 DEF ReadRefused, Fail, Pair, programVars, stackVars, LinkInv, NoPairing
  <2>2. ASSUME NEW t \in Sides PROVE SideInv(t)'
    <3>1. bond'[t] \in {0, link}
      BY <1>3, <2>1 DEF ReadRefused, Fail, Pair, stackVars, LinkInv, SideInv
    <3>2. \/ events'[t] = events[t]
          \/ \E e \in Kinds \ {"boot", "closed"} : events'[t] = Append(events[t], e)
      <4>1. CASE ReadRefused
        BY <4>1 DEF ReadRefused, Kinds, TypeOK
      <4>2. CASE Fail
        BY <4>2 DEF Fail, PostBoth, Kinds
      <4>3. CASE Pair
        BY <4>3 DEF Pair, PostBoth, Kinds
      <4> QED
        BY <1>3, <4>1, <4>2, <4>3
    <3>3. \A i \in DOMAIN events'[t] : events'[t][i] \notin {"boot", "closed"}
      BY <2>1, <3>2, OnAir, Grown
    <3> QED
      BY <2>1, <3>1, <3>3, OnAir DEF SideInv, Pending
  <2> QED
    BY <2>1, <2>2 DEF LinkInv
<1>4. ASSUME NEW s \in Sides, PB0(s) \/ Mix(s) PROVE LinkInv'
  BY <1>4 DEF PB0, Mix, programVars, stackVars, LinkInv, SideInv, Pending, NoPairing
<1>5. ASSUME NEW s \in Sides, Reset(s) PROVE LinkInv'
  <2>1. link' = 0 /\ smp' = NoPairing
    BY <1>5 DEF Reset, NoPairing
  <2>2. SideInv(s)'
    <3>1. events'[s] = <<"boot">> /\ radio'[s] = "off" /\ bonding_state'[s] = "NOT_BONDED"
      BY <1>5 DEF Reset, TypeOK
    <3> QED
      BY <2>1, <3>1 DEF SideInv, Pending
  <2>3. ASSUME NEW t \in Sides, t # s PROVE SideInv(t)'
    <3>1. bonding_state'[t] = bonding_state[t] /\ bond'[t] = bond[t]
      BY <1>5, <2>3 DEF Reset, TypeOK
    <3>2. CASE link = 0
      <4>1. events'[t] = events[t] /\ radio'[t] = radio[t]
        BY <1>5, <2>3, <3>2 DEF Reset
      <4> QED
        BY <2>1, <3>1, <3>2, <4>1 DEF LinkInv, SideInv, Pending
    <3>3. CASE link # 0
      <4>1. events'[t] = Append(events[t], "closed") /\ radio'[t] = "off"
        BY <1>5, <2>3, <3>3 DEF Reset
      <4>2. events[t] \in Seq(Kinds) /\ "closed" \in Kinds
        BY DEF TypeOK, Kinds
      <4>3. \A i \in DOMAIN events'[t] :
              /\ events'[t][i] # "boot"
              /\ events'[t][i] = "closed" => i = Len(events'[t])
        BY <3>3, <4>1, <4>2, AppendFacts, OnAir
      <4> QED
        BY <2>1, <4>1, <4>3 DEF SideInv, Pending
    <3> QED
      BY <3>2, <3>3
  <2> QED
    BY <2>1, <2>2, <2>3 DEF LinkInv, NoPairing
<1>6. ASSUME NEW s \in Sides, ExternalSignal(s) PROVE LinkInv'
  <2>1. /\ events' = events /\ radio' = radio /\ link' = link /\ bond' = bond
        /\ smp = NoPairing => smp' = smp
    BY <1>6 DEF ExternalSignal, NoPairing
  <2>2. ASSUME NEW t \in Sides, bonding_state[t] = "NOT_BONDED", Pending(t, "boot")
        PROVE  bonding_state'[t] = "NOT_BONDED"
    BY <1>6, <2>2 DEF ExternalSignal, Answers, TypeOK
  <2> QED
    BY <2>1, <2>2 DEF LinkInv, SideInv, Pending, NoPairing
<1>7. ASSUME NEW s \in Sides, Handle(s) PROVE LinkInv'
  <2>1. events[s] # << >>
    BY <1>7 DEF Handle, Boot, Opened, Closed, ConfirmPasskey, BondingFailed, Bonded, Take,
                IncreaseSecurity, ConfirmBonding
  <2>2. ASSUME NEW e, Take(s, e)
        PROVE  /\ events'[s] = Tail(events[s])
               /\ \A t \in Sides : t # s => events'[t] = events[t]
               /\ \A i \in DOMAIN events'[s] : events'[s][i] \in {"boot", "closed"} =>
                    i = Len(events'[s]) /\ radio[s] = "off"
               /\ ~Pending(s, "boot")'
               /\ e \in {"boot", "closed"} => events'[s] = << >> /\ radio[s] = "off"
    <3>1. events'[s] = Tail(events[s]) /\ \A t \in Sides : t # s => events'[t] = events[t]
      BY <2>2 DEF Take, TypeOK
    <3>2. e \in {"boot", "closed"} => radio[s] = "off"
      <4>1. events[s] \in Seq(Kinds)
        BY DEF TypeOK
      <4>2. 1 \in DOMAIN events[s] /\ events[s][1] = e
        BY <2>1, <2>2, <4>1, TailFacts DEF Take
      <4> QED
        BY <4>2 DEF LinkInv, SideInv
    <3> QED
      BY <2>1, <2>2, <3>1, <3>2, Shortened DEF Take, Pending
  <2>3. CASE Boot(s) \/ Closed(s)
    <3>1. /\ events'[s] = << >> /\ radio[s] = "off"
          /\ \A t \in Sides : t # s => events'[t] = events[t]
      BY <2>2, <2>3 DEF Boot, Closed
    <3>2. /\ link = 0 /\ link' = 0 /\ smp' = NoPairing
          /\ \A t \in Sides : radio[t] # "on"
      BY <2>3, <3>1, OffAir DEF Boot, Closed, NoPairing
    <3>3. /\ radio'[s] = "searching" /\ bond'[s] = 0
          /\ \A t \in Sides : t # s =>
               radio'[t] = radio[t] /\ bond'[t] = bond[t] /\ bonding_state'[t] = bonding_state[t]
      <4>1. CASE Boot(s)
        BY <4>1 DEF Boot, programVars, TypeOK
      <4>2. CASE Closed(s)
        BY <4>2 DEF Closed, TypeOK
      <4> QED
        BY <2>3, <4>1, <4>2
    <3>4. SideInv(s)'
      BY <3>1, <3>2, <3>3 DEF SideInv, Pending
    <3>5. ASSUME NEW t \in Sides, t # s PROVE SideInv(t)'
      BY <3>1, <3>2, <3>3, <3>5 DEF LinkInv, SideInv, Pending
    <3> QED
      BY <3>2, <3>4, <3>5 DEF LinkInv, NoPairing
  <2>4. CASE Opened(s) \/ ConfirmPasskey(s) \/ BondingFailed(s) \/ Bonded(s)
    <3>1. PICK e : Take(s, e)
      BY <2>4 DEF Opened, ConfirmPasskey, BondingFailed, Bonded
    <3>2. /\ link' = link /\ radio' = radio /\ bond' = bond /\ smp' = smp
          /\ \A t \in Sides : t # s => bonding_state'[t] = bonding_state[t]
      <4>1. CASE Opened(s)
        BY <4>1 DEF Opened, stackVars, programVars
      <4>2. CASE ConfirmPasskey(s)
        BY <4>2 DEF ConfirmPasskey, stackVars, TypeOK
      <4>3. CASE BondingFailed(s)
        BY <4>3 DEF BondingFailed, stackVars, TypeOK
      <4>4. CASE Bonded(s)
        BY <4>4 DEF Bonded, stackVars, TypeOK
      <4> QED
        BY <2>4, <4>1, <4>2, <4>3, <4>4
    <3>3. SideInv(s)'
      <4>1. radio[s] # "searching"
        BY <2>1 DEF LinkInv, SideInv
      <4> QED
        BY <2>2, <3>1, <3>2, <4>1 DEF LinkInv, SideInv
    <3>4. ASSUME NEW t \in Sides, t # s PROVE SideInv(t)'
      BY <2>2, <3>1, <3>2, <3>4 DEF LinkInv, SideInv, Pending
    <3> QED
      BY <3>2, <3>3, <3>4 DEF LinkInv, NoPairing
  <2>5. CASE IncreaseSecurity /\ s = "client"
    <3> DEFINE starts == link # 0 /\ smp = NoPairing
    <3>1. /\ link' = link /\ radio' = radio /\ bond' = bond
          /\ bonding_state' = bonding_state
          /\ link = 0 => smp' = smp
          /\ events'["client"] = Tail(events["client"]) /\ events["client"] # << >>
      BY <2>5 DEF IncreaseSecurity, programVars
    <3>2. SideInv("client")'
      BY <3>1, Shortened DEF LinkInv, SideInv, Pending
    <3>3. SideInv("server")'
      <4>1. CASE starts
        <5>1. events'["server"] = events["server"] \o <<"confirm_bonding">>
          BY <2>5, <4>1 DEF IncreaseSecurity
        <5>2. events'["server"] = Append(events["server"], "confirm_bonding")
          BY <5>1, OneMore DEF TypeOK
        <5>3. \A i \in DOMAIN events'["server"] : events'["server"][i] \notin {"boot", "closed"}
          BY <4>1, <5>2, Grown DEF Kinds
        <5> QED
          BY <3>1, <4>1, <5>3, OnAir DEF LinkInv, SideInv, Pending
      <4>2. CASE ~starts
        <5>1. events'["server"] = events["server"] \o << >>
          BY <2>5, <4>2 DEF IncreaseSecurity
        <5>2. events'["server"] = events["server"]
          BY <5>1, NoMore DEF TypeOK
        <5> QED
          BY <3>1, <5>2 DEF LinkInv, SideInv, Pending
      <4> QED
        BY <4>1, <4>2
    <3> QED
      BY <3>1, <3>2, <3>3 DEF LinkInv, NoPairing
  <2>6. CASE ConfirmBonding /\ s = "server"
    <3> DEFINE goes_on == smp["server"] = "requested"
    <3>1. /\ link' = link /\ radio' = radio /\ bond' = bond /\ bonding_state' = bonding_state
          /\ events["server"] # << >>
      BY <2>6 DEF ConfirmBonding, programVars
    <3>2. CASE goes_on
      <4>1. link # 0
        BY <3>2 DEF LinkInv, NoPairing
      <4>2. /\ events'["client"] = events["client"] \o <<"confirm_passkey">>
            /\ events'["server"] = Tail(events["server"]) \o <<"confirm_passkey">>
        BY <2>6, <3>2 DEF ConfirmBonding
      <4>3. /\ events'["client"] = Append(events["client"], "confirm_passkey")
            /\ events'["server"] = Append(Tail(events["server"]), "confirm_passkey")
            /\ Tail(events["server"]) \in Seq(Kinds) /\ "confirm_passkey" \in Kinds
        <5>1. events["client"] \in Seq(Kinds)
          BY DEF TypeOK
        <5>2. Tail(events["server"]) \in Seq(Kinds)
          BY <3>1, Shortened
        <5>3. "confirm_passkey" \in Kinds
          BY DEF Kinds
        <5> QED
          BY <4>2, <5>1, <5>2, <5>3, OneMore
      <4>4. \A i \in DOMAIN events'["client"] : events'["client"][i] \notin {"boot", "closed"}
        BY <4>1, <4>3, Grown
      <4>5. \A i \in DOMAIN Tail(events["server"]) :
              Tail(events["server"])[i] \notin {"boot", "closed"}
        <5>1. radio["server"] = "on"
          BY <4>1, OnAir
        <5> QED
          BY <3>1, <5>1, Shortened
      <4>6. \A i \in DOMAIN events'["server"] : events'["server"][i] \notin {"boot", "closed"}
        BY <4>3, <4>5, AppendFacts
      <4> QED
        BY <3>1, <4>1, <4>4, <4>6, OnAir DEF LinkInv, SideInv, Pending
    <3>3. CASE ~goes_on
      <4>1. /\ events'["client"] = events["client"] \o << >> /\ smp' = smp
            /\ events'["server"] = Tail(events["server"]) \o << >>
        BY <2>6, <3>3 DEF ConfirmBonding
      <4>2. /\ events'["client"] = events["client"]
            /\ events'["server"] = Tail(events["server"])
        BY <3>1, <4>1, NoMore, Shortened DEF TypeOK
      <4>3. SideInv("server")'
        BY <3>1, <4>2, Shortened DEF LinkInv, SideInv, Pending
      <4>4. SideInv("client")'
        BY <3>1, <4>2 DEF LinkInv, SideInv, Pending
      <4> QED
        BY <3>1, <4>1, <4>3, <4>4 DEF LinkInv, NoPairing
    <3> QED
      BY <3>2, <3>3
  <2> QED
    BY <1>7, <2>3, <2>4, <2>5, <2>6 DEF Handle
<1>8. CASE UNCHANGED vars
  BY <1>8 DEF vars, programVars, stackVars, LinkInv, SideInv, Pending, NoPairing
<1> QED
  BY <1>1, <1>2, <1>3, <1>4, <1>5, <1>6, <1>7, <1>8 DEF Next
-----------------------------------------------------------------------------
(* What is pending.                                                        *)

\* An event posted is pending, and the others stay.
LEMMA Posts ==
  ASSUME TypeOK, NEW s \in Sides, NEW e \in Kinds, events'[s] = Append(events[s], e)
  PROVE  /\ Pending(s, e)'
         /\ \A k : Pending(s, k) => Pending(s, k)'
         /\ \A k : Pending(s, k)' => (Pending(s, k) \/ k = e)
<1> DEFINE q == events[s]
           r == events'[s]
<1>1. /\ Len(q) \in Nat
      /\ DOMAIN q = 1 .. Len(q)
      /\ DOMAIN r = 1 .. (Len(q) + 1)
      /\ \A i \in 1 .. Len(q) : r[i] = q[i]
      /\ r[Len(q) + 1] = e
  BY AppendFacts DEF TypeOK
<1> HIDE DEF q, r
<1>2. Len(q) + 1 \in DOMAIN r /\ r[Len(q) + 1] = e
  BY <1>1
<1>3. ASSUME NEW k, NEW i \in DOMAIN q, q[i] = k PROVE \E j \in DOMAIN r : r[j] = k
  <2>1. i \in DOMAIN r /\ r[i] = q[i]
    BY <1>1
  <2> QED
    BY <1>3, <2>1
<1>4. ASSUME NEW k, NEW i \in DOMAIN r, r[i] = k PROVE (\E j \in DOMAIN q : q[j] = k) \/ k = e
  <2>1. CASE i = Len(q) + 1
    BY <1>1, <1>4, <2>1
  <2>2. CASE i # Len(q) + 1
    <3>1. i \in DOMAIN q /\ r[i] = q[i]
      BY <1>1, <2>2
    <3> QED
      BY <1>4, <3>1
  <2> QED
    BY <2>1, <2>2
<1> QED
  BY <1>2, <1>3, <1>4 DEF Pending, q, r

\* An event taken is the first, and the others stay.
LEMMA Takes ==
  ASSUME TypeOK, NEW s \in Sides, events[s] # << >>, events'[s] = Tail(events[s])
  PROVE  /\ \A k : Pending(s, k)' => Pending(s, k)
         /\ \A k : Pending(s, k) /\ k # Head(events[s]) => Pending(s, k)'
<1> DEFINE q == events[s]
           r == events'[s]
<1>1. /\ q \in Seq(Kinds) /\ Len(q) \in Nat /\ Len(q) >= 1
      /\ DOMAIN q = 1 .. Len(q)
      /\ DOMAIN r = 1 .. (Len(q) - 1)
      /\ Head(q) = q[1]
      /\ \A i \in 1 .. (Len(q) - 1) : r[i] = q[i + 1]
  BY TailFacts DEF TypeOK
<1> HIDE DEF q, r
<1>2. ASSUME NEW k, NEW i \in DOMAIN r, r[i] = k PROVE \E j \in DOMAIN q : q[j] = k
  BY <1>1, <1>2
<1>3. ASSUME NEW k, NEW j \in DOMAIN q, q[j] = k, k # Head(q) PROVE \E i \in DOMAIN r : r[i] = k
  <2>1. j - 1 \in DOMAIN r /\ r[j - 1] = q[j]
    BY <1>1, <1>3
  <2> QED
    BY <1>3, <2>1
<1> QED
  BY <1>2, <1>3 DEF Pending, q, r

\* A lost link is told to both sides.
LEMMA Drops ==
  ASSUME TypeOK, Drop, NEW s \in Sides
  PROVE  /\ Pending(s, "closed")'
         /\ \A k : Pending(s, k) => Pending(s, k)'
         /\ smp # NoPairing => Pending(s, "bonding_failed")'
<1>1. events[s] \in Seq(Kinds)
  BY DEF TypeOK
<1>2. CASE smp = NoPairing
  <2>1. events'[s] = Append(events[s], "closed")
    BY <1>1, <1>2, OneMore DEF Drop
  <2> QED
    BY <1>2, <2>1, Posts DEF Kinds
<1>3. CASE smp # NoPairing
  <2> DEFINE q == Append(events[s], "bonding_failed")
  <2>1. events'[s] = Append(q, "closed")
    <3>1. events'[s] = events[s] \o <<"bonding_failed", "closed">>
      BY <1>3 DEF Drop
    <3>2. events[s] \o <<"bonding_failed", "closed">>
            = Append(Append(events[s], "bonding_failed"), "closed")
      BY <1>1, TwoMore
    <3> QED
      BY <3>1, <3>2
  <2>2. /\ q \in Seq(Kinds) /\ Len(events[s]) \in Nat
        /\ DOMAIN events[s] = 1 .. Len(events[s]) /\ DOMAIN q = 1 .. (Len(events[s]) + 1)
        /\ Len(q) = Len(events[s]) + 1
        /\ \A i \in 1 .. Len(events[s]) : q[i] = events[s][i]
        /\ q[Len(events[s]) + 1] = "bonding_failed"
    BY <1>1, AppendFacts DEF Kinds
  <2> HIDE DEF q
  <2>3. \A i \in 1 .. Len(q) : i \in DOMAIN events'[s] /\ events'[s][i] = q[i]
    BY <2>1, <2>2, AppendFacts DEF Kinds
  <2>4. \E i \in DOMAIN events'[s] : events'[s][i] = "closed"
    BY <2>1, <2>2, AppendFacts DEF Kinds
  <2>5. ASSUME NEW k, NEW i \in DOMAIN events[s], events[s][i] = k
        PROVE  \E j \in DOMAIN events'[s] : events'[s][j] = k
    <3>1. i \in 1 .. Len(q) /\ q[i] = k
      BY <2>2, <2>5
    <3> QED
      BY <2>3, <3>1
  <2>6. \E i \in DOMAIN events'[s] : events'[s][i] = "bonding_failed"
    <3>1. Len(events[s]) + 1 \in 1 .. Len(q)
      BY <2>2
    <3> QED
      BY <2>2, <2>3, <3>1
  <2> QED
    BY <2>4, <2>5, <2>6 DEF Pending
<1> QED
  BY <1>2, <1>3

\* What a request for security does to the queues.
LEMMA Requests ==
  ASSUME TypeOK, IncreaseSecurity
  PROVE  /\ events["client"] # << >> /\ Head(events["client"]) = "insufficient"
         /\ events'["client"] = Tail(events["client"])
         /\ \/ /\ ~(link # 0 /\ smp = NoPairing)
               /\ events'["server"] = events["server"] /\ smp' = smp /\ attempts' = attempts
            \/ /\ link # 0 /\ smp = NoPairing
               /\ events'["server"] = Append(events["server"], "confirm_bonding")
               /\ smp' = [t \in Sides |-> "requested"] /\ attempts' = attempts + 1
<1>1. events["server"] \in Seq(Kinds)
  BY SidesAre DEF TypeOK
<1>2. events["server"] \o << >> = events["server"]
  BY <1>1, NoMore
<1>3. events["server"] \o <<"confirm_bonding">> = Append(events["server"], "confirm_bonding")
  BY <1>1, OneMore
<1> QED
  BY <1>2, <1>3, SidesAre DEF IncreaseSecurity

\* What the server's consent does to the queues.
LEMMA Consents ==
  ASSUME TypeOK, LinkInv, ConfirmBonding
  PROVE  /\ events["server"] # << >> /\ Head(events["server"]) = "confirm_bonding"
         /\ \/ /\ smp["server"] # "requested" /\ smp' = smp
               /\ events'["client"] = events["client"]
               /\ events'["server"] = Tail(events["server"])
            \/ /\ smp["server"] = "requested" /\ smp' = [t \in Sides |-> "asked"]
               /\ events'["client"] = Append(events["client"], "confirm_passkey")
               /\ events'["server"] = Append(Tail(events["server"]), "confirm_passkey")
<1>1. events["server"] # << >> /\ events["client"] \in Seq(Kinds)
  BY SidesAre DEF TypeOK, ConfirmBonding
<1>2. Tail(events["server"]) \in Seq(Kinds)
  BY <1>1, Shortened, SidesAre
<1>3. /\ events["client"] \o << >> = events["client"]
      /\ Tail(events["server"]) \o << >> = Tail(events["server"])
  BY <1>1, <1>2, NoMore
<1>4. /\ events["client"] \o <<"confirm_passkey">> = Append(events["client"], "confirm_passkey")
      /\ Tail(events["server"]) \o <<"confirm_passkey">>
           = Append(Tail(events["server"]), "confirm_passkey")
  BY <1>1, <1>2, OneMore
<1> QED
  BY <1>3, <1>4, SidesAre DEF ConfirmBonding

\* The server's consent takes its own event, and adds none but the passkey's.
LEMMA ConsentKeeps ==
  ASSUME TypeOK, LinkInv, ConfirmBonding
  PROVE  /\ \A k : Pending("server", k)' => Pending("server", k) \/ k = "confirm_passkey"
         /\ \A k : Pending("server", k) /\ k # "confirm_bonding" => Pending("server", k)'
<1> DEFINE q == events["server"]
           r == events'["server"]
<1>1. /\ q # << >> /\ Head(q) = "confirm_bonding"
      /\ r = Tail(q) \/ r = Append(Tail(q), "confirm_passkey")
  BY Consents
<1>2. /\ Tail(q) \in Seq(Kinds)
      /\ Len(q) \in Nat /\ Len(q) >= 1
      /\ DOMAIN q = 1 .. Len(q)
      /\ Len(Tail(q)) = Len(q) - 1
      /\ DOMAIN Tail(q) = 1 .. (Len(q) - 1)
      /\ Head(q) = q[1]
      /\ \A i \in 1 .. (Len(q) - 1) : Tail(q)[i] = q[i + 1]
  BY <1>1, TailFacts, SidesAre DEF TypeOK
<1> HIDE DEF q, r
<1>3. /\ \A i \in 1 .. (Len(q) - 1) : i \in DOMAIN r /\ r[i] = q[i + 1]
      /\ \A i \in DOMAIN r : i \in 1 .. (Len(q) - 1) \/ r[i] = "confirm_passkey"
  <2>1. CASE r = Tail(q)
    BY <1>2, <2>1
  <2>2. CASE r = Append(Tail(q), "confirm_passkey")
    <3> DEFINE t == Tail(q)
    <3>1. t \in Seq(Kinds) /\ "confirm_passkey" \in Kinds /\ Len(t) = Len(q) - 1
      BY <1>2 DEF Kinds
    <3>2. \A i \in 1 .. Len(t) : t[i] = q[i + 1]
      BY <1>2
    <3> HIDE DEF t
    <3>3. r = Append(t, "confirm_passkey")
      BY <2>2 DEF t
    <3>4. /\ DOMAIN r = 1 .. (Len(t) + 1) /\ Len(t) \in Nat
          /\ \A i \in 1 .. Len(t) : r[i] = t[i]
          /\ r[Len(t) + 1] = "confirm_passkey"
      BY <3>1, <3>3, AppendFacts
    <3> QED
      BY <1>2, <3>1, <3>2, <3>4
  <2> QED
    BY <1>1, <2>1, <2>2
<1>4. ASSUME NEW k, NEW i \in DOMAIN r, r[i] = k
      PROVE  (\E j \in DOMAIN q : q[j] = k) \/ k = "confirm_passkey"
  BY <1>2, <1>3, <1>4
<1>5. ASSUME NEW k, NEW j \in DOMAIN q, q[j] = k, k # "confirm_bonding"
      PROVE  \E i \in DOMAIN r : r[i] = k
  <2>1. j # 1
    BY <1>1, <1>2, <1>5
  <2>2. j - 1 \in 1 .. (Len(q) - 1) /\ (j - 1) + 1 = j
    BY <1>2, <2>1
  <2>3. j - 1 \in DOMAIN r /\ r[j - 1] = q[j]
    BY <1>3, <2>2
  <2> QED
    BY <1>5, <2>3
<1> QED
  BY <1>4, <1>5 DEF Pending, q, r
-----------------------------------------------------------------------------
(* Both security managers.                                                 *)

\* The managers ask and stop together.
LEMMA SmpStep ==
  ASSUME TypeOK, LinkInv, SmpInv, [Next]_vars
  PROVE  SmpInv'
<1> USE SidesAre
<1>1. \A s \in Sides : smp[s] \in {"none", "requested", "asked", "confirmed"}
  BY DEF TypeOK
<1>2. CASE Connect \/ ReadRefused
  BY <1>2 DEF Connect, ReadRefused, stackVars, SmpInv
<1>3. CASE Drop \/ Fail \/ Pair
  BY <1>3 DEF Drop, Fail, Pair, NoPairing, SmpInv
<1>4. ASSUME NEW s \in Sides, PB0(s) \/ Mix(s) PROVE SmpInv'
  BY <1>4 DEF PB0, Mix, stackVars, SmpInv
<1>5. ASSUME NEW s \in Sides, Reset(s) PROVE SmpInv'
  BY <1>5 DEF Reset, NoPairing, SmpInv
<1>6. ASSUME NEW s \in Sides, ExternalSignal(s) PROVE SmpInv'
  <2>1. \/ smp' = smp
        \/ smp[s] = "asked" /\ smp' = [smp EXCEPT ![s] = "confirmed"]
    BY <1>6 DEF ExternalSignal
  <2>2. smp \in [Sides -> {"none", "requested", "asked", "confirmed"}]
    BY DEF TypeOK
  <2> QED
    BY <2>1, <2>2 DEF SmpInv
<1>7. ASSUME NEW s \in Sides, Handle(s) PROVE SmpInv'
  <2>1. CASE smp' = smp
    BY <2>1 DEF SmpInv
  <2>2. CASE IncreaseSecurity
    BY <2>2, Requests DEF SmpInv
  <2>3. CASE ConfirmBonding
    BY <2>3, Consents DEF SmpInv
  <2>4. Opened(s) \/ ConfirmPasskey(s) \/ BondingFailed(s) \/ Bonded(s) => smp' = smp
    BY DEF Opened, ConfirmPasskey, BondingFailed, Bonded, stackVars
  <2>5. Boot(s) \/ Closed(s) => smp' = smp
    BY DEF Boot, Closed
  <2> QED
    BY <1>7, <2>1, <2>2, <2>3, <2>4, <2>5 DEF Handle
<1>8. CASE UNCHANGED vars
  BY <1>8 DEF vars, stackVars, SmpInv
<1> QED
  BY <1>2, <1>3, <1>4, <1>5, <1>6, <1>7, <1>8 DEF Next
-----------------------------------------------------------------------------
(* Who takes itself for bonded.                                            *)

\* What a side's being bonded rests on.
Backed(s) ==
  \/ link # 0 /\ bond[s] = link
  \/ s = "client" /\ smp[s] = "confirmed"
  \/ Pending(s, "closed") \/ (s = "client" /\ Pending(s, "bonding_failed"))

\* A side that searches, or is about to start, does not take itself for bonded.
LEMMA IdleIsUnbonded ==
  ASSUME TypeOK, LinkInv, BondedIsBacked, NEW s \in Sides, radio[s] = "searching"
  PROVE  bonding_state[s] # "BONDED" /\ \A k : ~Pending(s, k)
<1>1. events[s] = << >> /\ link = 0 /\ smp[s] = "none"
  BY OffAir DEF LinkInv, SideInv, NoPairing
<1>2. \A k : ~Pending(s, k)
  BY <1>1 DEF Pending
<1> QED
  BY <1>1, <1>2 DEF BondedIsBacked

\* A step that leaves links, bonds and confirmations alone and takes no
\* "closed", and no "bonding_failed" of the client, leaves what a bonded
\* side rests on.
LEMMA StaysBacked ==
  ASSUME TypeOK, NEW s \in Sides, Backed(s),
         link' = link, bond'[s] = bond[s],
         smp[s] = "confirmed" => smp'[s] = "confirmed",
         Pending(s, "closed") => Pending(s, "closed")',
         s = "client" /\ Pending(s, "bonding_failed") => Pending(s, "bonding_failed")'
  PROVE  Backed(s)'
BY DEF Backed

LEMMA BackedStep ==
  ASSUME TypeOK, TypeOK', LinkInv, LinkInv', SmpInv, ServerInv, BondedIsBacked, [Next]_vars
  PROVE  ServerInv' /\ BondedIsBacked'
<1> USE SidesAre
<1>0. SUFFICES ServerInv' /\ \A s \in Sides : bonding_state'[s] = "BONDED" => Backed(s)'
  BY DEF BondedIsBacked, Backed
<1>b. \A s \in Sides : bonding_state[s] = "BONDED" => Backed(s)
  BY DEF BondedIsBacked, Backed
<1>s. Pending("server", "bonded") => Backed("server")
  BY DEF ServerInv, Backed
<1>t. ServerInv' <=> (Pending("server", "bonded")' => Backed("server")')
  BY DEF ServerInv, Backed
<1>1. CASE Connect
  <2>1. ASSUME NEW s \in Sides
        PROVE  bonding_state'[s] # "BONDED" /\ ~Pending(s, "bonded")'
    <3>1. bonding_state[s] # "BONDED" /\ ~Pending(s, "bonded") /\ bonding_state' = bonding_state
      BY <1>1, IdleIsUnbonded DEF Connect, programVars
    <3>2. events'[s] = Append(events[s], "opened") /\ "opened" \in Kinds
      BY <1>1 DEF Connect, PostBoth, Kinds
    <3> QED
      BY <3>1, <3>2, Posts
  <2> QED
    BY <2>1, <1>t
<1>2. CASE Drop
  BY <1>2, <1>t, Drops DEF Backed
<1>3. CASE ReadRefused
  <2>1. link' = link /\ bond' = bond /\ smp' = smp /\ bonding_state' = bonding_state
    BY <1>3 DEF ReadRefused, stackVars, programVars
  <2>2. /\ events'["client"] = Append(events["client"], "insufficient")
        /\ events'["server"] = events["server"] /\ "insufficient" \in Kinds
    BY <1>3 DEF ReadRefused, TypeOK, Kinds
  <2>3. \A k : Pending("client", k) => Pending("client", k)'
    BY <2>2, Posts
  <2>4. \A k : Pending("server", k) <=> Pending("server", k)'
    BY <2>2 DEF Pending
  <2> QED
    BY <2>1, <2>3, <2>4, <1>b, <1>s, <1>t, StaysBacked
<1>4. CASE Fail
  <2>1. link' = link /\ bond' = bond /\ bonding_state' = bonding_state
    BY <1>4 DEF Fail, programVars
  <2>2. \A s \in Sides : events'[s] = Append(events[s], "bonding_failed")
    BY <1>4 DEF Fail, PostBoth
  <2>3. ASSUME NEW s \in Sides
        PROVE  /\ Pending(s, "bonding_failed")'
               /\ \A k : Pending(s, k) => Pending(s, k)'
               /\ Pending(s, "bonded")' => Pending(s, "bonded")
    BY <2>2, Posts DEF Kinds
  <2>4. Backed("client")'
    BY <2>3 DEF Backed
  <2>5. Backed("server") => Backed("server")'
    BY <2>1, <2>3 DEF Backed
  <2> QED
    BY <2>1, <2>3, <2>4, <2>5, <1>b, <1>s, <1>t
<1>5. CASE Pair
  <2>1. link # 0
    BY <1>5 DEF Pair, LinkInv, NoPairing
  <2>2. \A s \in Sides : link' = link /\ bond'[s] = link
    BY <1>5 DEF Pair
  <2> QED
    BY <2>1, <2>2, <1>t DEF Backed
<1>6. ASSUME NEW u \in Sides, PB0(u) \/ Mix(u)
      PROVE  ServerInv' /\ \A s \in Sides : bonding_state'[s] = "BONDED" => Backed(s)'
  <2>1. /\ link' = link /\ bond' = bond /\ smp' = smp /\ bonding_state' = bonding_state
        /\ events' = events
    BY <1>6 DEF PB0, Mix, stackVars, programVars
  <2> QED
    BY <2>1, <1>b, <1>s, <1>t DEF Backed, Pending
<1>7. ASSUME NEW u \in Sides, Reset(u)
      PROVE  ServerInv' /\ \A s \in Sides : bonding_state'[s] = "BONDED" => Backed(s)'
  <2>1. bonding_state'[u] # "BONDED" /\ ~Pending(u, "bonded")'
    <3>1. events'[u] = <<"boot">> /\ bonding_state'[u] = "NOT_BONDED"
      BY <1>7 DEF Reset, TypeOK
    <3> QED
      BY <3>1 DEF Pending
  <2>2. ASSUME NEW t \in Sides, t # u
        PROVE  /\ bonding_state'[t] = bonding_state[t]
               /\ Pending(t, "bonded")' => Pending(t, "bonded")
               /\ Backed(t) => Backed(t)'
    <3>1. bonding_state'[t] = bonding_state[t] /\ bond' = bond
      BY <1>7, <2>2 DEF Reset, TypeOK
    <3>2. CASE link = 0
      <4>1. events'[t] = events[t] /\ smp[t] = "none"
        BY <1>7, <2>2, <3>2 DEF Reset, LinkInv, NoPairing
      <4> QED
        BY <3>1, <3>2, <4>1 DEF Backed, Pending
    <3>3. CASE link # 0
      <4>1. events'[t] = Append(events[t], "closed") /\ "closed" \in Kinds
        BY <1>7, <2>2, <3>3 DEF Reset, Kinds
      <4>2. Pending(t, "closed")' /\ (Pending(t, "bonded")' => Pending(t, "bonded"))
        BY <4>1, Posts
      <4> QED
        BY <3>1, <4>2 DEF Backed
    <3> QED
      BY <3>2, <3>3
  <2> QED
    BY <2>1, <2>2, <1>b, <1>s, <1>t
<1>8. ASSUME NEW u \in Sides, ExternalSignal(u)
      PROVE  ServerInv' /\ \A s \in Sides : bonding_state'[s] = "BONDED" => Backed(s)'
  <2>1. link' = link /\ bond' = bond /\ events' = events
    BY <1>8 DEF ExternalSignal
  <2>2. \A s \in Sides : smp[s] = "confirmed" => smp'[s] = "confirmed"
    BY <1>8 DEF ExternalSignal, TypeOK
  <2>3. \A s \in Sides : bonding_state'[s] = "BONDED" =>
          bonding_state[s] = "BONDED" \/ (s = "client" /\ smp'[s] = "confirmed")
    BY <1>8 DEF ExternalSignal, TypeOK
  <2>4. \A s \in Sides : \A k : Pending(s, k)' <=> Pending(s, k)
    BY <2>1 DEF Pending
  <2>5. \A s \in Sides : Backed(s) => Backed(s)'
    BY <2>1, <2>2, <2>4, StaysBacked
  <2>6. ASSUME NEW s \in Sides, bonding_state'[s] = "BONDED" PROVE Backed(s)'
    BY <2>3, <2>5, <2>6, <1>b DEF Backed
  <2> QED
    BY <2>4, <2>5, <2>6, <1>s, <1>t
<1>9. ASSUME NEW u \in Sides, Handle(u)
      PROVE  ServerInv' /\ \A s \in Sides : bonding_state'[s] = "BONDED" => Backed(s)'
  <2>1. ASSUME NEW e, Take(u, e)
        PROVE  /\ \A t \in Sides : t # u => \A k : Pending(t, k)' <=> Pending(t, k)
               /\ \A k : Pending(u, k)' => Pending(u, k)
               /\ \A k : Pending(u, k) /\ k # e => Pending(u, k)'
               /\ Pending(u, e)
    <3>1. /\ events[u] # << >> /\ e = Head(events[u]) /\ events'[u] = Tail(events[u])
          /\ \A t \in Sides : t # u => events'[t] = events[t]
      BY <2>1 DEF Take, TypeOK
    <3>2. Pending(u, e)
      <4> DEFINE q == events[u]
      <4>0. q \in Seq(Kinds) /\ q # << >>
        BY <3>1 DEF TypeOK
      <4>1. 1 \in DOMAIN q /\ q[1] = e
        <5> HIDE DEF q
        <5>1. Len(q) \in Nat /\ Len(q) >= 1 /\ DOMAIN q = 1 .. Len(q) /\ Head(q) = q[1]
          BY <4>0, TailFacts
        <5>2. Head(q) = e
          BY <3>1 DEF q
        <5> QED
          BY <5>1, <5>2
      <4> QED
        BY <4>1 DEF Pending
    <3>3. \A t \in Sides : t # u => \A k : Pending(t, k)' <=> Pending(t, k)
      BY <3>1 DEF Pending
    <3> QED
      BY <3>1, <3>2, <3>3, Takes
  <2>2. CASE Boot(u) \/ Closed(u)
    <3>1. /\ bonding_state'[u] # "BONDED" /\ link' = link /\ smp' = smp
          /\ \A t \in Sides : t # u => bonding_state'[t] = bonding_state[t] /\ bond'[t] = bond[t]
      <4>1. CASE Boot(u)
        <5>1. Pending(u, "boot")
          BY <4>1, <2>1 DEF Boot
        <5>2. bonding_state[u] = "NOT_BONDED"
          BY <5>1 DEF LinkInv, SideInv
        <5> QED
          BY <4>1, <5>2 DEF Boot, programVars, TypeOK
      <4>2. CASE Closed(u)
        BY <4>2 DEF Closed, TypeOK
      <4> QED
        BY <2>2, <4>1, <4>2
    <3>2. /\ \A k : ~Pending(u, k)'
          /\ \A t \in Sides : t # u => \A k : Pending(t, k)' <=> Pending(t, k)
      <4>1. radio'[u] = "searching"
        BY <2>2 DEF Boot, Closed, TypeOK
      <4>2. events'[u] = << >>
        BY <4>1 DEF LinkInv, SideInv
      <4> QED
        BY <2>1, <2>2, <4>2 DEF Boot, Closed, Pending
    <3>3. \A t \in Sides : t # u => (Backed(t) => Backed(t)')
      BY <3>1, <3>2, StaysBacked
    <3> QED
      BY <3>1, <3>2, <3>3, <1>b, <1>s, <1>t
  <2>3. CASE Opened(u) \/ ConfirmPasskey(u) \/ BondingFailed(u) \/ Bonded(u)
    <3>1. PICK e \in {"opened", "confirm_passkey", "bonding_failed", "bonded"} :
            /\ Take(u, e)
            /\ e = "bonding_failed" /\ u = "client" => bonding_state'[u] # "BONDED"
            /\ bonding_state'[u] = "BONDED" =>
                 bonding_state[u] = "BONDED" \/ (u = "server" /\ e = "bonded")
      <4>1. CASE Opened(u)
        BY <4>1 DEF Opened, programVars
      <4>2. CASE ConfirmPasskey(u)
        BY <4>2 DEF ConfirmPasskey, TypeOK
      <4>3. CASE BondingFailed(u)
        BY <4>3 DEF BondingFailed, TypeOK
      <4>4. CASE Bonded(u)
        BY <4>4 DEF Bonded, TypeOK
      <4> QED
        BY <2>3, <4>1, <4>2, <4>3, <4>4
    <3>2. /\ link' = link /\ bond' = bond /\ smp' = smp
          /\ \A t \in Sides : t # u => bonding_state'[t] = bonding_state[t]
      <4>1. CASE Opened(u)
        BY <4>1 DEF Opened, stackVars, programVars
      <4>2. CASE ConfirmPasskey(u)
        BY <4>2 DEF ConfirmPasskey, stackVars, TypeOK
      <4>3. CASE BondingFailed(u)
        BY <4>3 DEF BondingFailed, stackVars, TypeOK
      <4>4. CASE Bonded(u)
        BY <4>4 DEF Bonded, stackVars, TypeOK
      <4> QED
        BY <2>3, <4>1, <4>2, <4>3, <4>4
    <3>3. /\ \A t \in Sides : t # u => (Backed(t) => Backed(t)')
          /\ (e # "bonding_failed" \/ u # "client") /\ Backed(u) => Backed(u)'
      BY <2>1, <3>1, <3>2, StaysBacked
    <3>4. \A t \in Sides : Pending(t, "bonded")' => Pending(t, "bonded")
      BY <2>1, <3>1
    <3>5. bonding_state'[u] = "BONDED" => Backed(u)'
      BY <3>1, <3>3, <2>1, <1>b, <1>s
    <3> QED
      BY <3>2, <3>3, <3>4, <3>5, <1>b, <1>s, <1>t
  <2>4. CASE IncreaseSecurity \/ ConfirmBonding
    <3>1. link' = link /\ bond' = bond /\ bonding_state' = bonding_state
      BY <2>4 DEF IncreaseSecurity, ConfirmBonding, programVars
    <3>2. \A t \in Sides : smp[t] = "confirmed" => smp'[t] = "confirmed"
      BY <2>4, Requests, Consents DEF SmpInv, NoPairing
    <3>3. ASSUME NEW t \in Sides
          PROVE  /\ Pending(t, "closed") => Pending(t, "closed")'
                 /\ Pending(t, "bonding_failed") => Pending(t, "bonding_failed")'
                 /\ Pending(t, "bonded")' => Pending(t, "bonded")
      <4>1. CASE IncreaseSecurity
        <5>1. CASE t = "client"
          BY <4>1, <5>1, Requests, Takes
        <5>2. CASE t = "server"
          <6>1. CASE events'["server"] = events["server"]
            BY <5>2, <6>1 DEF Pending
          <6>2. CASE events'["server"] = Append(events["server"], "confirm_bonding")
            BY <5>2, <6>2, Posts DEF Kinds
          <6> QED
            BY <4>1, <6>1, <6>2, Requests
        <5> QED
          BY <5>1, <5>2
      <4>2. CASE ConfirmBonding
        <5>1. CASE t = "client"
          <6>1. CASE events'["client"] = events["client"]
            BY <5>1, <6>1 DEF Pending
          <6>2. CASE events'["client"] = Append(events["client"], "confirm_passkey")
            BY <5>1, <6>2, Posts DEF Kinds
          <6> QED
            BY <4>2, <6>1, <6>2, Consents
        <5>2. CASE t = "server"
          BY <4>2, <5>2, ConsentKeeps
        <5> QED
          BY <5>1, <5>2
      <4> QED
        BY <2>4, <4>1, <4>2
    <3>4. \A t \in Sides : Backed(t) => Backed(t)'
      BY <3>1, <3>2, <3>3, StaysBacked
    <3> QED
      BY <3>1, <3>3, <3>4, <1>b, <1>s, <1>t
  <2> QED
    BY <1>9, <2>2, <2>3, <2>4 DEF Handle
<1>10. CASE UNCHANGED vars
  <2>1. /\ link' = link /\ bond' = bond /\ smp' = smp /\ bonding_state' = bonding_state
        /\ events' = events
    BY <1>10 DEF vars, stackVars, programVars
  <2> QED
    BY <2>1, <1>b, <1>s, <1>t DEF Backed, Pending
<1> QED
  BY <1>1, <1>2, <1>3, <1>4, <1>5, <1>6, <1>7, <1>8, <1>9, <1>10 DEF Next
-----------------------------------------------------------------------------
(* The client's queue.                                                     *)

\* The end of a pairing, or of the link, is told last.
LEMMA ShapeEnds ==
  ASSUME NEW q \in Seq(Kinds), NEW m, NEW st, Shape(q, m, st),
         NEW e \in Kinds, Ends(e), e = "bonding_failed" => m # "none"
  PROVE  Shape(Append(q, e), "none", st)
<1> DEFINE r == Append(q, e)
           n == Len(q)
<1>1. /\ n \in Nat /\ DOMAIN q = 1 .. n /\ DOMAIN r = 1 .. (n + 1)
      /\ \A i \in 1 .. n : r[i] = q[i]
      /\ r[n + 1] = e
  BY AppendFacts
<1> HIDE DEF r, n
<1>2. n + 1 \in DOMAIN r /\ \A i \in DOMAIN r : i = n + 1 \/ (i \in DOMAIN q /\ n + 1 > i)
  BY <1>1
<1>3. ASSUME NEW i \in DOMAIN r, r[i] = "insufficient", NEW j \in DOMAIN r, j > i
      PROVE  r[j] = "closed"
  <2>1. i \in DOMAIN q /\ q[i] = "insufficient"
    BY <1>1, <1>2, <1>3 DEF Ends
  <2>2. m = "none" /\ e = "closed"
    BY <2>1 DEF Shape, Ends
  <2>3. CASE j = n + 1
    BY <1>1, <2>2, <2>3
  <2>4. CASE j \in DOMAIN q
    BY <1>1, <1>3, <2>1, <2>4 DEF Shape
  <2> QED
    BY <1>2, <2>3, <2>4
<1>4. ASSUME NEW i \in DOMAIN r, r[i] = "confirm_passkey"
      PROVE  n + 1 > i /\ Ends(r[n + 1])
  BY <1>1, <1>2, <1>4 DEF Ends
<1>5. Shape(r, "none", st)
  BY <1>1, <1>2, <1>3, <1>4 DEF Shape
<1> QED
  BY <1>5 DEF r

\* A refused read is told last, and once.
LEMMA ShapeRefused ==
  ASSUME NEW q \in Seq(Kinds), NEW st, Shape(q, "none", st),
         \A i \in DOMAIN q : q[i] # "insufficient"
  PROVE  Shape(Append(q, "insufficient"), "none", st)
<1> DEFINE r == Append(q, "insufficient")
           n == Len(q)
<1>1. /\ n \in Nat /\ DOMAIN q = 1 .. n /\ DOMAIN r = 1 .. (n + 1)
      /\ \A i \in 1 .. n : r[i] = q[i]
      /\ r[n + 1] = "insufficient"
  BY AppendFacts DEF Kinds
<1> HIDE DEF r, n
<1>2. \A i \in DOMAIN q : i \in DOMAIN r /\ r[i] = q[i]
  BY <1>1
<1>3. \A i \in DOMAIN r : (i = n + 1 /\ r[i] = "insufficient") \/ (i \in DOMAIN q /\ r[i] = q[i])
  BY <1>1
<1>4. ASSUME NEW i \in DOMAIN r, r[i] = "insufficient", NEW j \in DOMAIN r, j > i
      PROVE  FALSE
  BY <1>1, <1>3, <1>4
<1>5. st = "BONDING" => \E i \in DOMAIN r : Ends(r[i])
  BY <1>2 DEF Shape
<1>6. ASSUME NEW i \in DOMAIN r, r[i] = "confirm_passkey"
      PROVE  \E j \in DOMAIN r : j > i /\ Ends(r[j])
  <2>1. i \in DOMAIN q /\ q[i] = "confirm_passkey"
    BY <1>3, <1>6
  <2>2. PICK j \in DOMAIN q : j > i /\ Ends(q[j])
    BY <2>1 DEF Shape
  <2> QED
    BY <1>2, <2>2
<1>7. Shape(r, "none", st)
  BY <1>4, <1>5, <1>6 DEF Shape
<1> QED
  BY <1>7 DEF r

\* The client handles one event, and may start to wait for the button only
\* when the event is the passkey's.
LEMMA ShapeTakes ==
  ASSUME NEW q \in Seq(Kinds), q # << >>, NEW st, NEW st2, Shape(q, "none", st),
         st2 = "BONDING" => Head(q) = "confirm_passkey" \/ (st = "BONDING" /\ ~Ends(Head(q)))
  PROVE  Shape(Tail(q), "none", st2)
<1> DEFINE r == Tail(q)
<1>1. /\ Len(q) \in Nat /\ Len(q) >= 1
      /\ DOMAIN q = 1 .. Len(q)
      /\ DOMAIN r = 1 .. (Len(q) - 1)
      /\ Head(q) = q[1]
      /\ \A i \in 1 .. (Len(q) - 1) : r[i] = q[i + 1]
  BY TailFacts
<1> HIDE DEF r
<1>2. \A i \in DOMAIN r : i + 1 \in DOMAIN q /\ r[i] = q[i + 1]
  BY <1>1
<1>3. \A j \in DOMAIN q : j > 1 => j - 1 \in DOMAIN r /\ r[j - 1] = q[j]
  BY <1>1
<1>4. ASSUME NEW i \in DOMAIN r, r[i] = "insufficient", NEW j \in DOMAIN r, j > i
      PROVE  r[j] = "closed"
  <2>1. i + 1 \in DOMAIN q /\ j + 1 \in DOMAIN q /\ j + 1 > i + 1
    BY <1>1, <1>4
  <2> QED
    BY <1>2, <1>4, <2>1 DEF Shape
<1>5. ASSUME st2 = "BONDING" PROVE \E i \in DOMAIN r : Ends(r[i])
  <2>1. \E j \in DOMAIN q : j > 1 /\ Ends(q[j])
    <3>1. CASE q[1] = "confirm_passkey"
      <4>1. 1 \in DOMAIN q
        BY <1>1
      <4> QED
        BY <3>1, <4>1 DEF Shape
    <3>2. CASE q[1] # "confirm_passkey"
      <4>1. st = "BONDING" /\ ~Ends(q[1])
        BY <1>1, <1>5, <3>2
      <4>2. PICK j \in DOMAIN q : Ends(q[j])
        BY <4>1 DEF Shape
      <4>3. j > 1
        BY <1>1, <4>1, <4>2
      <4> QED
        BY <4>2, <4>3
    <3> QED
      BY <3>1, <3>2
  <2> QED
    BY <1>3, <2>1
<1>6. ASSUME NEW i \in DOMAIN r, r[i] = "confirm_passkey"
      PROVE  \E j \in DOMAIN r : j > i /\ Ends(r[j])
  <2>1. i + 1 \in DOMAIN q /\ q[i + 1] = "confirm_passkey"
    BY <1>2, <1>6
  <2>2. PICK j \in DOMAIN q : j > i + 1 /\ Ends(q[j])
    BY <2>1 DEF Shape
  <2>3. j - 1 \in DOMAIN r /\ r[j - 1] = q[j] /\ j - 1 > i
    BY <1>1, <2>2, <1>6
  <2> QED
    BY <2>2, <2>3
<1>7. Shape(r, "none", st2)
  BY <1>4, <1>5, <1>6 DEF Shape
<1> QED
  BY <1>7 DEF r

\* Nothing to hear, or one event that is no part of a pairing.
LEMMA ShapeIdle ==
  ASSUME NEW st, st # "BONDING", NEW e, e \notin {"insufficient", "confirm_passkey"}
  PROVE  Shape(<< >>, "none", st) /\ Shape(<<e>>, "none", st)
BY DEF Shape

\* No side is in a pairing as soon as the client is not.
LEMMA NoneIsNone ==
  ASSUME TypeOK, SmpInv
  PROVE  smp = NoPairing <=> smp["client"] = "none"
<1>1. smp \in [Sides -> {"none", "requested", "asked", "confirmed"}]
  BY DEF TypeOK
<1>2. smp["client"] = "none" => smp["server"] = "none"
  BY DEF SmpInv
<1>3. (\A s \in Sides : smp[s] = "none") => smp = NoPairing
  BY <1>1 DEF NoPairing
<1>4. smp = NoPairing => smp["client"] = "none"
  BY SidesAre DEF NoPairing
<1> QED
  BY <1>2, <1>3, <1>4, SidesAre

\* A pairing starts when the refused read is the last the client had to
\* hear, and it waits for no button.
LEMMA StartsIdle ==
  ASSUME TypeOK, LinkInv, ClientInv, IncreaseSecurity, link # 0, smp = NoPairing
  PROVE  Tail(events["client"]) = << >> /\ bonding_state["client"] # "BONDING"
<1> DEFINE q == events["client"]
           st == bonding_state["client"]
<1>1. q \in Seq(Kinds) /\ q # << >> /\ Head(q) = "insufficient"
  BY Requests, SidesAre DEF TypeOK
<1>2. Shape(q, "none", st)
  BY SidesAre DEF ClientInv, NoPairing
<1>3. \A i \in DOMAIN q : q[i] # "closed"
  BY OnAir, SidesAre
<1> HIDE DEF q, st
<1>4. /\ Len(q) \in Nat /\ Len(q) >= 1 /\ DOMAIN q = 1 .. Len(q) /\ q[1] = "insufficient"
      /\ Tail(q) \in Seq(Kinds) /\ Len(Tail(q)) = Len(q) - 1
  BY <1>1, TailFacts
<1>5. \A j \in DOMAIN q : j = 1
  <2>1. 1 \in DOMAIN q
    BY <1>4
  <2>2. \A j \in DOMAIN q : ~(j > 1)
    BY <1>2, <1>3, <1>4, <2>1 DEF Shape
  <2> QED
    BY <1>4, <2>2
<1>6. Len(q) = 1
  BY <1>4, <1>5
<1>7. Tail(q) = << >>
  <2>1. Len(Tail(q)) = 0
    BY <1>4, <1>6
  <2> QED
    BY <1>4, <2>1, NoneLeft
<1>8. st # "BONDING"
  <2>1. \A j \in DOMAIN q : ~Ends(q[j])
    BY <1>4, <1>5 DEF Ends
  <2> QED
    BY <1>2, <2>1 DEF Shape
<1> QED
  BY <1>7, <1>8 DEF q, st

\* Each step leaves the client's queue in step with its pairing.
LEMMA ShapeStep ==
  ASSUME TypeOK, LinkInv, SmpInv, ClientInv, [Next]_vars
  PROVE  Shape(events'["client"], smp'["client"], bonding_state'["client"])
<1> DEFINE q == events["client"]
           m == smp["client"]
           st == bonding_state["client"]
           Goal == Shape(events'["client"], smp'["client"], bonding_state'["client"])
<1> USE SidesAre
<1>a. q \in Seq(Kinds) /\ m \in {"none", "requested", "asked", "confirmed"}
  BY DEF TypeOK
<1>b. Shape(q, m, st)
  BY DEF ClientInv
<1>c. smp = NoPairing <=> m = "none"
  BY NoneIsNone
<1>d. link = 0 => m = "none"
  BY <1>c DEF LinkInv
<1>e. NoPairing["client"] = "none"
  BY DEF NoPairing
<1>s. ASSUME events'["client"] = q, smp'["client"] = m, bonding_state'["client"] = st PROVE Goal
  BY <1>b, <1>s
<1>1. CASE Connect
  <2>1. q = << >> /\ link = 0 /\ events'["client"] = Append(q, "opened")
    BY <1>1, OffAir DEF Connect, PostBoth, LinkInv, SideInv
  <2>2. m = "none" /\ st # "BONDING"
    BY <1>b, <1>d, <2>1 DEF Shape
  <2>3. smp'["client"] = "none" /\ bonding_state'["client"] = st
    BY <1>1, <2>2 DEF Connect, programVars
  <2>4. events'["client"] = <<"opened">>
    BY <2>1
  <2> QED
    BY <2>2, <2>3, <2>4, ShapeIdle
<1>2. CASE Drop
  <2>1. smp'["client"] = "none" /\ bonding_state'["client"] = st
    BY <1>2, <1>e DEF Drop, programVars
  <2>2. CASE m = "none"
    <3>1. events'["client"] = q \o <<"closed">>
      BY <1>2, <1>c, <2>2 DEF Drop
    <3>2. events'["client"] = Append(q, "closed")
      BY <1>a, <3>1, OneMore
    <3>3. Shape(Append(q, "closed"), "none", st)
      BY <1>a, <1>b, <2>2, ShapeEnds DEF Ends, Kinds
    <3> QED
      BY <2>1, <3>2, <3>3
  <2>3. CASE m # "none"
    <3>1. events'["client"] = q \o <<"bonding_failed", "closed">>
      BY <1>2, <1>c, <2>3 DEF Drop
    <3>2. events'["client"] = Append(Append(q, "bonding_failed"), "closed")
      BY <1>a, <3>1, TwoMore
    <3>3. Shape(Append(q, "bonding_failed"), "none", st)
      BY <1>a, <1>b, <2>3, ShapeEnds DEF Ends, Kinds
    <3>4. Append(q, "bonding_failed") \in Seq(Kinds)
      BY <1>a, AppendFacts DEF Kinds
    <3>5. Ends("closed") /\ "closed" \in Kinds /\ "closed" # "bonding_failed"
      BY DEF Ends, Kinds
    <3>6. Shape(Append(Append(q, "bonding_failed"), "closed"), "none", st)
      BY <3>3, <3>4, <3>5, ShapeEnds
    <3> QED
      BY <2>1, <3>2, <3>6
  <2> QED
    BY <2>2, <2>3
<1>3. CASE ReadRefused
  <2>1. /\ m = "none" /\ events'["client"] = Append(q, "insufficient")
        /\ smp'["client"] = m /\ bonding_state'["client"] = st
    BY <1>3, <1>c DEF ReadRefused, stackVars, programVars, TypeOK
  <2>2. \A i \in DOMAIN q : q[i] # "insufficient"
    BY <1>3 DEF ReadRefused
  <2> QED
    BY <1>a, <1>b, <2>1, <2>2, ShapeRefused
<1>4. CASE Fail
  <2>1. /\ m # "none" /\ events'["client"] = Append(q, "bonding_failed")
        /\ smp'["client"] = "none" /\ bonding_state'["client"] = st
    BY <1>4, <1>c, <1>e DEF Fail, PostBoth, programVars
  <2>2. Shape(Append(q, "bonding_failed"), "none", st)
    BY <1>a, <1>b, <2>1, ShapeEnds DEF Ends, Kinds
  <2> QED
    BY <2>1, <2>2
<1>5. CASE Pair
  <2>1. /\ m = "confirmed" /\ events'["client"] = Append(q, "bonded")
        /\ smp'["client"] = "none" /\ bonding_state'["client"] = st
    BY <1>5, <1>e DEF Pair, PostBoth, programVars
  <2>2. q = << >> /\ st # "BONDING"
    BY <1>b, <2>1 DEF Shape
  <2>3. events'["client"] = <<"bonded">>
    BY <2>1, <2>2
  <2> QED
    BY <2>1, <2>2, <2>3, ShapeIdle
<1>6. ASSUME NEW s \in Sides, PB0(s) \/ Mix(s) PROVE Goal
  BY <1>6, <1>s DEF PB0, Mix, stackVars, programVars
<1>7. ASSUME NEW s \in Sides, Reset(s) PROVE Goal
  <2>1. smp'["client"] = "none"
    BY <1>7, <1>e DEF Reset
  <2>2. CASE s = "client"
    <3>1. events'["client"] = <<"boot">> /\ bonding_state'["client"] = "NOT_BONDED"
      BY <1>7, <2>2 DEF Reset, TypeOK
    <3> QED
      BY <2>1, <3>1, ShapeIdle
  <2>3. CASE s # "client"
    <3>1. bonding_state'["client"] = st
      BY <1>7, <2>3 DEF Reset, TypeOK
    <3>2. CASE link = 0
      BY <1>7, <1>b, <1>d, <2>1, <2>3, <3>1, <3>2 DEF Reset
    <3>3. CASE link # 0
      <4>1. events'["client"] = Append(q, "closed")
        BY <1>7, <2>3, <3>3 DEF Reset
      <4>2. Shape(Append(q, "closed"), "none", st)
        BY <1>a, <1>b, ShapeEnds DEF Ends, Kinds
      <4> QED
        BY <2>1, <3>1, <4>1, <4>2
    <3> QED
      BY <3>2, <3>3
  <2> QED
    BY <2>2, <2>3
<1>8. ASSUME NEW s \in Sides, ExternalSignal(s) PROVE Goal
  <2>1. CASE s = "client" /\ Answers(s) /\ m = "asked"
    <3>1. /\ smp'["client"] = "confirmed" /\ bonding_state'["client"] = "BONDED"
          /\ events'["client"] = q
      BY <1>8, <2>1 DEF ExternalSignal, TypeOK
    <3>2. q = << >>
      BY <1>b, <2>1 DEF Shape, Answers
    <3> QED
      BY <3>1, <3>2 DEF Shape
  <2>2. CASE ~(s = "client" /\ Answers(s) /\ m = "asked")
    <3>1. smp'["client"] = m /\ bonding_state'["client"] = st /\ events'["client"] = q
      BY <1>8, <2>2 DEF ExternalSignal, TypeOK
    <3> QED
      BY <3>1, <1>s
  <2> QED
    BY <2>1, <2>2
<1>9. ASSUME NEW s \in Sides, Handle(s) PROVE Goal
  <2>1. ASSUME NEW e, Take("client", e), smp'["client"] = m,
               e \notin {"insufficient"} ,
               bonding_state'["client"] = "BONDING" =>
                 e = "confirm_passkey" \/ (st = "BONDING" /\ ~Ends(e))
        PROVE  Goal
    <3>1. q # << >> /\ Head(q) = e /\ events'["client"] = Tail(q)
      BY <2>1 DEF Take, TypeOK
    <3>2. CASE m = "none"
      <4>1. Shape(Tail(q), "none", bonding_state'["client"])
        BY <1>a, <1>b, <2>1, <3>1, <3>2, ShapeTakes
      <4> QED
        BY <2>1, <3>1, <3>2, <4>1
    <3>3. CASE m # "none"
      <4>1. m = "asked" /\ q = <<"confirm_passkey">>
        BY <1>a, <1>b, <3>1, <3>3 DEF Shape
      <4>2. events'["client"] = << >>
        BY <3>1, <4>1
      <4> QED
        BY <2>1, <4>1, <4>2 DEF Shape
    <3> QED
      BY <3>2, <3>3
  <2>2. CASE s = "client" /\ (Boot(s) \/ Closed(s))
    <3>1. CASE Boot(s)
      <4>1. Pending(s, "boot")
        <5>1. 1 \in DOMAIN q /\ q[1] = "boot"
          <6>1. q # << >> /\ Head(q) = "boot"
            BY <2>2, <3>1 DEF Boot, Take
          <6> HIDE DEF q
          <6> QED
            BY <1>a, <6>1, TailFacts
        <5> QED
          BY <2>2, <5>1 DEF Pending
      <4>2. st = "NOT_BONDED"
        BY <2>2, <4>1 DEF LinkInv, SideInv
      <4>3. bonding_state'["client"] = "NOT_BONDED" /\ smp'["client"] = m
        BY <3>1, <4>2 DEF Boot, programVars
      <4> QED
        BY <2>1, <2>2, <3>1, <4>3 DEF Boot
    <3>2. CASE Closed(s)
      <4>1. bonding_state'["client"] = "NOT_BONDED" /\ smp'["client"] = m
        BY <2>2, <3>2 DEF Closed, TypeOK
      <4> QED
        BY <2>1, <2>2, <3>2, <4>1 DEF Closed
    <3> QED
      BY <2>2, <3>1, <3>2
  <2>3. CASE s = "client" /\ Opened(s)
    <3>1. bonding_state'["client"] = st /\ smp'["client"] = m /\ ~Ends("opened")
      BY <2>3 DEF Opened, programVars, stackVars, Ends
    <3> QED
      BY <2>1, <2>3, <3>1 DEF Opened
  <2>4. CASE s = "client" /\ ConfirmPasskey(s)
    <3>1. smp'["client"] = m
      BY <2>4 DEF ConfirmPasskey, stackVars
    <3> QED
      BY <2>1, <2>4, <3>1 DEF ConfirmPasskey
  <2>5. CASE s = "client" /\ BondingFailed(s)
    <3>1. bonding_state'["client"] = "NOT_BONDED" /\ smp'["client"] = m
      BY <2>5 DEF BondingFailed, stackVars, TypeOK
    <3> QED
      BY <2>1, <2>5, <3>1 DEF BondingFailed
  <2>6. CASE s = "client" /\ Bonded(s)
    <3>1. bonding_state'["client"] = st /\ smp'["client"] = m /\ ~Ends("bonded")
      BY <2>6 DEF Bonded, stackVars, Ends
    <3> QED
      BY <2>1, <2>6, <3>1 DEF Bonded
  <2>7. CASE s = "client" /\ IncreaseSecurity
    <3>1. bonding_state'["client"] = st /\ q # << >> /\ Head(q) = "insufficient"
          /\ events'["client"] = Tail(q)
      BY <2>7, Requests DEF IncreaseSecurity, programVars
    <3>2. CASE link # 0 /\ smp = NoPairing
      <4>1. Tail(q) = << >> /\ st # "BONDING"
        BY <2>7, <3>2, StartsIdle
      <4>2. smp'["client"] = "requested"
        BY <2>7, <3>2, Requests
      <4> QED
        BY <3>1, <4>1, <4>2 DEF Shape
    <3>3. CASE ~(link # 0 /\ smp = NoPairing)
      <4>1. smp'["client"] = m
        BY <2>7, <3>3, Requests
      <4>2. m = "none"
        <5>1. m # "none" => q = << >> \/ q = <<"confirm_passkey">>
          BY <1>a, <1>b DEF Shape
        <5> QED
          BY <3>1, <5>1
      <4>3. ~Ends("insufficient")
        BY DEF Ends
      <4>4. Shape(Tail(q), "none", st)
        BY <1>a, <1>b, <3>1, <4>2, <4>3, ShapeTakes
      <4> QED
        BY <3>1, <4>1, <4>2, <4>4
    <3> QED
      BY <3>2, <3>3
  <2>8. CASE s = "server" /\ ConfirmBonding
    <3>1. bonding_state'["client"] = st
      BY <2>8 DEF ConfirmBonding, programVars
    <3>2. CASE smp["server"] = "requested"
      <4>1. m = "requested"
        BY <3>2 DEF SmpInv
      <4>2. q = << >> /\ st # "BONDING"
        BY <1>b, <4>1 DEF Shape
      <4>3. events'["client"] = Append(q, "confirm_passkey") /\ smp'["client"] = "asked"
        BY <2>8, <3>2, Consents
      <4>4. events'["client"] = <<"confirm_passkey">>
        BY <4>2, <4>3
      <4> QED
        BY <3>1, <4>2, <4>3, <4>4 DEF Shape
    <3>3. CASE smp["server"] # "requested"
      BY <2>8, <3>1, <3>3, <1>s, Consents
    <3> QED
      BY <3>2, <3>3
  <2>9. CASE s = "server" /\ (Boot(s) \/ Opened(s) \/ Closed(s) \/ ConfirmPasskey(s)
                             \/ BondingFailed(s) \/ Bonded(s))
    <3>1. smp'["client"] = m
      BY <2>9 DEF Boot, Opened, Closed, ConfirmPasskey, BondingFailed, Bonded, stackVars
    <3>2. events'["client"] = q
      BY <2>9 DEF Boot, Opened, Closed, ConfirmPasskey, BondingFailed, Bonded, Take, TypeOK
    <3>3. bonding_state'["client"] = st
      BY <2>9 DEF Boot, Opened, Closed, ConfirmPasskey, BondingFailed, Bonded, programVars, TypeOK
    <3> QED
      BY <3>1, <3>2, <3>3, <1>s
  <2> QED
    BY <1>9, <2>2, <2>3, <2>4, <2>5, <2>6, <2>7, <2>8, <2>9 DEF Handle
<1>10. CASE UNCHANGED vars
  BY <1>10, <1>s DEF vars, stackVars, programVars
<1> QED
  BY <1>1, <1>2, <1>3, <1>4, <1>5, <1>6, <1>7, <1>8, <1>9, <1>10 DEF Next
-----------------------------------------------------------------------------
(* The client's button.                                                    *)

\* Each step leaves the client's wait for the button, and what it has
\* confirmed, what they stand for.
LEMMA AnswerStep ==
  ASSUME TypeOK, LinkInv, SmpInv, ClientInv, ClientHasSeen, [Next]_vars
  PROVE  AnswerInv' /\ ClientHasSeen'
<1> USE SidesAre
<1>a. AnswerInv /\ Shape(events["client"], smp["client"], bonding_state["client"])
  BY DEF ClientInv
<1>s. ASSUME bonding_state'["client"] = "BONDING" => bonding_state["client"] = "BONDING",
             smp'["client"] = "confirmed" => smp["client"] = "confirmed",
             seen' = seen, attempts' = attempts, early' = early,
             answered'["client"] = answered["client"], prompt'["client"] = prompt["client"],
             signal'["client"] \ {"other"} = signal["client"] \ {"other"},
             pressed'["client"] = pressed["client"]
      PROVE  AnswerInv' /\ ClientHasSeen'
  <2>1. "PB0" \in signal'["client"] <=> "PB0" \in signal["client"]
    BY <1>s
  <2> QED
    BY <1>a, <1>s, <2>1 DEF AnswerInv, ClientHasSeen
<1>1. CASE Connect \/ ReadRefused
  BY <1>1, <1>s DEF Connect, ReadRefused, programVars, stackVars, userVars, historyVars
<1>2. CASE Drop \/ Fail \/ Pair
  BY <1>2, <1>s DEF Drop, Fail, Pair, NoPairing, programVars, userVars, historyVars
<1>3. ASSUME NEW s \in Sides, Mix(s) PROVE AnswerInv' /\ ClientHasSeen'
  <2>1. signal'["client"] \ {"other"} = signal["client"] \ {"other"}
    BY <1>3 DEF Mix, TypeOK
  <2> QED
    BY <1>3, <2>1, <1>s DEF Mix, programVars, stackVars, userVars, historyVars
<1>4. ASSUME NEW s \in Sides, PB0(s) PROVE AnswerInv' /\ ClientHasSeen'
  <2>1. /\ bonding_state' = bonding_state /\ smp' = smp /\ seen' = seen
        /\ attempts' = attempts /\ early' = early /\ prompt' = prompt
    BY <1>4 DEF PB0, programVars, stackVars
  <2>2. CASE s = "client"
    <3>1. answered'["client"] = (answered["client"] \/ (~pressed["client"] /\ prompt["client"]))
      BY <1>4, <2>2 DEF PB0, TypeOK
    <3> QED
      BY <1>a, <2>1, <3>1 DEF AnswerInv, ClientHasSeen
  <2>3. CASE s # "client"
    <3>1. /\ answered'["client"] = answered["client"] /\ signal'["client"] = signal["client"]
          /\ pressed'["client"] = pressed["client"]
      <4>1. "client" # s
        BY <2>3
      <4>2. answered'["client"] = answered["client"]
        BY <1>4, <4>1 DEF PB0, TypeOK
      <4>3. signal'["client"] = signal["client"] /\ pressed'["client"] = pressed["client"]
        BY <1>4, <4>1 DEF PB0, TypeOK
      <4> QED
        BY <4>2, <4>3
    <3> QED
      BY <2>1, <3>1, <1>s
  <2> QED
    BY <2>2, <2>3
<1>5. ASSUME NEW s \in Sides, Reset(s) PROVE AnswerInv' /\ ClientHasSeen'
  <2>1. /\ smp'["client"] = "none" /\ seen' = seen /\ attempts' = attempts /\ early' = early
        /\ pressed' = pressed
    BY <1>5 DEF Reset, NoPairing, userVars
  <2>2. CASE s = "client"
    <3>1. bonding_state'["client"] = "NOT_BONDED"
      BY <1>5, <2>2 DEF Reset, TypeOK
    <3> QED
      BY <2>1, <3>1 DEF AnswerInv, ClientHasSeen
  <2>3. CASE s # "client"
    <3>1. /\ bonding_state'["client"] = bonding_state["client"]
          /\ prompt'["client"] = prompt["client"] /\ answered'["client"] = answered["client"]
          /\ signal'["client"] = signal["client"]
      BY <1>5, <2>3 DEF Reset, TypeOK
    <3> QED
      BY <2>1, <3>1, <1>s
  <2> QED
    BY <2>2, <2>3
<1>6. ASSUME NEW s \in Sides, ExternalSignal(s) PROVE AnswerInv' /\ ClientHasSeen'
  <2>1. /\ seen' = seen /\ attempts' = attempts /\ early' = early /\ answered' = answered
        /\ pressed' = pressed
    BY <1>6 DEF ExternalSignal, userVars, historyVars
  <2>2. CASE s = "client" /\ Answers(s)
    <3>1. /\ seen["client"] = attempts /\ (answered["client"] \/ early["client"])
      <4>1. bonding_state["client"] = "BONDING" /\ "PB0" \in signal["client"]
        BY <2>2 DEF Answers
      <4> QED
        BY <1>a, <4>1 DEF AnswerInv
    <3> QED
      BY <2>1, <3>1 DEF AnswerInv, ClientHasSeen
  <2>3. CASE s = "client" /\ ~Answers(s)
    <3>1. /\ smp' = smp /\ bonding_state'["client"] = bonding_state["client"]
          /\ prompt'["client"] = prompt["client"] /\ signal'["client"] = {}
      BY <1>6, <2>3 DEF ExternalSignal, TypeOK
    <3> QED
      BY <1>a, <2>1, <3>1 DEF AnswerInv, ClientHasSeen
  <2>4. CASE s # "client"
    <3>1. /\ smp'["client"] = smp["client"]
          /\ bonding_state'["client"] = bonding_state["client"]
          /\ prompt'["client"] = prompt["client"] /\ signal'["client"] = signal["client"]
      BY <1>6, <2>4 DEF ExternalSignal, TypeOK
    <3> QED
      BY <2>1, <3>1, <1>s
  <2> QED
    BY <2>2, <2>3, <2>4
<1>7. ASSUME NEW s \in Sides, Handle(s) PROVE AnswerInv' /\ ClientHasSeen'
  <2>1. CASE s = "client" /\ ConfirmPasskey(s)
    <3>1. smp["client"] # "confirmed" /\ smp' = smp
      <4>1. events["client"] # << >>
        BY <2>1 DEF ConfirmPasskey, Take
      <4> QED
        BY <1>a, <2>1, <4>1 DEF ConfirmPasskey, stackVars, Shape
    <3>2. /\ seen'["client"] = attempts /\ attempts' = attempts /\ prompt'["client"]
          /\ signal' = signal /\ pressed' = pressed
          /\ early'["client"] = (pressed["client"] \/ "PB0" \in signal["client"])
      BY <2>1 DEF ConfirmPasskey, userVars, TypeOK
    <3> QED
      BY <3>1, <3>2 DEF AnswerInv, ClientHasSeen
  <2>2. CASE IncreaseSecurity
    <3>1. /\ bonding_state' = bonding_state /\ prompt' = prompt /\ signal' = signal
          /\ pressed' = pressed /\ seen' = seen /\ answered' = answered /\ early' = early
      BY <2>2 DEF IncreaseSecurity, programVars, userVars
    <3>2. CASE link # 0 /\ smp = NoPairing
      <4>1. bonding_state["client"] # "BONDING" /\ smp'["client"] = "requested"
        BY <2>2, <3>2, Requests, StartsIdle
      <4> QED
        BY <3>1, <4>1 DEF AnswerInv, ClientHasSeen
    <3>3. CASE ~(link # 0 /\ smp = NoPairing)
      BY <2>2, <3>1, <3>3, <1>s, Requests
    <3> QED
      BY <3>2, <3>3
  <2>3. CASE ConfirmBonding
    <3>1. /\ bonding_state' = bonding_state /\ prompt' = prompt /\ signal' = signal
          /\ pressed' = pressed /\ seen' = seen /\ answered' = answered /\ early' = early
          /\ attempts' = attempts
      BY <2>3 DEF ConfirmBonding, programVars, userVars, historyVars
    <3>2. smp'["client"] = "confirmed" => smp["client"] = "confirmed"
      BY <2>3, Consents
    <3> QED
      BY <3>1, <3>2, <1>s
  <2>4. CASE s # "client" /\ ConfirmPasskey(s)
    <3>1. /\ bonding_state'["client"] = bonding_state["client"]
          /\ prompt'["client"] = prompt["client"]
          /\ seen'["client"] = seen["client"] /\ answered'["client"] = answered["client"]
          /\ early'["client"] = early["client"]
      BY <2>4 DEF ConfirmPasskey, TypeOK
    <3>2. smp' = smp /\ attempts' = attempts /\ signal' = signal /\ pressed' = pressed
      BY <2>4 DEF ConfirmPasskey, stackVars, userVars
    <3> QED
      BY <1>a, <3>1, <3>2 DEF AnswerInv, ClientHasSeen
  <2>5. CASE Boot(s) \/ Opened(s) \/ Closed(s) \/ BondingFailed(s) \/ Bonded(s)
    <3>1. /\ prompt' = prompt /\ signal' = signal /\ pressed' = pressed /\ seen' = seen
          /\ answered' = answered /\ early' = early /\ attempts' = attempts /\ smp' = smp
      BY <2>5 DEF Boot, Opened, Closed, BondingFailed, Bonded, programVars, stackVars, userVars,
                  historyVars
    <3>2. bonding_state'["client"] = "BONDING" => bonding_state["client"] = "BONDING"
      BY <2>5 DEF Boot, Opened, Closed, BondingFailed, Bonded, programVars, TypeOK
    <3> QED
      BY <3>1, <3>2, <1>s
  <2> QED
    BY <1>7, <2>1, <2>2, <2>3, <2>4, <2>5 DEF Handle
<1>8. CASE UNCHANGED vars
  BY <1>8, <1>s DEF vars, programVars, stackVars, userVars, historyVars
<1> QED
  BY <1>1, <1>2, <1>3, <1>4, <1>5, <1>6, <1>7, <1>8 DEF Next
-----------------------------------------------------------------------------
(* The theorems.                                                           *)

\* The invariant holds at first.
LEMMA InitHolds == Init => IInv
<1> SUFFICES ASSUME Init PROVE IInv
  OBVIOUS
<1> USE SidesAre DEF Init
<1>1. TypeOK
  <2>1. <<"boot">> \in Seq(Kinds)
    BY DEF Kinds
  <2>2. links \in 0 .. MaxLinks /\ resets \in 0 .. MaxResets /\ edges \in [Sides -> 0 .. MaxEdges]
    BY BoundAssumption
  <2>3. seen \in [Sides -> 0 .. attempts] /\ bond \in [Sides -> -1 .. links]
    OBVIOUS
  <2> QED
    BY <2>1, <2>2, <2>3 DEF TypeOK
<1>2. LinkInv
  BY DEF LinkInv, SideInv, NoPairing, Pending
<1>3. SmpInv
  BY DEF SmpInv
<1>4. ServerInv
  BY DEF ServerInv, Pending
<1>5. ClientInv
  <2>1. Shape(<<"boot">>, "none", "NOT_BONDED")
    BY ShapeIdle
  <2> QED
    BY <2>1 DEF ClientInv, AnswerInv
<1>6. BondedIsBacked /\ ClientHasSeen
  BY DEF BondedIsBacked, ClientHasSeen
<1> QED
  BY <1>1, <1>2, <1>3, <1>4, <1>5, <1>6 DEF IInv

\* Every step preserves it.
LEMMA StepHolds == IInv /\ [Next]_vars => IInv'
<1> SUFFICES ASSUME IInv, [Next]_vars PROVE IInv'
  OBVIOUS
<1> USE DEF IInv
<1>1. TypeOK'
  BY TypeStep
<1>2. LinkInv'
  BY <1>1, LinkStep
<1>3. SmpInv'
  BY SmpStep
<1>4. ServerInv' /\ BondedIsBacked'
  BY <1>1, <1>2, BackedStep
<1>5. AnswerInv' /\ ClientHasSeen'
  BY AnswerStep
<1>6. ClientInv'
  BY <1>5, ShapeStep DEF ClientInv
<1> QED
  BY <1>1, <1>2, <1>3, <1>4, <1>5, <1>6

\* The inductive invariant holds in every state, for every bound.
THEOREM Invariance == Spec => []IInv
BY InitHolds, StepHolds, PTL DEF Spec

\* Every variable of the pairing keeps its type: the queues hold the events
\* of the handlers, a bond is of a link that was made, and no passkey is seen
\* before its pairing (ble.c:341-900).
THEOREM TypeCorrect == Spec => []TypeOK
<1>1. IInv => TypeOK
  BY DEF IInv
<1> QED
  BY <1>1, Invariance, PTL

\* Whatever is lost, reset or fails, however often: no link is encrypted with
\* the bond of another one, since each side deletes its bonds in the handler that
\* lets it be found again (ble.c:358-364, 488-497).
THEOREM BondsFresh == Spec => []BondsAreFresh
<1>1. IInv => BondsAreFresh
  BY DEF IInv, LinkInv, SideInv, BondsAreFresh
<1> QED
  BY <1>1, Invariance, PTL

\* A side takes itself for bonded only with a bond of this link, with a
\* confirmation that still counts, or with the news to the contrary on its
\* way (ble.c:497, 683, 847, 855).
THEOREM BondedSidesAreBacked == Spec => []BondedIsBacked
<1>1. IInv => BondedIsBacked
  BY DEF IInv
<1> QED
  BY <1>1, Invariance, PTL

\* The client confirms the passkey it has shown last, by a press since then or
\* by what was left of an earlier one (ble.c:836, 855, 870).
THEOREM ClientConfirmsWhatItShowed == Spec => []ClientHasSeen
<1>1. IInv => ClientHasSeen
  BY DEF IInv
<1> QED
  BY <1>1, Invariance, PTL
=============================================================================
