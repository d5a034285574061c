------------------------------ MODULE Pairing ------------------------------
(***************************************************************************)
(* The numeric-comparison pairing of the two devices: both programs        *)
(* (handle_ble_event of src/src/ble.c, built once as the server and once   *)
(* as the client), the security managers of the two stacks, the buttons    *)
(* PB0 and the bonds in flash.                                             *)
(*                                                                         *)
(* A read that needs encryption makes the client ask for security; the     *)
(* server confirms the request, both show the passkey, and on each side a  *)
(* button confirms it.  gpioInit makes PB0 interrupt on both edges.  Links *)
(* may be lost, a pairing may fail, and a device may be reset; its bonds   *)
(* are then what they were.                                                *)
(***************************************************************************)
EXTENDS Integers, Sequences

CONSTANTS MaxLinks,       \* bound: links made
          MaxAttempts,    \* bound: pairings started
          MaxEdges,       \* bound: edges of each button nobody asked for
          MaxResets,      \* bound: resets of either device
          MayDrop,        \* whether a link may be lost
          MayFail,        \* whether a pairing may fail
          MayMix          \* whether other signals join the button's mask

ASSUME BoundAssumption ==
  /\ MaxLinks \in Nat
  /\ MaxAttempts \in Nat
  /\ MaxEdges \in Nat
  /\ MaxResets \in Nat
ASSUME FaultAssumption == {MayDrop, MayFail, MayMix} \subseteq BOOLEAN

Sides == {"server", "client"}

VARIABLES
  bonding_state,  \* ble_data.bonding_state
  prompt,         \* whether the LCD says "Confirm with PB0"
  events,         \* stack: events posted and not yet handled
  signal,         \* stack: what the pending external-signal mask is made of
  radio,          \* stack: "off", "searching" (advertising, scanning), "on"
  link,           \* the number of the link that is up, 0 for none
  bond,           \* flash: the link the bond was made on, 0 for none
  smp,            \* stack: where the side's part of the pairing is
  pressed,        \* whether PB0 is down
  links,          \* history: links made
  attempts,       \* history: pairings started
  edges,          \* history: those edges of the button
  resets,         \* history: resets
  seen,           \* history: the last pairing whose passkey was shown
  answered,       \* history: PB0 went down since it was shown
  early           \* history: PB0 was down, or signalled, when it was shown

programVars == <<bonding_state, prompt>>
stackVars == <<radio, link, bond, smp>>
userVars == <<pressed, edges>>
historyVars == <<links, attempts, resets, seen, answered, early>>
vars == <<programVars, events, signal, stackVars, userVars, historyVars>>

Init ==
  /\ bonding_state = [s \in Sides |-> "NOT_BONDED"]
  /\ prompt = [s \in Sides |-> FALSE]
  /\ events = [s \in Sides |-> <<"boot">>]
  /\ signal = [s \in Sides |-> {}]
  /\ radio = [s \in Sides |-> "off"]
  /\ link = 0
  /\ bond \in [Sides -> {0, -1}]      \* none, or one of an earlier life
  /\ smp = [s \in Sides |-> "none"]
  /\ pressed = [s \in Sides |-> FALSE]
  /\ links = 0
  /\ attempts = 0
  /\ edges = [s \in Sides |-> 0]
  /\ resets = 0
  /\ seen = [s \in Sides |-> 0]
  /\ answered = [s \in Sides |-> FALSE]
  /\ early = [s \in Sides |-> FALSE]
-----------------------------------------------------------------------------
(* The link, the security managers, the users and the power.               *)

PostBoth(e) == events' = [s \in Sides |-> Append(events[s], e)]

Connect ==
  /\ \A s \in Sides : radio[s] = "searching"
  /\ links < MaxLinks
  /\ links' = links + 1
  /\ link' = links + 1
  /\ radio' = [s \in Sides |-> "on"]
  /\ PostBoth("opened")
  /\ UNCHANGED <<programVars, signal, bond, smp, userVars, attempts, resets, seen,
                 answered, early>>

NoPairing == [s \in Sides |-> "none"]

\* A pairing under way fails with the link.
Drop ==
  /\ MayDrop
  /\ link # 0
  /\ link' = 0
  /\ radio' = [s \in Sides |-> "off"]
  /\ smp' = NoPairing
  /\ events' = [s \in Sides |-> events[s] \o
                 (IF smp = NoPairing THEN <<"closed">> ELSE <<"bonding_failed", "closed">>)]
  /\ UNCHANGED <<programVars, signal, bond, userVars, historyVars>>

\* A read without encryption is refused; the client's program is told.
Encrypted == \A s \in Sides : bond[s] = link
ReadRefused ==
  /\ link # 0 /\ ~Encrypted
  /\ smp = NoPairing
  /\ attempts < MaxAttempts
  /\ "insufficient" \notin {events["client"][i] : i \in DOMAIN events["client"]}
  /\ events' = [events EXCEPT !["client"] = Append(@, "insufficient")]
  /\ UNCHANGED <<programVars, signal, stackVars, userVars, historyVars>>

Fail ==
  /\ MayFail
  /\ smp # NoPairing
  /\ smp' = NoPairing
  /\ PostBoth("bonding_failed")
  /\ UNCHANGED <<programVars, signal, radio, link, bond, userVars, historyVars>>

Pair ==
  /\ \A s \in Sides : smp[s] = "confirmed"
  /\ smp' = NoPairing
  /\ bond' = [s \in Sides |-> link]
  /\ PostBoth("bonded")
  /\ UNCHANGED <<programVars, signal, radio, link, userVars, historyVars>>

\* Another interrupt of the device joins the mask.
Mix(s) ==
  /\ MayMix
  /\ signal' = [signal EXCEPT ![s] = @ \cup {"other"}]
  /\ UNCHANGED <<programVars, events, stackVars, userVars, historyVars>>

\* PB0 interrupts when it goes down and when it goes up.
PB0(s) ==
  /\ prompt[s] \/ edges[s] < MaxEdges
  /\ edges' = IF prompt[s] THEN edges ELSE [edges EXCEPT ![s] = @ + 1]
  /\ pressed' = [pressed EXCEPT ![s] = ~@]
  /\ answered' = [answered EXCEPT ![s] = @ \/ (~pressed[s] /\ prompt[s])]
  /\ signal' = [signal EXCEPT ![s] = @ \cup {"PB0"}]
  /\ UNCHANGED <<programVars, events, stackVars, links, attempts, resets, seen, early>>

\* RAM and link are lost, the bonds are not.  The peer notices.
Reset(s) ==
  /\ resets < MaxResets
  /\ resets' = resets + 1
  /\ link' = 0
  /\ smp' = NoPairing
  /\ LET lost == link # 0
     IN  /\ radio' = [t \in Sides |-> IF t = s \/ lost THEN "off" ELSE radio[t]]
         /\ events' = [t \in Sides |-> IF t = s THEN <<"boot">>
                                       ELSE IF lost THEN Append(events[t], "closed")
                                       ELSE events[t]]
  /\ signal' = [signal EXCEPT ![s] = {}]
  /\ bonding_state' = [bonding_state EXCEPT ![s] = "NOT_BONDED"]
  /\ prompt' = [prompt EXCEPT ![s] = FALSE]
  /\ answered' = [answered EXCEPT ![s] = FALSE]
  /\ UNCHANGED <<bond, userVars, links, attempts, seen, early>>
-----------------------------------------------------------------------------
(* handle_ble_event.                                                       *)

Take(s, e) ==
  /\ events[s] # << >>
  /\ Head(events[s]) = e
  /\ events' = [events EXCEPT ![s] = Tail(@)]

\* Advertising or scanning starts, and then the old bonds are deleted: one step,
\* since on a link that comes up in between no side asks for security before a
\* later event.  A deletion that fails is only logged, and is left out.
Boot(s) ==
  /\ Take(s, "boot")
  /\ radio' = [radio EXCEPT ![s] = "searching"]
  /\ bond' = [bond EXCEPT ![s] = 0]
  /\ UNCHANGED <<programVars, signal, link, smp, userVars, historyVars>>

Opened(s) ==
  /\ Take(s, "opened")
  /\ UNCHANGED <<programVars, signal, stackVars, userVars, historyVars>>

\* Faulty variant: the bonds are kept.
ClosedKeepsBond(s) ==
  /\ Take(s, "closed")
  /\ radio' = [radio EXCEPT ![s] = "searching"]
  /\ bonding_state' = [bonding_state EXCEPT ![s] = "NOT_BONDED"]
  /\ UNCHANGED <<prompt, signal, link, bond, smp, userVars, historyVars>>

\* The same at the end of a link.  The rows of the passkey stay on the LCD.
Closed(s) ==
  /\ Take(s, "closed")
  /\ radio' = [radio EXCEPT ![s] = "searching"]
  /\ bond' = [bond EXCEPT ![s] = 0]
  /\ bonding_state' = [bonding_state EXCEPT ![s] = "NOT_BONDED"]
  /\ UNCHANGED <<prompt, signal, link, smp, userVars, historyVars>>

\* sl_bt_sm_increase_security starts a pairing; the stack refuses a second one.
IncreaseSecurity ==
  LET starts == link # 0 /\ smp = NoPairing
  IN  /\ events["client"] # << >>
      /\ Head(events["client"]) = "insufficient"
      /\ events' = [client |-> Tail(events["client"]),
                    server |-> events["server"] \o
                               (IF starts THEN <<"confirm_bonding">> ELSE << >>)]
      /\ attempts' = IF starts THEN attempts + 1 ELSE attempts
      /\ smp' = IF starts THEN [s \in Sides |-> "requested"] ELSE smp
      /\ UNCHANGED <<programVars, signal, radio, link, bond, userVars, links, resets,
                     seen, answered, early>>

\* sl_bt_sm_bonding_confirm; the stacks then agree on a passkey.
ConfirmBonding ==
  LET goes_on == smp["server"] = "requested"
      then == IF goes_on THEN <<"confirm_passkey">> ELSE << >>
  IN  /\ events["server"] # << >>
      /\ Head(events["server"]) = "confirm_bonding"
      /\ events' = [client |-> events["client"] \o then,
                    server |-> Tail(events["server"]) \o then]
      /\ smp' = IF goes_on THEN [s \in Sides |-> "asked"] ELSE smp
      /\ UNCHANGED <<programVars, signal, radio, link, bond, userVars, historyVars>>

\* Faulty variant: the passkey is shown and bonding_state left.
ConfirmPasskeyShows(s) ==
  /\ Take(s, "confirm_passkey")
  /\ prompt' = [prompt EXCEPT ![s] = TRUE]
  /\ seen' = [seen EXCEPT ![s] = attempts]
  /\ answered' = [answered EXCEPT ![s] = FALSE]
  /\ early' = [early EXCEPT ![s] = pressed[s] \/ "PB0" \in signal[s]]
  /\ UNCHANGED <<bonding_state, signal, stackVars, userVars, links, attempts, resets>>

ConfirmPasskey(s) ==
  /\ Take(s, "confirm_passkey")
  /\ prompt' = [prompt EXCEPT ![s] = TRUE]
  /\ bonding_state' = [bonding_state EXCEPT ![s] = "BONDING"]
  /\ seen' = [seen EXCEPT ![s] = attempts]
  /\ answered' = [answered EXCEPT ![s] = FALSE]
  /\ early' = [early EXCEPT ![s] = pressed[s] \/ "PB0" \in signal[s]]
  /\ UNCHANGED <<signal, stackVars, userVars, links, attempts, resets>>

\* Faulty variant: neither side takes back the state of a failed pairing.
BondingFailedIgnored(s) ==
  /\ Take(s, "bonding_failed")
  /\ UNCHANGED <<programVars, signal, stackVars, userVars, historyVars>>

\* The client takes its state back, the server writes a line to the log.
BondingFailed(s) ==
  /\ Take(s, "bonding_failed")
  /\ bonding_state' = IF s = "client" THEN [bonding_state EXCEPT ![s] = "NOT_BONDED"]
                      ELSE bonding_state
  /\ UNCHANGED <<prompt, signal, stackVars, userVars, historyVars>>

\* Only the server takes note of the bond.
Bonded(s) ==
  /\ Take(s, "bonded")
  /\ bonding_state' = IF s = "server" THEN [bonding_state EXCEPT ![s] = "BONDED"]
                      ELSE bonding_state
  /\ UNCHANGED <<prompt, signal, stackVars, userVars, historyVars>>

\* Faulty variant: a button confirms whenever the stack takes it.
AnswersAlways(s) == signal[s] = {"PB0"}

\* The mask is the button's, and a passkey is to be confirmed.
Answers(s) == signal[s] = {"PB0"} /\ bonding_state[s] = "BONDING"

\* sl_bt_sm_passkey_confirm is refused when the stack has not asked.  The
\* client takes a confirmation that was not refused for the bond.
ExternalSignal(s) ==
  /\ signal[s] # {}
  /\ signal' = [signal EXCEPT ![s] = {}]
  /\ LET confirms == Answers(s) /\ smp[s] = "asked"
     IN  /\ prompt' = [prompt EXCEPT ![s] = @ /\ ~Answers(s)]
         /\ smp' = IF confirms THEN [smp EXCEPT ![s] = "confirmed"] ELSE smp
         /\ bonding_state' = IF confirms /\ s = "client"
                             THEN [bonding_state EXCEPT ![s] = "BONDED"]
                             ELSE bonding_state
  /\ UNCHANGED <<events, radio, link, bond, userVars, historyVars>>

Handle(s) ==
  \/ Boot(s) \/ Opened(s) \/ Closed(s) \/ ConfirmPasskey(s) \/ BondingFailed(s) \/ Bonded(s)
  \/ s = "client" /\ IncreaseSecurity
  \/ s = "server" /\ ConfirmBonding

Next ==
  \/ Connect \/ Drop \/ ReadRefused \/ Fail \/ Pair
  \/ \E s \in Sides : PB0(s) \/ Mix(s) \/ Reset(s) \/ Handle(s) \/ ExternalSignal(s)

Spec == Init /\ [][Next]_vars

(* The main loops run, the stacks go on, and a user who is asked presses   *)
(* and releases the button until the prompt is gone.  Now and then no      *)
(* other signal is there with the button's.                                *)
Fairness ==
  /\ WF_vars(Connect) /\ WF_vars(ReadRefused) /\ WF_vars(Pair)
  /\ \A s \in Sides :
       /\ WF_vars(Handle(s)) /\ WF_vars(ExternalSignal(s))
       /\ SF_vars(signal[s] = {"PB0"} /\ ExternalSignal(s))
       /\ SF_vars(prompt[s] /\ signal[s] = {} /\ PB0(s))
-----------------------------------------------------------------------------
(* Properties.                                                             *)

Pending(s, e) == \E i \in DOMAIN events[s] : events[s][i] = e

Kinds == {"boot", "opened", "closed", "insufficient", "confirm_bonding",
          "confirm_passkey", "bonding_failed", "bonded"}

\* Type invariant.
TypeOK ==
  /\ bonding_state \in [Sides -> {"NOT_BONDED", "BONDING", "BONDED"}]
  /\ prompt \in [Sides -> BOOLEAN]
  /\ events \in [Sides -> Seq(Kinds)]
  /\ signal \in [Sides -> SUBSET {"PB0", "other"}]
  /\ radio \in [Sides -> {"off", "searching", "on"}]
  /\ link \in 0 .. links
  /\ bond \in [Sides -> -1 .. links]
  /\ smp \in [Sides -> {"none", "requested", "asked", "confirmed"}]
  /\ pressed \in [Sides -> BOOLEAN]
  /\ links \in 0 .. MaxLinks
  /\ attempts \in Nat
  /\ edges \in [Sides -> 0 .. MaxEdges]
  /\ resets \in 0 .. MaxResets
  /\ seen \in [Sides -> 0 .. attempts]
  /\ answered \in [Sides -> BOOLEAN]
  /\ early \in [Sides -> BOOLEAN]

\* No link is encrypted with a bond of another one, whatever was lost or
\* reset before: both devices delete their bonds when they start and when a link
\* closes, in the handler that lets the next one come up and so before that one's
\* security is asked for (ble.c:358-364, 488-497).
BondsAreFresh == \A s \in Sides : link # 0 => bond[s] \in {0, link}

\* A program that takes itself for bonded has a bond of this link, or, on the
\* client, a confirmation that still counts, or is about to hear otherwise
\* (ble.c:497, 683, 847, 855).
BondedIsBacked ==
  \A s \in Sides : bonding_state[s] = "BONDED" =>
    \/ link # 0 /\ bond[s] = link
    \/ s = "client" /\ smp[s] = "confirmed"
    \/ Pending(s, "closed") \/ (s = "client" /\ Pending(s, "bonding_failed"))

\* The client confirms no passkey that it has not shown, also after a pairing
\* that failed, and a confirmation without a press since then is the other
\* edge, or the signal, of a press from before (ble.c:836, 855, 870).
ClientHasSeen ==
  smp["client"] = "confirmed" =>
    seen["client"] = attempts /\ (answered["client"] \/ early["client"])

\* Users who answer get their bond.
PairingSucceeds ==
  \A s \in Sides : smp[s] = "requested" ~> bond[s] # 0 /\ bonding_state[s] = "BONDED"
=============================================================================
