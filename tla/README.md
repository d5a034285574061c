# GestureDisplay: specifications, checks and proofs

GestureDisplay is one code base for two Blue Gecko (EFR32BG13) boards. The
*server* samples an ambient light sensor through ADC0 and a gesture sensor
(APDS-9960) over I2C, and indicates light values and gestures over Bluetooth.
The *client* discovers the server, pairs with it, subscribes, and shows the
pages of a text on its LCD, which gestures turn and scroll and darkness blanks.
`DEVICE_IS_BLE_SERVER` (src/src/ble.h) selects the role.

This directory holds TLA+ modules for the parts of that program that decide
something, TLC configurations that check them on small instances, and proofs
that TLAPS checks for every value of the constants.

- [The system](#the-system)
- [Modules](#modules)
- [Runs](#runs)
- [Proofs](#proofs)
- [Where the code and its documents disagree](#where-the-code-and-its-documents-disagree)
- [Assumptions and abstractions](#assumptions-and-abstractions)
- [Not modelled](#not-modelled)
- [Plan](#plan)

## The system

Both boards run `main.c`'s super-loop: the stack hands one event at a time to
`sl_bt_on_event` (app.c:134), which calls `handle_ble_event` (ble.c) and then
the state machines of the role (scheduler.c), each to its end. Interrupt
handlers (irq.c) run in between and inside; they talk to the loop through
`sl_bt_external_signal`, which ORs its argument into one pending mask.

| Component | State it keeps | Operations | Talks to |
|---|---|---|---|
| Indication queue, ble.c:22-131 | ring buffer of 16, `rdloc`, `wrloc`, `isFull` | `cbfifo_enqueue`, `cbfifo_dequeue`, `cbfifo_length` | called by the indication path |
| Indication path (server), ble.c | connection handle, indication flags, `in_flight`, the queue | connection opened and closed, characteristic status, indication timeout, soft timer, `SendLightValue`, `send_gesture_value` | the stack's calls and events; called by the state machines |
| Sensors and scheduling (server), scheduler.c:16-140, irq.c, timers.c | `currentste`, `State_Gesture`, last reading; LETIMER0, ADC0 and GPIO flags; the pending mask | `ambientLightStateMachine`, `gesture_main`, four interrupt handlers, `timerWaitUs_irq` | external signal; switches and reads the gesture engine, sends values |
| Gesture engine (server), gesture_main.c | deltas, counts, near and far counters, state and motion | `readGesture`, `processGestureData`, `decodeGesture`, `resetGestureParameters` | I2C register functions of gesture_i2c.c |
| Discovery, bonding and display control (client), ble.c, scheduler.c:143-370 | state of `discovery_state_machine`, bonding state, handles, last values | all client events, both buttons, GATT commands | the stack; drives the page display |
| Page display (client), PageDisplay.c | position, page count, page breaks | `PrintDisplay`, `nextPage`, `prevPage`, `scrollUp`, `scrollDown` | called by the client's machine |
| Boot, pairing and bonds (both boards), ble.c:358-383, 592-690, 813-895 | bonding state, the passkey on the LCD, bonds in flash | boot, bonding requests and results, passkey confirmation with PB0 | the stacks' security managers, the users |
| Timers, timers.c, irq.c | LETIMER0 counter, COMP1, `milliseconds` | interrupt-driven and polled waits, time stamps | used by all drivers |
| Drivers and set-up: gpio.c, adc.c, oscillators.c, lcd.c, i2c.c, log.c | registers | initialisation, output | leaves |

What is hard in this code, and what should be true of it:

- *Coalesced signals.* The events are numbered 2 to 6 and compared as whole
  numbers, while the stack ORs them. Two interrupts between two rounds of the
  loop look like a third event, or like none. It should still hold that no
  conversion starts before the light sensor has settled, that it has power
  while a conversion is under way, that no gesture is invented, and that the
  sampling of the light goes on. The last of these does not hold.
- *An application that runs behind the stack.* Confirmations, disconnections
  and configuration changes are posted and handled later. There must be one
  outstanding indication at most, no value may be sent twice, and no flag may
  survive its connection.
- *A ring buffer in which equal indices mean full or empty.*
- *Accumulators that live as long as the program.* Gestures must not depend on
  what an earlier call left behind.
- *A machine that goes to its next state whatever the stack answered*, and is
  run by every event: gestures must be acted upon once, indications confirmed
  in every state, and discovery must end subscribed.
- *Two devices and two users.* A pairing goes on in four places; a passkey may
  be shown before or after the other side confirmed, PB0 interrupts on both of
  its edges, a link may go and a board be reset at any point, and its bonds are
  then what they were. No link may be encrypted with the bond of another one,
  and none may pass for bonded without anything to back it.
- *A counter that is read while it runs.* A wait is set up in three accesses of
  registers, a time stamp taken in two; ticks and the interrupt handler come in
  between, and a reload falls into the way of a wait.
- *A driver whose errors nobody looks at.* A failed read of a register gives
  0xFF, which is changed in one field and written back.
- *Pointers into a text*, page breaks remembered in an array and rewritten by
  every print, also after scrolling.

The full list, each with its line, is under `hazards` in PROJECT.json.

## Modules

| Module | Part | Notes |
|---|---|---|
| `BoundedQueue` | what the queue promises | abstract specification: a sequence of at most `SIZE` items |
| `Cbfifo` | the ring buffer | implements `BoundedQueue` with `items <- Contents` |
| `CbfifoProofs` | | theorems about `Cbfifo` |
| `Indications` | the server's indication path with stack and client | uses the queue as the sequence `Cbfifo` is proved to implement |
| `IndicationsProofs` | | theorems about `Indications` and `MCIndications` |
| `ServerScheduler` | interrupts, pending mask, the server's two state machines | |
| `SchedulerProofs` | | theorems about `ServerScheduler` and `MCServerScheduler` |
| `GestureEngine` | `readGesture` and all it calls but the registers | |
| `GestureSetup` | `gesture_init`, enabling and disabling of the sensor | the registers and the transfers that fail |
| `GestureProofs` | | theorems about `GestureEngine` and `GestureSetup` |
| `Client` | every client event followed by `discovery_state_machine` | |
| `ClientProofs` | | theorems about `Client` |
| `Pairing` | boot, pairing, passkeys and bonds of both boards | composes both programs' handlers with the two stacks |
| `PairingProofs` | | theorems about `Pairing` |
| `PageDisplay` | the reader as the UPDATELCD state drives it | |
| `PageDisplayProofs` | | theorems about `PageDisplay` |
| `Letimer` | LETIMER0 with underflow and COMP1, both waits, the handler | |
| `LetimerClock` | the count of periods and the time stamps | the same counter |
| `LetimerProofs` | | theorems about the two |
| `MC*` | instances for TLC | model values and small sets only |

Definitions bear the names of the functions they translate, variables those of
the C variables; `map` in PROJECT.json gives the lines of each. A comment
*Faulty variant* marks an operator that no specification uses: it is a
plausible bug, and `mutants` says which property notices it.

How state and actions correspond:

- **Cbfifo.** `Data`, `wrloc`, `rdloc`, `isFull` are the struct's fields; a
  slot that was never written is `NoItem`. Each call is one action, with one
  alternative per return. The checks of NULL arguments are left out: the two
  callers pass addresses.
- **Indications.** `connection`, `enabled`, `in_flight` and `queue` are the
  application's; `link`, `cccd`, `outstanding` and `stalled` the stack's. The
  actions of the stack post events, `HandleEvent` takes the oldest, and
  `SendValue` and `SoftTimer` are the two places where an indication is sent.
  `Send` is `sl_bt_gatt_server_send_indication` with what both callers do with
  its answer.
- **ServerScheduler.** A mask is the set of its bits. `Dispatch` is one
  round of the loop with the whole mask; it is split where an interrupt makes
  a difference: `ArmComp1` is the second half of `timerWaitUs_irq`, and
  `BeginRead`, `readGesture` and `EndRead` are the reading of a gesture with
  the GPIO interrupt off. Hardware sets flags, handlers take them.
- **GestureEngine.** One call of `readGesture` is `BeginRead`, any number of
  `ReadFifo`, and `EndRead`, or `FailBlock` for the early return. `FailLevel`
  is the overrun of the sample arrays, after which the state is `"corrupt"`.
- **Client.** `Application` is one event and the run of the machine after it.
  The GATT client is one procedure at a time, which ends with
  `sl_bt_evt_gatt_procedure_completed`.
- **GestureSetup.** A call is a sequence of steps, one for each register it
  touches; `NextCall` is what `app_init` and `gesture_main` ask for. `enable` is
  the ENABLE register as a set of bits, `fields` those that are changed field
  by field, `plain` the ones written as a whole.
- **Pairing.** Functions from the two sides hold what each board has:
  `bonding_state` and `prompt` are the program's, `events` and `signal` what
  the stack has posted, `smp` the stack's part in the pairing, `bond` the
  flash. `Handle(s)` is one event of the server's or the client's
  `handle_ble_event`, `ExternalSignal(s)` the handling of PB0's, `PB0(s)` an
  edge of the pin.
- **Letimer.** `cnt`, `comp1` and the flags are the registers. A wait of
  `timerWaitUs_irq` is `BeginWait`, `IntClear`, `CompareSet` and `IntEnable`,
  one for each access of the timer; a polled one `BeginPoll` and `EndPoll`.
  `Tick` and `LETIMER0_IRQHandler` come anywhere in between.
- **LetimerClock.** `ReadCounter` and `ReadPeriods` are the two reads of
  `letimerMilliseconds`; `read_at` and `reloads` are what a clock on the wall
  would say.
- **PageDisplay.** A text is its length and its newlines, a pointer an offset,
  and a row of the LCD the stretch of text it shows. `NULL` and `WILD` are the
  pointers that do not point into the text.

## Runs

Every property of a passing run is broken by at least one mutant of the code,
which TLC finds with the same configuration.

| Run | What it asks | Bounds |
|---|---|---|
| `cbfifo` | Is the ring buffer a bounded queue, and does its length tell empty from not empty? | 4 slots, 2 items; every state of a buffer of this size |
| `indications` | One indication outstanding, none sent twice, no flag outlives its connection, what the queue carries over is at most `SIZE` values per connection closed; with a client that keeps its subscriptions, the flag comes down and the queue drains; the server advertises again | queue of 2, 4 values (3 when calm), 2 connections, 2 events posted; disabling, timeouts and refused sends on (off when calm) |
| `indications_flag` | *violation*: `in_flight` stays up with nothing in flight | 2 values, 3 events posted |
| `scheduler` | Settling time, power during conversion, gesture sensor in step with the light, no gesture invented; is a COMP1 or ADC signal lost in a mask the only way to stop sampling? | readings 50 and 51 around the threshold, 2 gestures, unlimited button edges, underflows at any time; or a loop that keeps up, with early COMP1 matches |
| `scheduler_stall` | *violation*: sampling goes on | 2 gestures |
| `gesture` | Swipes are those of the larger difference, near and far rest on twelve batches of their own call; the sensor is set up as asked unless a transfer failed, and whatever failed, no feature is on that nobody asked for | 2 calls of up to 12 batches of four kinds, failed transfers on; or the set-up, 3 calls and 2 failures |
| `gesture_error` | *violation*: `readGesture` returns a gesture or -1 | 1 call |
| `client` | Gestures used once, every indication confirmed, discovery ends, and ends subscribed, the display follows the light | 2 connections, 3 values, 3 button edges, 2 events posted; loss of the link, refused pairing and early buttons on |
| `client_restart` | *violation*: a new connection is discovered afresh | 2 connections, 2 button edges |
| `pages` | Rows give the text as it is, nothing of an old page stays, the next page starts where the last row of the shown one ends: with an empty row, if that is the end of a line | every text of up to 7 characters that fills the first page, an LCD of 2 by 2, page breaks for 4 pages |
| `letimer` | Waits are not short but for a reload, they end, no product overflows; periods add up and time stamps are close | 8 ticks a second and a word of 2^22 for 8192 and 2^32; waits of a quarter, five eighths and the whole of a period from every value of the counter; 3 periods |
| `pairing` | Bonds are those of their link, who takes himself for bonded has a reason to, the client confirms the passkey it shows; undisturbed, the pairing succeeds | 2 links, 2 pairings, 1 stray edge of each button, 1 reset, losses and failures on; or 1 link, nothing fails, and any signals join PB0's |

Several runs ask safety questions of a system in which everything may go wrong
and liveness questions of one in which less does. Their MC modules have a
variable that never changes (`calm`, `keeps_up`, `sets_up`, `setting`,
`undisturbed`): it is chosen at first and says which instance of the module the
steps are of. A property about one kind of behaviour is guarded by it, and so
is the fairness.

Why the bounds are enough. A buffer of four goes through every relation of the
two indices; the theorems cover all sizes. Four values and two connections fill
a queue of two with one value in flight and carry it over. The scheduler has no
bound but the number of gestures: two let one arrive while another is read.
Twelve batches are what near and far need at least, so that a call of fewer
that still tells near or far would have counted something older; `Half`, silent
on one axis, brings the division by zero. Two failures in the set-up are a
failed read and a failed write of one register. In the client, a second
connection comes after a loss at any point of the first. Seven characters give
two to four rows of two and one page break more than fits, so that
`pageBreak`'s ends are reached from both sides. Eight ticks a second let a
quarter of one be two ticks, so that ticks fall between any two accesses, and
the word is scaled with the frequency, so that a product overflows where it
would. A second link and pairing follow a loss, a failure or a reset at any
point of the first, and a bond of an earlier life may be in either flash from
the start, which makes two generations of stale bonds.

`CHECK_DEADLOCK FALSE` is set for `indications`, `indications_flag`, `letimer`
and `pairing`, where nothing is left to happen once the bounds are used up, and
for `gesture` and `gesture_error`, where nothing is said of what follows an
overrun of the sample arrays.

Fairness:

- *Indications*: the super-loop handles every posted event, the periodic soft
  timer fires, and a client that is connected confirms what it gets. Nothing
  obliges a client to connect, subscribe or leave, or a sensor to produce.
- *ServerScheduler*: the timer and the ADC run, an enabled interrupt is taken,
  and the super-loop goes round. `Prompt` says in addition that the loop, when
  idle, is done with a sample (a millisecond) before the next underflow (a
  second); liveness is asked with it, safety without. Without it
  an underflow could coincide with every COMP1 match for ever.
- *Client*: posted events are handled, the soft timer of a second repeats, the
  server is in range, and the stack ends each procedure. Nobody has to press a
  button, make a gesture or lose the link.
- *Letimer*: the counter runs and the main loop makes its accesses. Interrupts
  are taken within a tick in the behaviours of which it is asked that waits
  end. A polled wait gets its turn infinitely often while the counter stands
  where it ends (strong fairness): the loop reads the counter many times a tick.
- *Pairing*: both loops handle what is posted, the stacks connect and pair, and
  a user who is asked presses and releases PB0 until the prompt is gone. PB0's
  signal is handled alone infinitely often (strong fairness), since a mask it
  shares is none that the code knows. This is asked of behaviours without
  losses, failures and resets only.

The liveness properties of `Indications` are checked with finitely many values
and connections; `QueueDrains` is not claimed for a sensor that produces a
value before every tick.

## Proofs

All are for every value of the constants, whatever the bounds. Every safety
property that a passing run checks is also stated by a theorem. Where a run
checks it of one kind of behaviour only (`calm`, `keeps_up`, `sets_up`,
`setting`), the theorem is about the MC module's specification, `MCSpec`, and
the proof module extends that one: the instance's steps are first shown to be
steps of the component, or the instance is proved about through its prefix.

**CbfifoProofs.** `TypeCorrect`, `QueuedAreWritten` (no slot that was never
written is handed out), `LengthCorrect` (the length is positive exactly when
something is queued) and `Refinement` (`Spec => Abstract!Spec`). The inductive
invariant is `TypeOK /\ QueuedSlotsWritten`, of which the second part says that
`isFull` implies equal indices: without it the count of the contents is not a
function of the indices. The arithmetic of the wrap is proved first, without
the modulo operator, and each call is shown to be one step of the abstract
queue with the same result.

**IndicationsProofs.** `TypeCorrect`, `NoSendInProgress`, `SentOnce`,
`ViewIsRight`, `LeftoversFit` and `FlagComesDown`. That the stack is never asked
to send with an indication outstanding is an argument about what is posted:
while it is outstanding the flag is up, the application has the right
connection, and no event that would take the flag down or change the connection
is on its way (`OutstandingKnown`); confirmations are posted once
and before the end of their connection (`ConfirmationOnce`); the events of one
connection are handled before the next can be made (`LinkEvents`).
`SentOnce` numbers the values: each number is in the queue or was sent, not both
and not twice, and the next is larger (`ValuesInv`). `ViewIsRight` needs what the
posted events will make of the flags (`ViewInv`): the last one that tells of a
descriptor tells how it is, and only when none does the flag say so already
(`Agrees`); the opening that is posted is that of the link that is up; and a
link that is down has left a closing at the end of the queue, which resets all.

`LeftoversFit` counts. The values sent on a link later than their own (`Old`) and
those that wait and are not of the application's present link (`Waiting`) are
together at most `SIZE` for each link the application saw end (`LeftInv`). A send
moves a value from the second set to the first at most; the end of a link makes
the whole queue wait, which is what it adds to the bound; and nothing else is
left behind, because an opening that is posted is the head of the events and the
application has no link, and produces for none, until it is handled
(`OpeningInv`). `FlagComesDown` is about
calm behaviours: the indication that is awaited belongs to a characteristic
that is still enabled, hence its confirmation carries "indication", and the flag
is up only while that, or the closing of the link, is to come (`CalmInv`). Its
hypothesis `MaxValues >= 3` makes a calm step, which produces three values at
most, a step of the component.

**SchedulerProofs.** `TypeCorrect`, `NoPhantom`, `Powered`, `FollowsLight`, and,
under `~MayMatchOld`, `Settled` and `SettledUnlessOldIsMatched`. The difficulty
is the mask: its comparison with one number says only which bits were raised.
`MaskInv` says which interrupt a mask stands for in which state, since bit 1 never comes
alone; `TimerInv`, `SampleInv` and `LightInv` tie the timer, the conversion and
the gesture sensor to the states; `WaitInv`, needed for the last two alone, says
where COMP1 has matched since the power came. The hypothesis is not idle: with
`MayMatchOld`, TLC finds a conversion without the wait. In the run, which has
`MayMatchOld` in the behaviours whose loop keeps up, the second theorem is about
the others.

**GestureProofs.** `TypeCorrect`, `CountsAgree`, `SwipeIsTheLarger` and
`HoverIsFresh`. The first needs that the first and last loud samples are
samples, hence that `Min` and `Max` of a set of indices are in it, which is
proved from well-foundedness. `SwipeIsTheLarger` follows from
`CountsFollowDeltas`. For `HoverIsFresh` the invariant `HoverInv` says that the
near and far counters count batches of this call and that the near and far
states come from the counters, as long as no read has failed.

`EnableStaysSane` and `SensorDoesAsAsked` are about the set-up, for any number of
calls and failed transfers. The steps of a call that are done, if none of its
transfers failed, have had their effect, and no later step of the same call undoes
it; the others are still to come (`DoneOrLeft`, in `SetupInv`): when none is
left, the sensor is as asked, whatever earlier calls have left.

**ClientProofs.** `TypeCorrect`, `GesturesOnce`, `EveryIndicationConfirmed` and
`ReadyIsSubscribed`. A step of the application is summed up once (`Served`): what the machine leaves
behind in any state (`Ran`), and what becomes of the queue of events (`Heard`).
The page turns made and the one the present gesture may still cause are at most
the gestures received (`Owed`). For the confirmations: the opening of a
connection is its first event that is handled and its closing the last, so that
the program's handle is that of the link whenever the server has something to
indicate (`LinkInv`, `QueueInv`); only characteristics whose handle was
discovered are enabled, and an indication that awaits its confirmation is in the
queue (`HandleInv`). `ReadyIsSubscribed` follows the discovery on the first link
(`SubInv`). Until the gesture's handle is known (`Seeking`), one command runs or
one completion waits, behind what it found, so that no state of the machine is
left early. From then on (`Subscribing`) a button's read may complete as well and
move the machine on, but no handle is missing any more, and a descriptor that was
asked for is written or being written.

**PairingProofs.** `TypeCorrect`, `BondsFresh`, `BondedSidesAreBacked` and
`ClientConfirmsWhatItShowed`, for any number of links, pairings, edges and
resets. The invariants are about the shape of the queues: a boot event is the
last of its queue and a closing ends that of its link; nothing is posted on a
side that searches; what a side's stack has got to in the pairing says which
events of it are still to be handled. That no bond of another link is used rests
on the boot event and the closing, whose handlers start the radio and delete the
bonds: they are deleted before an event of the next link is handled.

**LetimerProofs.** `TypeCorrect`, `LongEnough` and `ShortAcrossReload`, for every
frequency, period and wait in whole milliseconds whose products fit the word
(`TimerAssumption`). The distance from the counter to the value waited for, with
the turn that a reload adds, and the ticks that passed since make up the time
asked for. `LongEnough` has the hypothesis `Snug`, that no tick falls between
clearing COMP1's flag and setting COMP1: without it, it does not hold.
`PeriodsAccountedFor` and `StampsAreClose` are about the clock: each period is
counted, lost to a coinciding COMP1 or still pending in the flag, and from that
a time stamp is at most a period ahead and a period and the losses behind.

**PageDisplayProofs.** `TypeCorrect`, `PageIsShown`, `TextAsItIs` and
`PagesContinue`, for every text, every size of the LCD and of `pageBreak`, and
whatever the words beside it hold. The rows of a page are a recursive function;
that it has the values its definition gives is shown by the least number of rows
for which it would not, since induction is not available. The rest stands on one
fact about the layout: a page that starts earlier in the text has each row start no
later than the other's, hence it has a row wherever the other has one, and
prints over all of it. This is why `scrollDown` need not clear the LCD. The
invariant is `TypeOK`, `ScreenIsPage`, that `doOnce` is set until the first page
(`OnceInv`), and that the entry after `pageCount` holds where the last row of a
full page ends, also after scrolling (`BreakIsEnd`). `PagesContinue` is an action
property: it adds to `BreakIsEnd` that there is a row to show at the break, and
that this row is empty exactly when the break is a newline.

Only model-checked is what the prover does not reach: the liveness properties
(`DrainsWhenCalm`, `AdvertisesAgain`, `StopsInVainInTime`, `DiscoveryFinishes`,
`LightIsFollowed`, `WaitsEndInTime`, `SucceedsUndisturbed`).

The assumptions are those named in the modules: positive sizes, natural bounds,
readings and gestures that are numbers, samples of four bytes of which a FIFO
holds at most 32, the products of the timer's arithmetic within its word, and texts
that have as many lines as a page has rows.

## Where the code and its documents disagree

Four disagreements have runs of their own:

1. `indications_flag`: a confirmation handled when the descriptor is already
   disabled carries "disable", does not take `in_flight` ("Indication in
   flight", ble.h:46) down, and nothing is indicated until the connection
   closes.
2. `scheduler_stall`: a COMP1 or ADC signal that coalesces with another one
   matches no state, and the one-shot interrupt does not come again: the light
   is not measured any more, although it is to "trigger the server when the
   light falls or rises above a set threshold" (README.md:15).
   `StopsInVainInTime` in `scheduler` shows that nothing else stops it.
3. `gesture_error`: "-1 on error" (gesture_main.c:446) is 255, which
   `gesture_main` sends as a gesture.
4. `client_restart`: "if connection closes, start over" (scheduler.c:358), but
   no state leads to the one that does.

Others were met while modelling. The models have the behaviour, no run asks for
it:

- A value that comes between a confirmation and the next tick of the soft timer
  is sent ahead of older ones in the queue (ble.c:898, 956).
- The queue is not emptied at the end of a connection (ble.c:442): the next
  client gets what is left of the one before. `LeftoversFitTheQueue` bounds it.
- A gesture whose signal is lost in a mask leaves the interrupt line low; no
  edge comes again while the sensor stays enabled (scheduler.c:122).
- The gesture sensor, enabled by `app_init` (app.c:96), stays on in the dark
  until it has been light once.
- COMP1's flag is cleared before its value is set (timers.c:103): a match of
  the old value in between ends the wait at once.
- A failed read of the FIFO's level is taken for 255 and 63 samples are written
  to arrays of 32 before the comparison with their size (gesture_main.c:476, 612).
- "Find the first value in U/D/L/R above the threshold" (gesture_main.c:616) is
  satisfied by one axis; "less than 4" (gesture_main.c:607) is `<= 4`.
- The book is shown when this side has confirmed the passkey, before the
  pairing has succeeded (ble.c:847).
- The server keeps BONDING after a pairing that failed, and PB0 then confirms a
  passkey it has not shown yet (ble.c:660). `ClientHasSeen` is about the client.
- PB0 interrupts on both edges: a button that was down when the passkey came up
  confirms it when it is let go (gpio.c:30).
- A polled wait ends when the counter is below its target: with a target of 0 it
  never does, and a reload in its way lets it end early (timers.c:147).
- A time stamp that reads the counter before an underflow and the periods after
  it is a period ahead, and the next one goes back (irq.c:76, 80).
- `gesture_init` returns true whatever the writes after the identification have
  answered (gesture_i2c.c:101, gesture_main.c:116).
- A gesture that arrives after the light went prints a page (scheduler.c:317).
- The break after a page that ends at the end of a line is that newline, not the
  line after it (PageDisplay.c:103, 109): the next page opens with an empty row.
- The change of light writes a descriptor whether or not a procedure runs; the
  refusal is logged and not repeated (scheduler.c:290).
- `scrollUp` adds one to the newline that `strchr` did not find
  (PageDisplay.c:160), and `prevPage` on the first page reads `pageBreak[-1]`
  (PageDisplay.c:233).

## Assumptions and abstractions

- *Stack.* Modelled from sl_bt_api.h and its use. `client_config_flags` of a
  confirmation, which the API says can be ignored, is taken to be the current
  configuration, since the code works with it at all. A configuration does not
  survive the connection, because the bonds are deleted at boot.
- *Masks.* The client's button signals and the server's events are separate
  builds. Events of the stack other than the external signal change nothing in
  the server's state machines, whose masks they never equal.
- *Time* is counted in ticks in `Letimer` and `LetimerClock`. In the other
  modules waits take some time and end, the soft timer and the interrupts come
  in any order that `Prompt` and fairness allow.
- *Security managers* (`Pairing`) confirm and pair when both programs have
  confirmed; what either does on a stale confirmation is an error without
  effect. The passkeys of both sides agree, and a user presses what is asked.
- *Bonds* of `Indications` do not survive the connection, since they are deleted
  at boot and when a link closes; `Pairing` has them in flash. The handlers start
  advertising or scanning first and then delete the bonds (ble.c:296, 348, 365;
  450, 472, 490). `Pairing` has both in one step: on a link that comes up in
  between, security is asked for in a later event. A deletion that fails is only
  logged by the code (ble.c:369, 494) and not modelled: `BondsAreFresh` is about
  deletions that succeed.
- *I2C* works in `ServerScheduler`; its failures are in `GestureEngine`. A call
  of `readGesture` empties the FIFO.
- *ADC data* is read twice by the code and taken to be the same.
- *Division by zero* gives 0, as on a Cortex-M4 that does not trap it.
- *Client.* A procedure is over for the stack when its completion is posted.
  Status lines that ble.c writes over a page, LEDs and logging are left out.
- *PageDisplay.* The words on both sides of `pageBreak` hold a null pointer or
  anything (`Stray`). What is read at a pointer outside of the text is any
  text, and the properties about rows speak of positions inside. `malloc` in
  `scrollDown` may fail at any position. Of the copy it makes, the byte that is
  never written is any; the terminator's write one byte past the end of the
  allocation (PageDisplay.c:178) is not modelled. Texts have no empty first
  line, and as `Book1` does they fill the first page.

## Not modelled

- The vendored SDK, which is by far the largest part of the repository: its
  Bluetooth stack comes as a library, of which the API (sl_bt_api.h) and its use
  in ble.c give the environment of `Indications`, `Client` and `Pairing`; its
  register drivers, CMSIS, RAIL and the display's graphics are third-party code
  of which this program uses a few calls. The models have what those calls do.
- Register set-up in gpio.c, adc.c and oscillators.c: straight-line code. What
  it configures (edges, one-shot conversion) is in the models.
- gesture_i2c.c's transfers, which are the SDK's, and its block write, which
  nobody calls.
- lcd.c and log.c, which only put out; what the LCD shows is in `PageDisplay`.
- i2c.c, the driver of a temperature sensor that no part of the program calls.
- The generated configuration and GATT database, which enter as constants.

## Plan

Done: the queue, the indication path, the scheduler, the gesture engine and its
set-up, the client, the pairing, the timer and its clock, the page display, and
proofs of every safety property the runs check.

Left, in order of importance:

1. `Server`: a composition of `ServerScheduler`, `Indications` and
   `GestureEngine`, from a wave to the indication of its gesture, with the
   abstract specification of a lossy channel of gestures.
2. The error paths of `gesture_i2c.c` below a transfer, with the state of the
   I2C peripheral.
