------------------------------- MODULE Cbfifo -------------------------------
(***************************************************************************)
(* The circular buffer of src/src/ble.c that holds indications which could *)
(* not be sent at once: `Buffer queue', cbfifo_enqueue, cbfifo_dequeue and *)
(* cbfifo_length.  The NULL checks are left out: every caller passes the   *)
(* addresses of two globals.                                               *)
(***************************************************************************)
EXTENDS Naturals, Sequences

CONSTANTS Item,     \* struct buffer_data values
          NoItem,   \* the zero-initialised slot, also "no item handed back"
          SIZE      \* #define SIZE (16): a power of two, so & (SIZE - 1) is %

ASSUME SizeAssumption == SIZE \in Nat \ {0}
ASSUME NoItemAssumption == NoItem \notin Item

VARIABLES Data,     \* the SIZE slots
          wrloc,    \* where the next item is written
          rdloc,    \* where the next item is read
          isFull,   \* 1 when wrloc = rdloc means full, 0 when it means empty
          result    \* what the last call returned

vars == <<Data, wrloc, rdloc, isFull, result>>

Slots == 0 .. SIZE - 1
Wrap(i) == i % SIZE

\* Faulty variant: the index runs one past the last slot before it wraps.
SuccLateWrap(i) == IF i = SIZE THEN 0 ELSE i + 1
Succ(i) == Wrap(i + 1)

Accepted(call, x) == [call |-> call, ok |-> TRUE, item |-> x]
Refused(call)     == [call |-> call, ok |-> FALSE, item |-> NoItem]

\* Buffer queue = {.isFull = 0, .rdloc = 0, .wrloc = 0}
Init ==
  /\ Data = [i \in Slots |-> NoItem]
  /\ wrloc = 0
  /\ rdloc = 0
  /\ isFull = 0
  /\ result = Refused("dequeue")

FullCheck  == wrloc = rdloc /\ isFull = 1

\* Faulty variant: equal indices are taken for an empty buffer.
EmptyCheckByIndex == rdloc = wrloc
EmptyCheck == rdloc = wrloc /\ isFull = 0

cbfifo_enqueue(x) ==
  \/ /\ FullCheck
     /\ result' = Refused("enqueue")
     /\ UNCHANGED <<Data, wrloc, rdloc, isFull>>
  \/ /\ ~FullCheck
     /\ Data' = [Data EXCEPT ![wrloc] = x]
     /\ wrloc' = Succ(wrloc)
     /\ isFull' = IF wrloc' = rdloc THEN 1 ELSE isFull
     /\ result' = Accepted("enqueue", NoItem)
     /\ UNCHANGED rdloc

\* Faulty variant: the full flag survives the read.
cbfifo_dequeue_keeps_full ==
  \/ /\ EmptyCheck
     /\ result' = Refused("dequeue")
     /\ UNCHANGED <<Data, wrloc, rdloc, isFull>>
  \/ /\ ~EmptyCheck
     /\ result' = Accepted("dequeue", Data[rdloc])
     /\ rdloc' = Succ(rdloc)
     /\ UNCHANGED <<Data, wrloc, isFull>>

cbfifo_dequeue ==
  \/ /\ EmptyCheck
     /\ result' = Refused("dequeue")
     /\ UNCHANGED <<Data, wrloc, rdloc, isFull>>
  \/ /\ ~EmptyCheck
     /\ result' = Accepted("dequeue", Data[rdloc])
     /\ rdloc' = Succ(rdloc)
     /\ isFull' = 0
     /\ UNCHANGED <<Data, wrloc>>

\* Faulty variant: the difference of the indices alone.
cbfifo_length_no_full == Wrap(wrloc + SIZE - rdloc)

\* The value returned: 1, not SIZE, when the buffer is full.
cbfifo_length ==
  IF isFull = 0 THEN Wrap(wrloc + SIZE - rdloc) ELSE 1

Next == (\E x \in Item : cbfifo_enqueue(x)) \/ cbfifo_dequeue

Spec == Init /\ [][Next]_vars
-----------------------------------------------------------------------------
(* The number of queued items and the queue the buffer represents.         *)
Count == IF isFull = 1 THEN SIZE ELSE Wrap(wrloc + SIZE - rdloc)
Contents == [k \in 1 .. Count |-> Data[Wrap(rdloc + k - 1)]]

\* Type invariant.
TypeOK ==
  /\ Data \in [Slots -> Item \cup {NoItem}]
  /\ wrloc \in Slots
  /\ rdloc \in Slots
  /\ isFull \in {0, 1}
  /\ result \in [call : {"enqueue", "dequeue"}, ok : BOOLEAN,
                 item : Item \cup {NoItem}]

\* isFull distinguishes the two meanings of wrloc = rdloc and is never set
\* elsewhere (ble.c:102-103, 119-120), and no slot of the queued range is one
\* that was never written: what the timer handler sends (ble.c:528-531) was
\* put there by an enqueue.
QueuedSlotsWritten ==
  /\ isFull = 1 => wrloc = rdloc
  /\ \A k \in 1 .. Count : Contents[k] \in Item

\* The soft timer handler drains only when cbfifo_length() > 0 (ble.c:521):
\* the length is positive exactly when there is something to dequeue, though
\* the value returned for a full buffer is 1.
LengthTellsEmptiness == (cbfifo_length > 0) <=> (Contents # << >>)

\* The circular buffer implements the bounded first-in first-out queue, the
\* results handed to the callers included: nothing accepted is lost,
\* duplicated or reordered, and only a full queue refuses an item.
Abstract == INSTANCE BoundedQueue WITH items <- Contents
ImplementsQueue == Abstract!Spec
=============================================================================
