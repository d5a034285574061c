---------------------------- MODULE BoundedQueue ----------------------------
(***************************************************************************)
(* What the server's indication queue (src/src/ble.c) promises to its      *)
(* callers, without saying how it is stored: a first-in first-out queue of *)
(* at most SIZE items.  `result' says which call came last and what it     *)
(* returned: TRUE for the code's 0, FALSE for its -1, and the item handed  *)
(* to the caller.                                                          *)
(***************************************************************************)
EXTENDS Naturals, Sequences

CONSTANTS Item,     \* what can be queued (struct buffer_data)
          NoItem,   \* stands in a result that carries no item
          SIZE      \* #define SIZE (16), a positive number

VARIABLES items,    \* the queued items, oldest first
          result    \* what the last call returned

vars == <<items, result>>

Accepted(call, x) == [call |-> call, ok |-> TRUE, item |-> x]
Refused(call)     == [call |-> call, ok |-> FALSE, item |-> NoItem]

Init ==
  /\ items = << >>
  /\ result = Refused("dequeue")

Put(x) ==
  /\ Len(items) < SIZE
  /\ items' = Append(items, x)
  /\ result' = Accepted("enqueue", NoItem)

PutWhenFull ==
  /\ Len(items) = SIZE
  /\ result' = Refused("enqueue")
  /\ UNCHANGED items

Take ==
  /\ items # << >>
  /\ items' = Tail(items)
  /\ result' = Accepted("dequeue", Head(items))

TakeWhenEmpty ==
  /\ items = << >>
  /\ result' = Refused("dequeue")
  /\ UNCHANGED items

Next ==
  \/ \E x \in Item : Put(x)
  \/ PutWhenFull
  \/ Take
  \/ TakeWhenEmpty

Spec == Init /\ [][Next]_vars
=============================================================================
