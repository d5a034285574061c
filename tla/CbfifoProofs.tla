---------------------------- MODULE CbfifoProofs ----------------------------
(***************************************************************************)
(* Proofs about the circular buffer, for every size and every set of       *)
(* items: type correctness, the meaning of isFull, what cbfifo_length      *)
(* tells, and that the buffer implements the bounded queue.                *)
(***************************************************************************)
EXTENDS Cbfifo, SequenceTheorems, TLAPS

-----------------------------------------------------------------------------
(* The index arithmetic, first of all without the modulo operator.         *)

\* An index below SIZE is left alone by the wrap.
LEMMA WrapLow ==
  ASSUME NEW i \in Nat, i < SIZE
  PROVE  Wrap(i) = i
BY SizeAssumption DEF Wrap

\* An index in the second round of the buffer loses SIZE.
LEMMA WrapHigh ==
  ASSUME NEW i \in Nat, i >= SIZE, i < 2 * SIZE
  PROVE  Wrap(i) = i - SIZE
BY SizeAssumption DEF Wrap

\* The successor of a slot is a slot.
LEMMA SuccInSlots ==
  ASSUME NEW i \in Slots
  PROVE  /\ Succ(i) \in Slots
         /\ Succ(i) = IF i + 1 = SIZE THEN 0 ELSE i + 1
<1>1. CASE i + 1 = SIZE
  BY <1>1, WrapHigh, SizeAssumption DEF Succ, Slots
<1>2. CASE i + 1 < SIZE
  BY <1>2, WrapLow, SizeAssumption DEF Succ, Slots
<1>3. QED BY <1>1, <1>2, SizeAssumption DEF Slots

\* The slot that holds the k-th queued item.
LEMMA SlotOfItem ==
  ASSUME NEW r \in Slots, NEW k \in 1 .. SIZE
  PROVE  /\ Wrap(r + k - 1) \in Slots
         /\ Wrap(r + k - 1) = IF r + k - 1 < SIZE THEN r + k - 1
                                                  ELSE r + k - 1 - SIZE
<1>0. r + k - 1 \in Nat /\ r + k - 1 < 2 * SIZE
  BY SizeAssumption DEF Slots
<1>1. CASE r + k - 1 < SIZE
  BY <1>0, <1>1, WrapLow, SizeAssumption DEF Slots
<1>2. CASE r + k - 1 >= SIZE
  BY <1>0, <1>2, WrapHigh, SizeAssumption DEF Slots
<1>3. QED BY <1>0, <1>1, <1>2, SizeAssumption

\* The distance from the read to the write index.
LEMMA Distance ==
  ASSUME NEW w \in Slots, NEW r \in Slots
  PROVE  Wrap(w + SIZE - r) = IF w >= r THEN w - r ELSE w + SIZE - r
<1>0. w + SIZE - r \in Nat /\ w + SIZE - r < 2 * SIZE
  BY SizeAssumption DEF Slots
<1>1. CASE w >= r
  BY <1>0, <1>1, WrapHigh, SizeAssumption DEF Slots
<1>2. CASE w < r
  BY <1>0, <1>2, WrapLow, SizeAssumption DEF Slots
<1>3. QED BY <1>1, <1>2 DEF Slots

-----------------------------------------------------------------------------
(* The inductive invariant.                                                *)

Inv == TypeOK /\ QueuedSlotsWritten

\* The count in a state that satisfies the invariant.
LEMMA CountValue ==
  ASSUME Inv
  PROVE  /\ Count \in 0 .. SIZE
         /\ Count = IF isFull = 1 THEN SIZE
                    ELSE IF wrloc >= rdloc THEN wrloc - rdloc
                                           ELSE wrloc + SIZE - rdloc
         /\ Count = 0 <=> EmptyCheck
         /\ Count = SIZE <=> FullCheck
<1>1. wrloc \in Slots /\ rdloc \in Slots /\ isFull \in {0, 1}
  BY DEF Inv, TypeOK
<1>2. isFull = 1 => wrloc = rdloc
  BY DEF Inv, QueuedSlotsWritten
<1>3. Count = IF isFull = 1 THEN SIZE
              ELSE IF wrloc >= rdloc THEN wrloc - rdloc
                                     ELSE wrloc + SIZE - rdloc
  BY <1>1, Distance DEF Count
<1>4. QED
  BY <1>1, <1>2, <1>3, SizeAssumption DEF Slots, EmptyCheck, FullCheck

\* Contents is a sequence of items of length Count.
LEMMA ContentsType ==
  ASSUME Inv
  PROVE  /\ Contents \in Seq(Item)
         /\ Len(Contents) = Count
         /\ \A k \in 1 .. Count : Contents[k] = Data[Wrap(rdloc + k - 1)]
<1>1. Count \in Nat
  BY CountValue, SizeAssumption
<1>2. \A k \in 1 .. Count : Contents[k] \in Item
  BY DEF Inv, QueuedSlotsWritten
<1>3. \A k \in 1 .. Count : Contents[k] = Data[Wrap(rdloc + k - 1)]
  BY DEF Contents
<1>4. Contents \in [1 .. Count -> Item]
  BY <1>2, <1>3 DEF Contents
<1>5. QED
  BY <1>1, <1>3, <1>4

-----------------------------------------------------------------------------
(* Append and Tail, index by index.                                        *)

LEMMA AppendByIndex ==
  ASSUME NEW S, NEW s \in Seq(S), NEW x \in S, NEW n \in Nat, Len(s) = n, NEW t,
         t = [k \in 1 .. n + 1 |-> IF k = n + 1 THEN x ELSE s[k]]
  PROVE  t = Append(s, x)
<1>1. \A k \in 1 .. n : s[k] \in S
  BY ElementOfSeq
<1>2. t \in Seq(S) /\ Len(t) = n + 1
  BY <1>1
<1>3. /\ Append(s, x) \in Seq(S)
      /\ Len(Append(s, x)) = n + 1
      /\ \A k \in 1 .. n + 1 : Append(s, x)[k] = IF k = n + 1 THEN x ELSE s[k]
  BY AppendProperties
<1>4. \A k \in 1 .. n + 1 : t[k] = Append(s, x)[k]
  BY <1>3
<1>5. QED
  BY <1>2, <1>3, <1>4, SeqEqual

LEMMA TailByIndex ==
  ASSUME NEW S, NEW s \in Seq(S), NEW n \in Nat, Len(s) = n, n # 0, NEW t,
         t = [k \in 1 .. n - 1 |-> s[k + 1]]
  PROVE  t = Tail(s)
<1>1. \A k \in 1 .. n : s[k] \in S
  BY ElementOfSeq
<1>2. t \in Seq(S) /\ Len(t) = n - 1
  BY <1>1
<1>3. /\ Tail(s) \in Seq(S)
      /\ Len(Tail(s)) = n - 1
      /\ \A k \in 1 .. n - 1 : Tail(s)[k] = s[k + 1]
  BY HeadTailProperties, EmptySeq
<1>4. \A k \in 1 .. n - 1 : t[k] = Tail(s)[k]
  BY <1>3
<1>5. QED
  BY <1>2, <1>3, <1>4, SeqEqual

-----------------------------------------------------------------------------
(* What one call does to the queue the buffer represents.                  *)

\* An accepted enqueue keeps the invariant and appends its item.
LEMMA EnqueueAppends ==
  ASSUME Inv, NEW x \in Item, cbfifo_enqueue(x), ~FullCheck
  PROVE  /\ Inv'
         /\ Count < SIZE
         /\ Contents' = Append(Contents, x)
<1>1. /\ Data' = [Data EXCEPT ![wrloc] = x]
      /\ wrloc' = Succ(wrloc)
      /\ isFull' = IF wrloc' = rdloc THEN 1 ELSE isFull
      /\ result' = Accepted("enqueue", NoItem)
      /\ rdloc' = rdloc
  BY DEF cbfifo_enqueue
<1>2. /\ Data \in [Slots -> Item \cup {NoItem}]
      /\ wrloc \in Slots /\ rdloc \in Slots /\ isFull \in {0, 1}
  BY DEF Inv, TypeOK
<1>3. TypeOK'
  BY <1>1, <1>2, SuccInSlots DEF TypeOK, Accepted
<1>4. /\ isFull = 0
      /\ Count < SIZE
      /\ Count \in Nat
      /\ Count = IF wrloc >= rdloc THEN wrloc - rdloc ELSE wrloc + SIZE - rdloc
  BY <1>2, CountValue, SizeAssumption DEF Inv, QueuedSlotsWritten, FullCheck
<1>5. wrloc' \in Slots /\ wrloc' = IF wrloc + 1 = SIZE THEN 0 ELSE wrloc + 1
  BY <1>1, <1>2, SuccInSlots
<1>6. Count' = Count + 1
  <2>1. Count' = IF isFull' = 1 THEN SIZE
                 ELSE IF wrloc' >= rdloc THEN wrloc' - rdloc
                                         ELSE wrloc' + SIZE - rdloc
    BY <1>1, <1>2, <1>5, Distance DEF Count
  <2>2. QED
    BY <2>1, <1>1, <1>2, <1>4, <1>5, SizeAssumption DEF Slots
<1>7. \A k \in 1 .. Count + 1 :
        Data'[Wrap(rdloc + k - 1)] = IF k = Count + 1
                                     THEN x ELSE Data[Wrap(rdloc + k - 1)]
  <2> SUFFICES ASSUME NEW k \in 1 .. Count + 1
               PROVE  Data'[Wrap(rdloc + k - 1)] =
                        IF k = Count + 1 THEN x ELSE Data[Wrap(rdloc + k - 1)]
    OBVIOUS
  <2>1. k \in 1 .. SIZE
    BY <1>4, SizeAssumption
  <2>2. /\ Wrap(rdloc + k - 1) \in Slots
        /\ Wrap(rdloc + k - 1) = IF rdloc + k - 1 < SIZE
                                 THEN rdloc + k - 1 ELSE rdloc + k - 1 - SIZE
    BY <2>1, <1>2, SlotOfItem
  <2>3. Wrap(rdloc + k - 1) = wrloc <=> k = Count + 1
    BY <2>1, <2>2, <1>2, <1>4, SizeAssumption DEF Slots
  <2>4. QED
    BY <2>2, <2>3, <1>1, <1>2
<1>8. /\ Contents \in Seq(Item)
      /\ Len(Contents) = Count
      /\ \A k \in 1 .. Count : Contents[k] = Data[Wrap(rdloc + k - 1)]
  BY ContentsType
<1>9. Contents' = [k \in 1 .. Count + 1 |-> IF k = Count + 1
                                            THEN x ELSE Contents[k]]
  <2>1. Contents' = [k \in 1 .. Count' |-> Data'[Wrap(rdloc' + k - 1)]]
    BY DEF Contents
  <2>2. \A k \in 1 .. Count + 1 :
          Data'[Wrap(rdloc + k - 1)] = IF k = Count + 1 THEN x ELSE Contents[k]
    BY <1>4, <1>7, <1>8
  <2>3. QED
    BY <2>1, <2>2, <1>1, <1>6
<1>10. Contents' = Append(Contents, x)
  BY <1>4, <1>8, <1>9, AppendByIndex
<1>11. QueuedSlotsWritten'
  <2>1. \A k \in 1 .. Count + 1 : Contents'[k] \in Item
    BY <1>4, <1>8, <1>9, ElementOfSeq
  <2>2. isFull' = 1 => wrloc' = rdloc'
    BY <1>1, <1>4
  <2>3. QED BY <2>1, <2>2, <1>6 DEF QueuedSlotsWritten
<1>12. QED BY <1>3, <1>4, <1>10, <1>11 DEF Inv

\* A dequeue that finds an item keeps the invariant, hands back the oldest
\* item and leaves the others in order.
LEMMA DequeueTakesHead ==
  ASSUME Inv, cbfifo_dequeue, ~EmptyCheck
  PROVE  /\ Inv'
         /\ Contents # << >>
         /\ Contents' = Tail(Contents)
         /\ result' = Accepted("dequeue", Head(Contents))
<1>1. /\ result' = Accepted("dequeue", Data[rdloc])
      /\ rdloc' = Succ(rdloc)
      /\ isFull' = 0
      /\ Data' = Data /\ wrloc' = wrloc
  BY DEF cbfifo_dequeue
<1>2. /\ Data \in [Slots -> Item \cup {NoItem}]
      /\ wrloc \in Slots /\ rdloc \in Slots /\ isFull \in {0, 1}
  BY DEF Inv, TypeOK
<1>3. TypeOK'
  <2>1. Data[rdloc] \in Item \cup {NoItem}
    BY <1>2
  <2>2. QED BY <1>1, <1>2, <2>1, SuccInSlots DEF TypeOK, Accepted
<1>4. /\ Count \in 1 .. SIZE
      /\ Count = IF isFull = 1 THEN SIZE
                 ELSE IF wrloc >= rdloc THEN wrloc - rdloc
                                        ELSE wrloc + SIZE - rdloc
  BY CountValue, SizeAssumption
<1>5. rdloc' \in Slots /\ rdloc' = IF rdloc + 1 = SIZE THEN 0 ELSE rdloc + 1
  BY <1>1, <1>2, SuccInSlots
<1>6. isFull = 1 => wrloc = rdloc
  BY DEF Inv, QueuedSlotsWritten
<1>7. Count' = Count - 1
  <2>1. Count' = IF wrloc >= rdloc' THEN wrloc - rdloc'
                                    ELSE wrloc + SIZE - rdloc'
    BY <1>1, <1>2, <1>5, Distance DEF Count
  <2>2. QED
    BY <2>1, <1>2, <1>4, <1>5, <1>6, SizeAssumption DEF Slots
<1>8. /\ Contents \in Seq(Item)
      /\ Len(Contents) = Count
      /\ \A k \in 1 .. Count : Contents[k] = Data[Wrap(rdloc + k - 1)]
  BY ContentsType
<1>9. \A k \in 1 .. Count - 1 :
        Data[Wrap(rdloc' + k - 1)] = Contents[k + 1]
  <2> SUFFICES ASSUME NEW k \in 1 .. Count - 1
               PROVE  Data[Wrap(rdloc' + k - 1)] = Contents[k + 1]
    OBVIOUS
  <2>1. k \in 1 .. SIZE /\ k + 1 \in 1 .. SIZE /\ k + 1 \in 1 .. Count
    BY <1>4, SizeAssumption
  <2>2. Wrap(rdloc' + k - 1) = IF rdloc' + k - 1 < SIZE
                               THEN rdloc' + k - 1 ELSE rdloc' + k - 1 - SIZE
    BY <2>1, <1>5, SlotOfItem
  <2>3. Wrap(rdloc + (k + 1) - 1) = IF rdloc + (k + 1) - 1 < SIZE
                                    THEN rdloc + (k + 1) - 1
                                    ELSE rdloc + (k + 1) - 1 - SIZE
    BY <2>1, <1>2, SlotOfItem
  <2>4. Wrap(rdloc' + k - 1) = Wrap(rdloc + (k + 1) - 1)
    BY <2>1, <2>2, <2>3, <1>2, <1>5, SizeAssumption DEF Slots
  <2>5. Contents[k + 1] = Data[Wrap(rdloc + (k + 1) - 1)]
    BY <1>8, <2>1
  <2>6. QED BY <2>4, <2>5
<1>10. Contents' = [k \in 1 .. Count - 1 |-> Contents[k + 1]]
  <2>1. Contents' = [k \in 1 .. Count' |-> Data'[Wrap(rdloc' + k - 1)]]
    BY DEF Contents
  <2>2. QED BY <2>1, <1>1, <1>7, <1>9
<1>11. Contents' = Tail(Contents)
  <2>1. Count \in Nat /\ Count # 0
    BY <1>4, SizeAssumption
  <2>2. QED BY <2>1, <1>8, <1>10, TailByIndex
<1>12. Contents # << >> /\ Head(Contents) = Data[rdloc]
  <2>1. Wrap(rdloc + 1 - 1) = rdloc
    <3>1. rdloc + 1 - 1 = rdloc /\ rdloc \in Nat /\ rdloc < SIZE
      BY <1>2, SizeAssumption DEF Slots
    <3>2. QED BY <3>1, WrapLow
  <2>2. Contents[1] = Data[rdloc]
    BY <1>4, <1>8, <2>1
  <2>3. Contents # << >>
    BY <1>4, <1>8
  <2>4. QED BY <2>2, <2>3, <1>8
<1>13. QueuedSlotsWritten'
  <2>1. \A k \in 1 .. Count - 1 : Contents'[k] \in Item
    BY <1>4, <1>8, <1>10, ElementOfSeq
  <2>2. QED BY <2>1, <1>1, <1>7 DEF QueuedSlotsWritten
<1>14. QED BY <1>1, <1>3, <1>11, <1>12, <1>13 DEF Inv

-----------------------------------------------------------------------------
(* The theorems.                                                           *)

\* The buffer starts empty.
LEMMA InitEmpty == Init => Count = 0
<1> SUFFICES ASSUME Init PROVE Count = 0
  OBVIOUS
<1>1. wrloc \in Slots /\ rdloc \in Slots
  BY SizeAssumption DEF Init, Slots
<1>2. Wrap(wrloc + SIZE - rdloc) = 0
  BY <1>1, Distance DEF Init
<1>3. QED BY <1>2 DEF Init, Count

LEMMA InitInv == Init => Inv
<1> SUFFICES ASSUME Init PROVE Inv
  OBVIOUS
<1>1. TypeOK
  BY SizeAssumption DEF Init, TypeOK, Slots, Refused
<1>2. Count = 0
  BY InitEmpty
<1>3. QED BY <1>1, <1>2 DEF Inv, QueuedSlotsWritten, Init

\* A call that is refused changes nothing but the result.
LEMMA RefusalKeeps ==
  ASSUME Inv, UNCHANGED <<Data, wrloc, rdloc, isFull>>,
         result' \in {result, Refused("enqueue"), Refused("dequeue")}
  PROVE  Inv' /\ Contents' = Contents
<1>1. TypeOK'
  <2>1. \A call \in {"enqueue", "dequeue"} :
          Refused(call) \in [call : {"enqueue", "dequeue"}, ok : BOOLEAN,
                            item : Item \cup {NoItem}]
    BY DEF Refused
  <2>2. result' \in [call : {"enqueue", "dequeue"}, ok : BOOLEAN,
                    item : Item \cup {NoItem}]
    BY <2>1 DEF Inv, TypeOK
  <2>3. QED BY <2>2 DEF Inv, TypeOK
<1>2. Count' = Count
  BY DEF Count
<1>3. Contents' = Contents
  BY <1>2 DEF Contents
<1>4. QueuedSlotsWritten'
  BY <1>2, <1>3 DEF Inv, QueuedSlotsWritten
<1>5. QED BY <1>1, <1>3, <1>4 DEF Inv

LEMMA StepInv == Inv /\ [Next]_vars => Inv'
<1> SUFFICES ASSUME Inv, [Next]_vars PROVE Inv'
  OBVIOUS
<1>1. ASSUME NEW x \in Item, cbfifo_enqueue(x) PROVE Inv'
  <2>1. CASE FullCheck
    BY <1>1, <2>1, RefusalKeeps DEF cbfifo_enqueue
  <2>2. CASE ~FullCheck
    BY <1>1, <2>2, EnqueueAppends
  <2>3. QED BY <2>1, <2>2
<1>2. CASE cbfifo_dequeue
  <2>1. CASE EmptyCheck
    BY <1>2, <2>1, RefusalKeeps DEF cbfifo_dequeue
  <2>2. CASE ~EmptyCheck
    BY <1>2, <2>2, DequeueTakesHead
  <2>3. QED BY <2>1, <2>2
<1>3. CASE UNCHANGED vars
  BY <1>3, RefusalKeeps DEF vars
<1>4. QED BY <1>1, <1>2, <1>3 DEF Next

\* The indices stay inside the buffer whatever the calls (ble.c:99, 117).
THEOREM TypeCorrect == Spec => []TypeOK
<1>1. Inv => TypeOK
  BY DEF Inv
<1>2. QED BY <1>1, InitInv, StepInv, PTL DEF Spec

\* isFull is set only while the indices are equal, and every queued slot was
\* written by an enqueue (ble.c:90-123).
THEOREM QueuedAreWritten == Spec => []QueuedSlotsWritten
<1>1. Inv => QueuedSlotsWritten
  BY DEF Inv
<1>2. QED BY <1>1, InitInv, StepInv, PTL DEF Spec

\* cbfifo_length is positive exactly when there is something to dequeue
\* (ble.c:125-131), although it reports a full buffer as 1.
THEOREM LengthCorrect == Spec => []LengthTellsEmptiness
<1>1. ASSUME Inv PROVE LengthTellsEmptiness
  <2>1. /\ wrloc \in Slots /\ rdloc \in Slots /\ isFull \in {0, 1}
    BY <1>1 DEF Inv, TypeOK
  <2>2. Len(Contents) = Count /\ Count \in Nat /\ Contents \in Seq(Item)
    BY <1>1, ContentsType, CountValue, SizeAssumption
  <2>3. cbfifo_length = IF isFull = 1 THEN 1 ELSE Count
    BY <2>1 DEF cbfifo_length, Count
  <2>4. isFull = 1 => Count > 0
    BY <1>1, CountValue, SizeAssumption DEF EmptyCheck
  <2>5. Contents # << >> <=> Count # 0
    BY <2>2, EmptySeq
  <2>6. QED BY <2>1, <2>2, <2>3, <2>4, <2>5 DEF LengthTellsEmptiness
<1>2. QED BY <1>1, InitInv, StepInv, PTL DEF Spec

LEMMA InitRefines == Init => Abstract!Init
<1> SUFFICES ASSUME Init PROVE Abstract!Init
  OBVIOUS
<1>1. Len(Contents) = 0 /\ Contents \in Seq(Item)
  <2>1. Count = 0
    BY InitEmpty
  <2>2. QED BY <2>1, InitInv, ContentsType
<1>2. Contents = << >>
  BY <1>1, EmptySeq
<1>3. QED BY <1>2 DEF Init, Abstract!Init, Refused, Abstract!Refused

LEMMA StepRefines == Inv /\ [Next]_vars => [Abstract!Next]_Abstract!vars
<1> SUFFICES ASSUME Inv, [Next]_vars PROVE [Abstract!Next]_Abstract!vars
  OBVIOUS
<1> USE DEF Accepted, Refused, Abstract!Accepted, Abstract!Refused
<1>0. Len(Contents) = Count /\ Contents \in Seq(Item) /\ Count \in 0 .. SIZE
  BY ContentsType, CountValue
<1>1. ASSUME NEW x \in Item, cbfifo_enqueue(x) PROVE Abstract!Next
  <2>1. CASE FullCheck
    <3>1. Len(Contents) = SIZE
      BY <1>0, <2>1, CountValue
    <3>2. result' = Refused("enqueue") /\ Contents' = Contents
      BY <1>1, <2>1, RefusalKeeps DEF cbfifo_enqueue
    <3>3. QED BY <3>1, <3>2 DEF Abstract!Next, Abstract!PutWhenFull
  <2>2. CASE ~FullCheck
    <3>1. Len(Contents) < SIZE /\ Contents' = Append(Contents, x)
      BY <1>0, <1>1, <2>2, EnqueueAppends
    <3>2. result' = Accepted("enqueue", NoItem)
      BY <1>1, <2>2 DEF cbfifo_enqueue
    <3>3. Abstract!Put(x)
      BY <3>1, <3>2 DEF Abstract!Put
    <3>4. QED BY <3>3 DEF Abstract!Next
  <2>3. QED BY <2>1, <2>2
<1>2. CASE cbfifo_dequeue
  <2>1. CASE EmptyCheck
    <3>1. Contents = << >>
      BY <1>0, <2>1, CountValue, EmptySeq
    <3>2. result' = Refused("dequeue") /\ Contents' = Contents
      BY <1>2, <2>1, RefusalKeeps DEF cbfifo_dequeue
    <3>3. QED BY <3>1, <3>2 DEF Abstract!Next, Abstract!TakeWhenEmpty
  <2>2. CASE ~EmptyCheck
    BY <1>2, <2>2, DequeueTakesHead DEF Abstract!Next, Abstract!Take
  <2>3. QED BY <2>1, <2>2
<1>3. CASE UNCHANGED vars
  BY <1>3, RefusalKeeps DEF vars, Abstract!vars
<1>4. QED BY <1>1, <1>2, <1>3 DEF Next

\* The circular buffer implements the bounded queue: what is accepted comes
\* out once and in order, and only a full queue refuses an item.
THEOREM Refinement == Spec => ImplementsQueue
<1>1. QED
  BY InitInv, StepInv, InitRefines, StepRefines, PTL
     DEF Spec, ImplementsQueue, Abstract!Spec
=============================================================================
