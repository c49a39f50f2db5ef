--------------------------- MODULE AdmQueueProofs ---------------------------
(***************************************************************************)
(* Proofs about AdmQueue, for every length, item set and request set; and  *)
(* before them the lemmas about the operators of AdmQueueOps: what a send  *)
(* or a receive does to the shape of an adm_queue_t, to the two pointers   *)
(* of the ring and to the items it holds.  AdmQueueSyncProofs and          *)
(* AdmMessagingProofs take instances of these lemmas.                      *)
(***************************************************************************)
EXTENDS AdmQueue, SequenceTheorems, TLAPS

USE DEF ADM_QUEUE_INSERT_TO_BACK, ADM_QUEUE_INSERT_TO_FRONT,
        ADM_QUEUE_INSERT_OVERWRITE, Position

-----------------------------------------------------------------------------
(* Type correctness *)

\* One adm_queue_t of the right shape, its pointers inside the storage area.
QueueOK(r) ==
  /\ r \in [slot : [0 .. Length * ItemSize - 1 -> Item \cup {Zero}],
            uxLength : {Length}, uxItemSize : {ItemSize},
            pcTail : {Length * ItemSize}, uxMessagesWaiting : Nat,
            pcWriteTo : Nat, pcReadFrom : Nat]
  /\ r.pcWriteTo <= (Length - 1) * ItemSize
  /\ r.pcReadFrom <= (Length - 1) * ItemSize

\* Changing a pointer and the storage, or the count, within their types keeps
\* the shape.
LEMMA WriteUpdateOK ==
  ASSUME NEW r, QueueOK(r),
         NEW slot \in [0 .. Length * ItemSize - 1 -> Item \cup {Zero}],
         NEW p \in Nat, p <= (Length - 1) * ItemSize
  PROVE  QueueOK([r EXCEPT !.slot = slot, !.pcWriteTo = p])
BY DEF QueueOK

LEMMA ReadUpdateOK ==
  ASSUME NEW r, QueueOK(r),
         NEW slot \in [0 .. Length * ItemSize - 1 -> Item \cup {Zero}],
         NEW p \in Nat, p <= (Length - 1) * ItemSize
  PROVE  QueueOK([r EXCEPT !.slot = slot, !.pcReadFrom = p])
BY DEF QueueOK

LEMMA CountUpdateOK ==
  ASSUME NEW r, QueueOK(r), NEW n \in Nat
  PROVE  QueueOK([r EXCEPT !.uxMessagesWaiting = n])
BY DEF QueueOK

LEMMA CreateOK == QueueOK(adm_queue_generic_create(Length, ItemSize))
<1> DEFINE z == [slot |-> [k \in 0 .. Length * ItemSize - 1 |-> Zero],
                 uxLength |-> Length, uxItemSize |-> ItemSize,
                 uxMessagesWaiting |-> 0,
                 pcTail |-> 0, pcWriteTo |-> 0, pcReadFrom |-> 0]
           end == Length * ItemSize
           top == (Length - 1) * ItemSize
<1>1. adm_queue_generic_create(Length, ItemSize)
        = [z EXCEPT !.pcTail = end, !.uxMessagesWaiting = 0,
                    !.pcWriteTo = 0, !.pcReadFrom = top]
  <2>1. adm_queue_generic_create(Length, ItemSize) = adm_queue_generic_reset(z)
    BY DEF adm_queue_generic_create
  <2>2. z.uxLength = Length /\ z.uxItemSize = ItemSize
    OBVIOUS
  <2> HIDE DEF z
  <2> QED BY <2>1, <2>2 DEF adm_queue_generic_reset
<1>2. top \in Nat
  <2>1. CASE ItemSize = 0 BY <2>1, LengthAssumption
  <2>2. CASE ItemSize = 1 BY <2>2, LengthAssumption
  <2> QED BY <2>1, <2>2, LengthAssumption
<1>3. [k \in 0 .. end - 1 |-> Zero] \in [0 .. end - 1 -> Item \cup {Zero}]
  OBVIOUS
<1> HIDE DEF top, end
<1>4. z \in [slot : [0 .. end - 1 -> Item \cup {Zero}],
             uxLength : {Length}, uxItemSize : {ItemSize}, pcTail : {0},
             uxMessagesWaiting : Nat, pcWriteTo : Nat, pcReadFrom : Nat]
  BY <1>3 DEF end
<1> HIDE DEF z
<1>5. [z EXCEPT !.pcTail = end, !.uxMessagesWaiting = 0,
                !.pcWriteTo = 0, !.pcReadFrom = top]
        \in [slot : [0 .. end - 1 -> Item \cup {Zero}],
             uxLength : {Length}, uxItemSize : {ItemSize}, pcTail : {end},
             uxMessagesWaiting : {0}, pcWriteTo : {0}, pcReadFrom : {top}]
  BY <1>4
<1> DEFINE c == adm_queue_generic_create(Length, ItemSize)
<1>6. c \in [slot : [0 .. end - 1 -> Item \cup {Zero}],
             uxLength : {Length}, uxItemSize : {ItemSize}, pcTail : {end},
             uxMessagesWaiting : {0}, pcWriteTo : {0}, pcReadFrom : {top}]
  BY <1>1, <1>5
<1> HIDE DEF c
<1>7. QueueOK(c)
  BY <1>2, <1>6 DEF QueueOK, top, end
<1> QED BY <1>7 DEF c

\* The two pointers wrap around inside the storage area.
LEMMA WrapOK ==
  ASSUME NEW r, QueueOK(r), ItemSize = 1, NEW d \in {0, 1}
  PROVE  /\ WrapUp(r, r.pcWriteTo + d) \in 0 .. Length - 1
         /\ WrapUp(r, r.pcReadFrom + d) \in 0 .. Length - 1
         /\ WrapDown(r, r.pcReadFrom - d) \in 0 .. Length - 1
BY LengthAssumption DEF QueueOK, WrapUp, WrapDown

LEMMA StoredOK ==
  ASSUME NEW r, QueueOK(r), NEW p, NEW item \in Item \cup {Zero, NULL}
  PROVE  Stored(r, p, item) \in [0 .. Length * ItemSize - 1 -> Item \cup {Zero}]
BY DEF QueueOK, Stored

\* Copying an item in keeps the shape and both pointers in place.
LEMMA InsertedOK ==
  ASSUME NEW r, QueueOK(r), NEW item \in Item \cup {NULL}, NEW pos \in Position
  PROVE  QueueOK(Inserted(r, item, pos))
<1> DEFINE s == Inserted(r, item, pos)
<1>1. CASE ItemSize = 0
  BY <1>1 DEF QueueOK, Inserted
<1>2. ASSUME ItemSize = 1 PROVE QueueOK(s)
  <2>1. Stride(r, item) \in {0, 1}
    BY <1>2 DEF Stride, QueueOK
  <2>2. /\ WrapUp(r, r.pcWriteTo + Stride(r, item)) \in 0 .. Length - 1
        /\ WrapDown(r, r.pcReadFrom - Stride(r, item)) \in 0 .. Length - 1
    BY <1>2, <2>1, WrapOK
  <2>3. (Length - 1) * ItemSize = Length - 1
    BY <1>2, LengthAssumption
  <2>4. QueueOK(InsertBack(r, item))
    <3> DEFINE slot == Stored(r, r.pcWriteTo, item)
               p    == WrapUp(r, r.pcWriteTo + Stride(r, item))
    <3>1. slot \in [0 .. Length * ItemSize - 1 -> Item \cup {Zero}]
      BY StoredOK
    <3>2. p \in Nat /\ p <= (Length - 1) * ItemSize
      BY <2>2, <2>3, LengthAssumption
    <3> HIDE DEF slot, p
    <3>3. QueueOK([r EXCEPT !.slot = slot, !.pcWriteTo = p])
      BY <3>1, <3>2, WriteUpdateOK
    <3> QED BY <3>3 DEF InsertBack, slot, p
  <2>5. QueueOK(InsertFront(r, item))
    <3> DEFINE slot == Stored(r, r.pcReadFrom, item)
               p    == WrapDown(r, r.pcReadFrom - Stride(r, item))
    <3>1. slot \in [0 .. Length * ItemSize - 1 -> Item \cup {Zero}]
      BY StoredOK
    <3>2. p \in Nat /\ p <= (Length - 1) * ItemSize
      BY <2>2, <2>3, LengthAssumption
    <3> HIDE DEF slot, p
    <3>3. QueueOK([r EXCEPT !.slot = slot, !.pcReadFrom = p])
      BY <3>1, <3>2, ReadUpdateOK
    <3> QED BY <3>3 DEF InsertFront, slot, p
  <2>6. r.uxItemSize = 1
    BY <1>2 DEF QueueOK
  <2> QED BY <2>4, <2>5, <2>6 DEF Inserted
<1> QED BY <1>1, <1>2, LengthAssumption

LEMMA InsertOK ==
  ASSUME NEW r, QueueOK(r), NEW item \in Item \cup {NULL}, NEW pos \in Position
  PROVE  QueueOK(adm_queue_copy_data2list(r, item, pos))
<1> DEFINE s == Inserted(r, item, pos)
<1>1. QueueOK(s)
  BY InsertedOK
<1>2. CountAfterInsert(r, pos) \in Nat
  BY DEF CountAfterInsert, QueueOK
<1> HIDE DEF s
<1>3. QueueOK([s EXCEPT !.uxMessagesWaiting = CountAfterInsert(r, pos)])
  BY <1>1, <1>2, CountUpdateOK
<1> QED BY <1>3 DEF adm_queue_copy_data2list, s

\* So does copying one out, and what comes out is a slot or nothing.
LEMMA RemoveOK ==
  ASSUME NEW r, QueueOK(r), NEW hasBuffer \in BOOLEAN
  PROVE  /\ QueueOK(adm_queue_copy_data_from_list(r, hasBuffer))
         /\ Fetched(r, hasBuffer) \in Item \cup {Zero, NULL}
<1>1. CASE ItemSize = 0
  BY <1>1 DEF QueueOK, adm_queue_copy_data_from_list, Fetched
<1>2. ASSUME ItemSize = 1
      PROVE  /\ QueueOK(adm_queue_copy_data_from_list(r, hasBuffer))
             /\ Fetched(r, hasBuffer) \in Item \cup {Zero, NULL}
  <2>1. NextRead(r) \in 0 .. Length - 1
    BY <1>2, WrapOK DEF QueueOK, NextRead
  <2>2. (Length - 1) * ItemSize = Length - 1 /\ Length * ItemSize = Length
    BY <1>2, LengthAssumption
  <2>3. r.slot[NextRead(r)] \in Item \cup {Zero}
    BY <2>1, <2>2, LengthAssumption DEF QueueOK
  <2>4. QueueOK(adm_queue_copy_data_from_list(r, hasBuffer))
    <3> DEFINE slot == Stored(r, NextRead(r), IF hasBuffer THEN Zero ELSE NULL)
               p    == NextRead(r)
    <3>1. slot \in [0 .. Length * ItemSize - 1 -> Item \cup {Zero}]
      BY StoredOK
    <3>2. p \in Nat /\ p <= (Length - 1) * ItemSize
      BY <2>1, <2>2, LengthAssumption
    <3>3. r.uxItemSize # 0
      BY <1>2 DEF QueueOK
    <3> HIDE DEF slot, p
    <3>4. QueueOK([r EXCEPT !.slot = slot, !.pcReadFrom = p])
      BY <3>1, <3>2, ReadUpdateOK
    <3> QED BY <3>3, <3>4 DEF adm_queue_copy_data_from_list, slot, p
  <2> QED BY <2>3, <2>4 DEF Fetched
<1> QED BY <1>1, <1>2, LengthAssumption

-----------------------------------------------------------------------------
(* The ring: index arithmetic of QueuedSlot *)

\* The queued slots lie in the storage area, follow each other around it, and
\* are different ones as long as there are no more than uxLength of them.
LEMMA QueuedSlotFacts ==
  ASSUME NEW r, QueueOK(r), ItemSize = 1
  PROVE  /\ \A k \in 0 .. Length : QueuedSlot(r, k) \in 0 .. Length - 1
         /\ \A j, k \in 0 .. Length - 1 :
              QueuedSlot(r, j) = QueuedSlot(r, k) => j = k
         /\ \A k \in 0 .. Length - 1 :
              QueuedSlot(r, k + 1) = WrapUp(r, QueuedSlot(r, k) + 1)
         /\ QueuedSlot(r, 0) = NextRead(r)
         /\ QueuedSlot(r, Length - 1) = r.pcReadFrom
<1>1. /\ Length \in Nat \ {0} /\ r.pcReadFrom \in 0 .. Length - 1
      /\ r.pcTail = Length /\ r.uxLength = Length /\ r.uxItemSize = 1
  BY LengthAssumption DEF QueueOK
<1> QED BY <1>1 DEF QueuedSlot, WrapUp, NextRead

\* Every slot is in its turn one of them.
LEMMA QueuedSlotOnto ==
  ASSUME NEW r, QueueOK(r), ItemSize = 1, NEW k \in 0 .. Length - 1
  PROVE  \E i \in 0 .. Length - 1 : QueuedSlot(r, i) = k
<1> DEFINE first == IF r.pcReadFrom + 1 >= Length THEN 0 ELSE r.pcReadFrom + 1
           turn  == IF k >= first THEN k - first ELSE k - first + Length
<1>1. /\ Length \in Nat \ {0} /\ r.pcReadFrom \in 0 .. Length - 1
      /\ r.uxLength = Length
  BY LengthAssumption DEF QueueOK
<1>2. turn \in 0 .. Length - 1
  BY <1>1
<1>3. QueuedSlot(r, turn) = k
  BY <1>1 DEF QueuedSlot
<1> QED BY <1>2, <1>3

\* Moving the read pointer one slot on, or one slot back, shifts the queued
\* slots by one.
LEMMA QueuedSlotShift ==
  ASSUME NEW r, QueueOK(r), NEW s, QueueOK(s), ItemSize = 1
  PROVE  /\ s.pcReadFrom = NextRead(r) =>
              \A k \in 0 .. Length - 1 : QueuedSlot(s, k) = QueuedSlot(r, k + 1)
         /\ s.pcReadFrom = WrapDown(r, r.pcReadFrom - 1) =>
              /\ QueuedSlot(s, 0) = r.pcReadFrom
              /\ \A k \in 0 .. Length - 1 : QueuedSlot(s, k + 1) = QueuedSlot(r, k)
         /\ s.pcReadFrom = r.pcReadFrom =>
              \A k \in 0 .. Length : QueuedSlot(s, k) = QueuedSlot(r, k)
<1>1. /\ Length \in Nat \ {0} /\ r.pcReadFrom \in 0 .. Length - 1
      /\ r.pcTail = Length /\ r.uxLength = Length /\ r.uxItemSize = 1
      /\ s.pcTail = Length /\ s.uxLength = Length /\ s.uxItemSize = 1
  BY LengthAssumption DEF QueueOK
<1> QED BY <1>1 DEF QueuedSlot, WrapUp, WrapDown, NextRead

-----------------------------------------------------------------------------
(* The inductive invariant of the ring *)

RingOK(r) ==
  /\ QueueOK(r)
  /\ r.uxMessagesWaiting <= Length
  /\ r.pcWriteTo = QueuedSlot(r, r.uxMessagesWaiting)
  /\ \A k \in 0 .. r.uxMessagesWaiting - 1 : r.slot[QueuedSlot(r, k)] \in Item

LEMMA ContentsFacts ==
  ASSUME NEW r, RingOK(r)
  PROVE  /\ Contents(r) \in Seq(Item)
         /\ Len(Contents(r)) = r.uxMessagesWaiting
         /\ \A i \in 1 .. r.uxMessagesWaiting :
              Contents(r)[i] = r.slot[QueuedSlot(r, i - 1)]
<1> DEFINE n == r.uxMessagesWaiting
<1>1. n \in Nat
  BY DEF RingOK, QueueOK
<1>2. \A i \in 1 .. n : i - 1 \in 0 .. n - 1
  BY <1>1
<1>3. Contents(r) \in [1 .. n -> Item]
  BY <1>2 DEF Contents, RingOK
<1>4. Contents(r) \in Seq(Item)
  BY <1>1, <1>3, SeqDef
<1>5. Len(Contents(r)) = n
  <2>1. 1 .. Len(Contents(r)) = 1 .. n /\ Len(Contents(r)) \in Nat
    BY <1>3, <1>4, LenProperties
  <2> QED BY <1>1, <2>1
<1> QED BY <1>4, <1>5 DEF Contents

-----------------------------------------------------------------------------
(* What each operation does to the contents, for queues of sized items *)

\* A send to the back of a queue that is not full appends.
LEMMA BackAppends ==
  ASSUME NEW r, RingOK(r), ItemSize = 1, r.uxMessagesWaiting < Length,
         NEW item \in Item
  PROVE  LET s == adm_queue_copy_data2list(r, item, ADM_QUEUE_INSERT_TO_BACK)
         IN  RingOK(s) /\ Contents(s) = Append(Contents(r), item)
<1> DEFINE s == adm_queue_copy_data2list(r, item, ADM_QUEUE_INSERT_TO_BACK)
           n == r.uxMessagesWaiting
<1>1. QueueOK(r) /\ n \in 0 .. Length - 1 /\ Length \in Nat \ {0}
  BY LengthAssumption DEF RingOK, QueueOK
<1>2. QueueOK(s)
  BY <1>1, InsertOK
<1>3. /\ s.slot = [r.slot EXCEPT ![r.pcWriteTo] = item]
      /\ s.pcReadFrom = r.pcReadFrom
      /\ s.pcWriteTo = WrapUp(r, r.pcWriteTo + 1)
      /\ s.uxMessagesWaiting = n + 1
  BY <1>1, ValuesAssumption
     DEF QueueOK, adm_queue_copy_data2list, Inserted, InsertBack, Stored,
         Stride, CountAfterInsert
<1> HIDE DEF s
<1>4. \A k \in 0 .. Length : QueuedSlot(s, k) = QueuedSlot(r, k)
  BY <1>1, <1>2, <1>3, QueuedSlotShift
<1>5. \A k \in 0 .. n - 1 : s.slot[QueuedSlot(s, k)] = r.slot[QueuedSlot(r, k)]
  <2>1. r.pcWriteTo = QueuedSlot(r, n)
    BY DEF RingOK
  <2>2. \A k \in 0 .. n - 1 : QueuedSlot(r, k) # r.pcWriteTo
    BY <1>1, <2>1, QueuedSlotFacts
  <2>3. \A k \in 0 .. n - 1 : QueuedSlot(r, k) \in DOMAIN r.slot
    BY <1>1, QueuedSlotFacts, LengthAssumption DEF QueueOK
  <2> QED BY <1>1, <1>3, <1>4, <2>2, <2>3
<1>6. s.slot[QueuedSlot(s, n)] = item
  <2>1. r.pcWriteTo = QueuedSlot(s, n) /\ r.pcWriteTo \in DOMAIN r.slot
    BY <1>1, <1>4, QueuedSlotFacts, LengthAssumption DEF RingOK, QueueOK
  <2> QED BY <1>3, <2>1
<1>7. RingOK(s)
  <2>1. s.pcWriteTo = QueuedSlot(s, n + 1)
    BY <1>1, <1>3, <1>4, QueuedSlotFacts DEF RingOK
  <2>2. \A k \in 0 .. n : s.slot[QueuedSlot(s, k)] \in Item
    BY <1>1, <1>5, <1>6 DEF RingOK
  <2> QED BY <1>1, <1>2, <1>3, <2>1, <2>2 DEF RingOK
<1>8. Contents(s) = Append(Contents(r), item)
  <2> DEFINE a == Append(Contents(r), item)
  <2>1. /\ a \in Seq(Item) /\ Len(a) = n + 1 /\ a[n + 1] = item
        /\ \A i \in 1 .. n : a[i] = r.slot[QueuedSlot(r, i - 1)]
    BY <1>1, ContentsFacts, AppendProperties
  <2>2. /\ Contents(s) \in Seq(Item) /\ Len(Contents(s)) = n + 1
        /\ \A i \in 1 .. n + 1 : Contents(s)[i] = s.slot[QueuedSlot(s, i - 1)]
    BY <1>3, <1>7, ContentsFacts
  <2> HIDE DEF a
  <2>3. \A i \in 1 .. n + 1 : Contents(s)[i] = a[i]
    <3> SUFFICES ASSUME NEW i \in 1 .. n + 1 PROVE Contents(s)[i] = a[i]
      OBVIOUS
    <3>1. CASE i \in 1 .. n
      <4>1. i - 1 \in 0 .. n - 1
        BY <1>1, <3>1
      <4> QED BY <1>5, <2>1, <2>2, <3>1, <4>1
    <3>2. CASE i = n + 1
      BY <1>1, <1>6, <2>1, <2>2, <3>2
    <3> QED BY <1>1, <3>1, <3>2
  <2>4. Contents(s) = a
    BY <2>1, <2>2, <2>3, SeqEqual
  <2> QED BY <2>4 DEF a
<1> QED BY <1>7, <1>8 DEF s

\* The copy alone, before the count is updated, changes nothing that is queued.
LEMMA BackCopied ==
  ASSUME NEW r, RingOK(r), ItemSize = 1, r.uxMessagesWaiting < Length,
         NEW item \in Item
  PROVE  LET s == Inserted(r, item, ADM_QUEUE_INSERT_TO_BACK)
         IN  /\ s.uxMessagesWaiting = r.uxMessagesWaiting
             /\ Contents(s) = Contents(r)
             /\ [s EXCEPT !.uxMessagesWaiting = r.uxMessagesWaiting + 1]
                  = adm_queue_copy_data2list(r, item, ADM_QUEUE_INSERT_TO_BACK)
<1> DEFINE s == Inserted(r, item, ADM_QUEUE_INSERT_TO_BACK)
           n == r.uxMessagesWaiting
<1>1. QueueOK(r) /\ n \in 0 .. Length - 1 /\ Length \in Nat \ {0}
  BY LengthAssumption DEF RingOK, QueueOK
<1>2. QueueOK(s)
  BY <1>1, InsertedOK
<1>3. /\ s.slot = [r.slot EXCEPT ![r.pcWriteTo] = item]
      /\ s.pcReadFrom = r.pcReadFrom
      /\ s.uxMessagesWaiting = n
  BY <1>1, ValuesAssumption
     DEF QueueOK, Inserted, InsertBack, Stored, Stride
<1>4. [s EXCEPT !.uxMessagesWaiting = n + 1]
        = adm_queue_copy_data2list(r, item, ADM_QUEUE_INSERT_TO_BACK)
  <2>1. CountAfterInsert(r, ADM_QUEUE_INSERT_TO_BACK) = n + 1
    BY DEF CountAfterInsert
  <2> QED BY <2>1 DEF adm_queue_copy_data2list
<1> HIDE DEF s
<1>5. ASSUME NEW i \in 1 .. n PROVE s.slot[QueuedSlot(s, i - 1)] = r.slot[QueuedSlot(r, i - 1)]
  <2>1. i - 1 \in 0 .. Length - 1 /\ i - 1 # n /\ i - 1 \in 0 .. Length
    BY <1>1
  <2>2. QueuedSlot(s, i - 1) = QueuedSlot(r, i - 1)
    BY <1>1, <1>2, <1>3, <2>1, QueuedSlotShift
  <2>3. QueuedSlot(r, i - 1) # QueuedSlot(r, n) /\ QueuedSlot(r, i - 1) \in 0 .. Length - 1
    BY <1>1, <2>1, QueuedSlotFacts
  <2> QED BY <1>1, <1>3, <2>2, <2>3 DEF RingOK, QueueOK
<1>6. Contents(s) = Contents(r)
  BY <1>3, <1>5 DEF Contents
<1> QED BY <1>3, <1>4, <1>6 DEF s

\* A send to the front of a queue that is not full prepends.
LEMMA FrontPrepends ==
  ASSUME NEW r, RingOK(r), ItemSize = 1, r.uxMessagesWaiting < Length,
         NEW item \in Item
  PROVE  LET s == adm_queue_copy_data2list(r, item, ADM_QUEUE_INSERT_TO_FRONT)
         IN  RingOK(s) /\ Contents(s) = <<item>> \o Contents(r)
<1> DEFINE s == adm_queue_copy_data2list(r, item, ADM_QUEUE_INSERT_TO_FRONT)
           n == r.uxMessagesWaiting
<1>1. QueueOK(r) /\ n \in 0 .. Length - 1 /\ Length \in Nat \ {0}
  BY LengthAssumption DEF RingOK, QueueOK
<1>2. QueueOK(s)
  BY <1>1, InsertOK
<1>3. /\ s.slot = [r.slot EXCEPT ![r.pcReadFrom] = item]
      /\ s.pcReadFrom = WrapDown(r, r.pcReadFrom - 1)
      /\ s.pcWriteTo = r.pcWriteTo
      /\ s.uxMessagesWaiting = n + 1
  BY <1>1, ValuesAssumption
     DEF QueueOK, adm_queue_copy_data2list, Inserted, InsertFront, Stored,
         Stride, CountAfterInsert
<1> HIDE DEF s
<1>4. /\ QueuedSlot(s, 0) = r.pcReadFrom
      /\ \A k \in 0 .. Length - 1 : QueuedSlot(s, k + 1) = QueuedSlot(r, k)
  BY <1>1, <1>2, <1>3, QueuedSlotShift
<1>5. \A k \in 0 .. n - 1 :
        s.slot[QueuedSlot(s, k + 1)] = r.slot[QueuedSlot(r, k)]
  <2>1. r.pcReadFrom = QueuedSlot(r, Length - 1)
    BY <1>1, QueuedSlotFacts
  <2>2. \A k \in 0 .. n - 1 : QueuedSlot(r, k) # r.pcReadFrom
    BY <1>1, <2>1, QueuedSlotFacts
  <2>3. \A k \in 0 .. n - 1 : QueuedSlot(r, k) \in DOMAIN r.slot
    BY <1>1, QueuedSlotFacts, LengthAssumption DEF QueueOK
  <2> QED BY <1>1, <1>3, <1>4, <2>2, <2>3
<1>6. s.slot[QueuedSlot(s, 0)] = item
  <2>1. r.pcReadFrom \in DOMAIN r.slot
    BY <1>1, LengthAssumption DEF QueueOK
  <2> QED BY <1>3, <1>4, <2>1
<1>7. RingOK(s)
  <2>1. s.pcWriteTo = QueuedSlot(s, n + 1)
    BY <1>1, <1>3, <1>4 DEF RingOK
  <2>2. \A k \in 0 .. n : s.slot[QueuedSlot(s, k)] \in Item
    <3> SUFFICES ASSUME NEW k \in 0 .. n
                 PROVE  s.slot[QueuedSlot(s, k)] \in Item
      OBVIOUS
    <3>1. CASE k = 0
      BY <1>6, <3>1
    <3>2. CASE k # 0
      <4>1. k - 1 \in 0 .. n - 1 /\ k = (k - 1) + 1
        BY <1>1, <3>2
      <4> QED BY <1>5, <4>1 DEF RingOK
    <3> QED BY <3>1, <3>2
  <2> QED BY <1>1, <1>2, <1>3, <2>1, <2>2 DEF RingOK
<1>8. Contents(s) = <<item>> \o Contents(r)
  <2> DEFINE a == <<item>> \o Contents(r)
  <2>0. <<item>> \in Seq(Item) /\ Len(<<item>>) = 1 /\ <<item>>[1] = item
    OBVIOUS
  <2>1. /\ a \in Seq(Item) /\ Len(a) = n + 1 /\ a[1] = item
        /\ \A i \in 1 .. n : a[i + 1] = r.slot[QueuedSlot(r, i - 1)]
    <3>1. Contents(r) \in Seq(Item) /\ Len(Contents(r)) = n
      BY ContentsFacts
    <3>2. /\ a \in Seq(Item) /\ Len(a) = 1 + n
          /\ \A i \in 1 .. 1 + n :
               a[i] = IF i <= 1 THEN <<item>>[i] ELSE Contents(r)[i - 1]
      BY <2>0, <3>1, ConcatProperties
    <3> HIDE DEF a
    <3>3. a[1] = item
      <4>1. 1 \in 1 .. 1 + n
        BY <1>1
      <4> QED BY <2>0, <3>2, <4>1
    <3>4. ASSUME NEW i \in 1 .. n
          PROVE  a[i + 1] = r.slot[QueuedSlot(r, i - 1)]
      <4>1. i + 1 \in 1 .. 1 + n /\ ~ (i + 1 <= 1) /\ (i + 1) - 1 = i
        BY <1>1
      <4>2. a[i + 1] = Contents(r)[i]
        BY <3>2, <4>1
      <4> QED BY <4>2, ContentsFacts
    <3> QED BY <1>1, <3>2, <3>3, <3>4
  <2>2. /\ Contents(s) \in Seq(Item) /\ Len(Contents(s)) = n + 1
        /\ \A i \in 1 .. n + 1 : Contents(s)[i] = s.slot[QueuedSlot(s, i - 1)]
    BY <1>3, <1>7, ContentsFacts
  <2> HIDE DEF a
  <2>3. \A i \in 1 .. n + 1 : Contents(s)[i] = a[i]
    <3> SUFFICES ASSUME NEW i \in 1 .. n + 1 PROVE Contents(s)[i] = a[i]
      OBVIOUS
    <3>1. CASE i = 1
      BY <1>1, <1>6, <2>1, <2>2, <3>1
    <3>2. CASE i # 1
      <4> DEFINE j == i - 1
      <4>1. j \in 1 .. n /\ i = j + 1 /\ j - 1 \in 0 .. n - 1 /\ j = (j - 1) + 1
        BY <1>1, <3>2
      <4> HIDE DEF j
      <4>2. Contents(s)[i] = s.slot[QueuedSlot(s, j)]
        BY <2>2, <4>1 DEF j
      <4>3. s.slot[QueuedSlot(s, j)] = r.slot[QueuedSlot(r, j - 1)]
        BY <1>5, <4>1
      <4> QED BY <2>1, <4>1, <4>2, <4>3
    <3> QED BY <3>1, <3>2
  <2>4. Contents(s) = a
    BY <2>1, <2>2, <2>3, SeqEqual
  <2> QED BY <2>4 DEF a
<1> QED BY <1>7, <1>8 DEF s

\* A receive from a queue that is not empty takes the head.
LEMMA RecvTakesHead ==
  ASSUME NEW r, RingOK(r), ItemSize = 1, r.uxMessagesWaiting > 0,
         NEW hasBuffer \in BOOLEAN
  PROVE  LET s == [adm_queue_copy_data_from_list(r, hasBuffer)
                     EXCEPT !.uxMessagesWaiting = r.uxMessagesWaiting - 1]
         IN  /\ RingOK(s)
             /\ Contents(r) # <<>>
             /\ Contents(s) = Tail(Contents(r))
             /\ Fetched(r, hasBuffer) =
                  IF hasBuffer THEN Head(Contents(r)) ELSE NULL
<1> DEFINE s == [adm_queue_copy_data_from_list(r, hasBuffer)
                   EXCEPT !.uxMessagesWaiting = r.uxMessagesWaiting - 1]
           n == r.uxMessagesWaiting
<1>1. QueueOK(r) /\ n \in 1 .. Length /\ Length \in Nat \ {0}
  BY LengthAssumption DEF RingOK, QueueOK
<1>2. QueueOK(s)
  <2>1. QueueOK(adm_queue_copy_data_from_list(r, hasBuffer)) /\ n - 1 \in Nat
    BY <1>1, RemoveOK
  <2> QED BY <2>1, CountUpdateOK
<1>3. /\ \/ s.slot = [r.slot EXCEPT ![NextRead(r)] = Zero]
         \/ s.slot = r.slot
      /\ s.pcReadFrom = NextRead(r)
      /\ s.pcWriteTo = r.pcWriteTo
      /\ s.uxMessagesWaiting = n - 1
  BY <1>1 DEF QueueOK, adm_queue_copy_data_from_list, Stored
<1> HIDE DEF s
<1>4. \A k \in 0 .. Length - 1 : QueuedSlot(s, k) = QueuedSlot(r, k + 1)
  BY <1>1, <1>2, <1>3, QueuedSlotShift
<1>5. \A k \in 0 .. n - 2 :
        s.slot[QueuedSlot(s, k)] = r.slot[QueuedSlot(r, k + 1)]
  <2>1. NextRead(r) = QueuedSlot(r, 0)
    BY <1>1, QueuedSlotFacts
  <2>2. \A k \in 0 .. n - 2 : QueuedSlot(r, k + 1) # NextRead(r)
    BY <1>1, <2>1, QueuedSlotFacts
  <2>3. \A k \in 0 .. n - 2 : QueuedSlot(r, k + 1) \in DOMAIN r.slot
    <3>1. \A k \in 0 .. n - 2 : k + 1 \in 0 .. Length
      BY <1>1
    <3>2. \A k \in 0 .. n - 2 : QueuedSlot(r, k + 1) \in 0 .. Length - 1
      BY <1>1, <3>1, QueuedSlotFacts
    <3> QED BY <1>1, <3>2 DEF QueueOK
  <2> QED BY <1>1, <1>3, <1>4, <2>2, <2>3
<1>6. RingOK(s)
  <2>1. s.pcWriteTo = QueuedSlot(s, n - 1)
    BY <1>1, <1>3, <1>4 DEF RingOK
  <2>2. \A k \in 0 .. n - 2 : s.slot[QueuedSlot(s, k)] \in Item
    BY <1>1, <1>5 DEF RingOK
  <2> QED BY <1>1, <1>2, <1>3, <2>1, <2>2 DEF RingOK
<1>7. /\ Contents(r) \in Seq(Item) /\ Len(Contents(r)) = n
      /\ \A i \in 1 .. n : Contents(r)[i] = r.slot[QueuedSlot(r, i - 1)]
      /\ Contents(r) # <<>>
  BY <1>1, ContentsFacts, EmptySeq
<1>8. Contents(s) = Tail(Contents(r))
  <2> DEFINE a == Tail(Contents(r))
  <2>1. /\ a \in Seq(Item) /\ Len(a) = n - 1
        /\ \A i \in 1 .. n - 1 : a[i] = Contents(r)[i + 1]
    BY <1>7, HeadTailProperties
  <2>2. /\ Contents(s) \in Seq(Item) /\ Len(Contents(s)) = n - 1
        /\ \A i \in 1 .. n - 1 : Contents(s)[i] = s.slot[QueuedSlot(s, i - 1)]
    BY <1>3, <1>6, ContentsFacts
  <2> HIDE DEF a
  <2>3. ASSUME NEW i \in 1 .. n - 1 PROVE Contents(s)[i] = a[i]
    <3>1. i - 1 \in 0 .. n - 2 /\ (i - 1) + 1 = i /\ i + 1 \in 1 .. n
          /\ (i + 1) - 1 = i
      BY <1>1
    <3>2. Contents(s)[i] = r.slot[QueuedSlot(r, i)]
      BY <1>5, <2>2, <3>1
    <3>3. a[i] = r.slot[QueuedSlot(r, i)]
      BY <1>7, <2>1, <3>1
    <3> QED BY <3>2, <3>3
  <2>4. Contents(s) = a
    BY <2>1, <2>2, <2>3, SeqEqual
  <2> QED BY <2>4 DEF a
<1>9. Fetched(r, hasBuffer) = IF hasBuffer THEN Head(Contents(r)) ELSE NULL
  <2>1. Head(Contents(r)) = r.slot[NextRead(r)]
    <3>1. 1 \in 1 .. n /\ 1 - 1 = 0
      BY <1>1
    <3>2. Contents(r)[1] = r.slot[QueuedSlot(r, 0)]
      BY <1>7, <3>1
    <3>3. QueuedSlot(r, 0) = NextRead(r)
      BY <1>1, QueuedSlotFacts
    <3> QED BY <1>7, <3>2, <3>3
  <2> QED BY <1>1, <2>1 DEF Fetched, QueueOK
<1> QED BY <1>6, <1>7, <1>8, <1>9 DEF s

\* An overwriting send to a mailbox, a queue of length 1, replaces what it
\* holds, and fills it when it is empty.
LEMMA OverwriteReplaces ==
  ASSUME NEW r, RingOK(r), ItemSize = 1, Length = 1, NEW item \in Item
  PROVE  LET s == adm_queue_copy_data2list(r, item, ADM_QUEUE_INSERT_OVERWRITE)
         IN  RingOK(s) /\ Contents(s) = <<item>>
<1> DEFINE s == adm_queue_copy_data2list(r, item, ADM_QUEUE_INSERT_OVERWRITE)
<1>1. /\ QueueOK(r) /\ r.uxMessagesWaiting \in 0 .. 1
      /\ r.pcReadFrom = 0 /\ r.pcWriteTo = 0 /\ 0 \in DOMAIN r.slot
  BY DEF RingOK, QueueOK
<1>2. QueueOK(s)
  BY <1>1, InsertOK
<1>3. /\ s.slot = [r.slot EXCEPT ![0] = item]
      /\ s.pcWriteTo = 0
      /\ s.uxMessagesWaiting = 1
  BY <1>1, ValuesAssumption
     DEF QueueOK, adm_queue_copy_data2list, Inserted, InsertFront, Stored,
         Stride, CountAfterInsert
<1> HIDE DEF s
<1>4. QueuedSlot(s, 0) = 0 /\ QueuedSlot(s, 1) = 0
  BY <1>2 DEF QueuedSlot, QueueOK
<1>5. RingOK(s)
  BY <1>1, <1>2, <1>3, <1>4 DEF RingOK
<1>6. Contents(s) = <<item>>
  <2>1. /\ Contents(s) \in Seq(Item) /\ Len(Contents(s)) = 1
        /\ \A i \in 1 .. 1 : Contents(s)[i] = s.slot[QueuedSlot(s, i - 1)]
    <3>1. /\ Contents(s) \in Seq(Item) /\ Len(Contents(s)) = s.uxMessagesWaiting
          /\ \A i \in 1 .. s.uxMessagesWaiting :
               Contents(s)[i] = s.slot[QueuedSlot(s, i - 1)]
      BY <1>5, ContentsFacts
    <3> QED BY <1>3, <3>1
  <2>2. Contents(s)[1] = item
    BY <1>1, <1>3, <1>4, <2>1
  <2>3. <<item>> \in Seq(Item) /\ Len(<<item>>) = 1 /\ <<item>>[1] = item
    OBVIOUS
  <2>4. \A i \in 1 .. 1 : Contents(s)[i] = <<item>>[i]
    BY <2>2, <2>3
  <2> QED BY <2>1, <2>3, <2>4, SeqEqual
<1> QED BY <1>5, <1>6 DEF s

-----------------------------------------------------------------------------
(* The slots that are not queued *)

\* The slots that are not queued are cleared.
BlankOK(r) ==
  \A k \in r.uxMessagesWaiting .. Length - 1 : r.slot[QueuedSlot(r, k)] = Zero

LEMMA BackKeepsBlank ==
  ASSUME NEW r, RingOK(r), BlankOK(r), ItemSize = 1, r.uxMessagesWaiting < Length,
         NEW item \in Item
  PROVE  BlankOK(adm_queue_copy_data2list(r, item, ADM_QUEUE_INSERT_TO_BACK))
<1> DEFINE s == adm_queue_copy_data2list(r, item, ADM_QUEUE_INSERT_TO_BACK)
           n == r.uxMessagesWaiting
<1>1. QueueOK(r) /\ n \in 0 .. Length - 1 /\ Length \in Nat \ {0}
  BY LengthAssumption DEF RingOK, QueueOK
<1>2. QueueOK(s)
  BY <1>1, InsertOK
<1>3. /\ s.slot = [r.slot EXCEPT ![r.pcWriteTo] = item]
      /\ s.pcReadFrom = r.pcReadFrom
      /\ s.uxMessagesWaiting = n + 1
  BY <1>1, ValuesAssumption
     DEF QueueOK, adm_queue_copy_data2list, Inserted, InsertBack, Stored,
         Stride, CountAfterInsert
<1> HIDE DEF s
<1>4. SUFFICES ASSUME NEW k \in n + 1 .. Length - 1
               PROVE  s.slot[QueuedSlot(s, k)] = Zero
  BY <1>3 DEF BlankOK, s
<1>5. k \in 0 .. Length - 1 /\ k # n /\ k \in n .. Length - 1
  BY <1>1
<1>6. QueuedSlot(s, k) = QueuedSlot(r, k)
  BY <1>1, <1>2, <1>3, <1>5, QueuedSlotShift
<1>7. QueuedSlot(r, k) # r.pcWriteTo /\ QueuedSlot(r, k) \in DOMAIN r.slot
  <2>1. QueuedSlot(r, k) # QueuedSlot(r, n) /\ QueuedSlot(r, k) \in 0 .. Length - 1
    BY <1>1, <1>5, QueuedSlotFacts
  <2> QED BY <1>1, <2>1 DEF RingOK, QueueOK
<1> QED BY <1>3, <1>5, <1>6, <1>7 DEF BlankOK

\* A receiver with a buffer clears the slot it leaves.
LEMMA RecvKeepsBlank ==
  ASSUME NEW r, RingOK(r), BlankOK(r), ItemSize = 1, r.uxMessagesWaiting > 0,
         NEW hasBuffer \in BOOLEAN
  PROVE  LET s == [adm_queue_copy_data_from_list(r, hasBuffer)
                     EXCEPT !.uxMessagesWaiting = r.uxMessagesWaiting - 1]
         IN  hasBuffer => BlankOK(s)
<1> DEFINE s == [adm_queue_copy_data_from_list(r, hasBuffer)
                   EXCEPT !.uxMessagesWaiting = r.uxMessagesWaiting - 1]
           n == r.uxMessagesWaiting
<1>1. QueueOK(r) /\ n \in 1 .. Length /\ Length \in Nat \ {0}
  BY LengthAssumption DEF RingOK, QueueOK
<1>2. QueueOK(s)
  <2>1. QueueOK(adm_queue_copy_data_from_list(r, hasBuffer)) /\ n - 1 \in Nat
    BY <1>1, RemoveOK
  <2> QED BY <2>1, CountUpdateOK
<1>3. /\ hasBuffer => s.slot = [r.slot EXCEPT ![NextRead(r)] = Zero]
      /\ s.pcReadFrom = NextRead(r)
      /\ s.uxMessagesWaiting = n - 1
  BY <1>1, ValuesAssumption DEF QueueOK, adm_queue_copy_data_from_list, Stored
<1> HIDE DEF s
<1>4. ASSUME hasBuffer, NEW k \in n - 1 .. Length - 1
      PROVE  s.slot[QueuedSlot(s, k)] = Zero
  <2>5. QueuedSlot(s, k) = QueuedSlot(r, k + 1) /\ QueuedSlot(s, k) \in 0 .. Length - 1
    <3>1. k \in 0 .. Length - 1 /\ k \in 0 .. Length
      BY <1>1
    <3>2. QueuedSlot(s, k) = QueuedSlot(r, k + 1)
      BY <1>1, <1>2, <1>3, <3>1, QueuedSlotShift
    <3>3. QueuedSlot(s, k) \in 0 .. Length - 1
      BY <1>2, <3>1, QueuedSlotFacts
    <3> QED BY <3>2, <3>3
  <2>0. DOMAIN r.slot = 0 .. Length - 1
    BY <1>1 DEF QueueOK
  <2>6. CASE k = Length - 1
    <3>1. QueuedSlot(s, k) = NextRead(r)
      BY <1>2, <1>3, <2>6, QueuedSlotFacts
    <3> QED BY <1>3, <1>4, <2>0, <2>5, <3>1
  <2>7. CASE k # Length - 1
    <3>1. k + 1 \in n .. Length - 1
      BY <1>1, <2>7
    <3>2. r.slot[QueuedSlot(r, k + 1)] = Zero
      BY <3>1 DEF BlankOK
    <3> QED BY <1>3, <1>4, <2>0, <2>5, <3>2
  <2> QED BY <2>6, <2>7
<1>5. hasBuffer => BlankOK(s)
  BY <1>3, <1>4 DEF BlankOK
<1> QED BY <1>5 DEF s

-----------------------------------------------------------------------------
(* Type correctness *)

LEMMA TypeInit == Init => TypeOK
BY CreateOK DEF Init, TypeOK, QueueOK, pdFAIL

LEMMA TypeStep == TypeOK /\ [Next]_vars => TypeOK'
<1> SUFFICES ASSUME TypeOK, [Next]_vars PROVE TypeOK'
  OBVIOUS
<1>0. QueueOK(q)
  BY DEF TypeOK, QueueOK
<1>1. ASSUME NEW r \in Requests, Send(r[1], r[2])
      PROVE  TypeOK'
  <2>1. r[1] \in Item \cup {NULL} /\ r[2] \in Position /\ r = <<r[1], r[2]>>
    BY <1>1, QueueAssumption
  <2>2. QueueOK(q')
    BY <1>0, <1>1, <2>1, InsertOK DEF Send
  <2> QED BY <1>1, <2>1, <2>2 DEF Send, TypeOK, QueueOK, pdPASS
<1>2. ASSUME NEW r \in Requests, SendFull(r[1], r[2])
      PROVE  TypeOK'
  <2>1. r = <<r[1], r[2]>>
    BY QueueAssumption
  <2> QED BY <1>2, <2>1 DEF SendFull, TypeOK, pdFAIL
<1>3. ASSUME NEW hasBuffer \in Buffers, Recv(hasBuffer)
      PROVE  TypeOK'
  <2> DEFINE s == adm_queue_copy_data_from_list(q, hasBuffer)
  <2>1. QueueOK(s) /\ Fetched(q, hasBuffer) \in Item \cup {Zero, NULL}
    BY <1>0, RemoveOK, QueueAssumption
  <2>2. q.uxMessagesWaiting - 1 \in Nat
    BY <1>0, <1>3 DEF QueueOK, Recv
  <2> HIDE DEF s
  <2>3. QueueOK([s EXCEPT !.uxMessagesWaiting = q.uxMessagesWaiting - 1])
    BY <2>1, <2>2 DEF QueueOK
  <2>4. QueueOK(q')
    BY <2>3, <1>3 DEF Recv, s
  <2>5. reply' \in [asked : Requests \cup {<<>>, <<TRUE>>, <<FALSE>>},
                     ok : BOOLEAN, item : Item \cup {Zero, NULL}]
    <3>1. <<hasBuffer>> \in {<<TRUE>>, <<FALSE>>}
      BY QueueAssumption
    <3> QED BY <1>3, <2>1, <3>1 DEF Recv, pdPASS
  <2> QED BY <2>4, <2>5 DEF TypeOK, QueueOK
<1>4. ASSUME NEW hasBuffer \in Buffers, RecvEmpty(hasBuffer)
      PROVE  TypeOK'
  <2>1. <<hasBuffer>> \in {<<TRUE>>, <<FALSE>>}
    BY QueueAssumption
  <2> QED BY <1>4, <2>1 DEF RecvEmpty, TypeOK, pdFAIL
<1>5. CASE UNCHANGED vars
  BY <1>5 DEF vars, TypeOK
<1> QED BY <1>1, <1>2, <1>3, <1>4, <1>5 DEF Next

\* The type invariant, for callers of any kind: no mix of sends (missing
\* items, overwriting sends to long queues) and receives moves a pointer of
\* the ring out of its storage area.
THEOREM TypeCorrect == Spec => []TypeOK
BY TypeInit, TypeStep, PTL DEF Spec

-----------------------------------------------------------------------------
(* The ring invariant and the refinement, for disciplined callers *)

LEMMA RingInit == Disciplined /\ Init => RingOK(q) /\ Contents(q) = <<>>
<1> SUFFICES ASSUME Disciplined, Init PROVE RingOK(q) /\ Contents(q) = <<>>
  OBVIOUS
<1>1. QueueOK(q) /\ ItemSize = 1
  BY CreateOK DEF Init, Disciplined
<1>2. q.uxMessagesWaiting = 0 /\ q.pcWriteTo = 0 /\ q.pcReadFrom = Length - 1
  BY <1>1, LengthAssumption
     DEF Init, adm_queue_generic_create, adm_queue_generic_reset
<1>3. QueuedSlot(q, 0) = 0
  BY <1>1, <1>2, LengthAssumption DEF QueuedSlot, QueueOK
<1>4. RingOK(q)
  BY <1>1, <1>2, <1>3, LengthAssumption DEF RingOK
<1>5. Contents(q) = <<>>
  BY <1>2, <1>4, ContentsFacts, EmptySeq
<1> QED BY <1>4, <1>5

\* Every step keeps the ring invariant and is a step, or a stutter, of the
\* bounded sequence.
LEMMA RingStep ==
  Disciplined /\ RingOK(q) /\ [Next]_vars => RingOK(q)' /\ [Fifo!Next]_(Fifo!fvars)
<1> SUFFICES ASSUME Disciplined, RingOK(q), [Next]_vars
             PROVE  RingOK(q') /\ [Fifo!Next]_(Fifo!fvars)
  OBVIOUS
<1>0. /\ ItemSize = 1 /\ QueueOK(q) /\ q.uxMessagesWaiting \in 0 .. Length
      /\ Length \in Nat \ {0} /\ q.uxLength = Length
      /\ Contents(q) \in Seq(Item) /\ Len(Contents(q)) = q.uxMessagesWaiting
  BY ContentsFacts, LengthAssumption DEF Disciplined, RingOK, QueueOK
<1>1. ASSUME NEW r \in Requests, Send(r[1], r[2])
      PROVE  RingOK(q') /\ Fifo!Next
  <2>1. /\ r[1] \in Item /\ r[2] \in Position
        /\ r[2] = ADM_QUEUE_INSERT_OVERWRITE => Length = 1
    BY <1>1, QueueAssumption DEF Disciplined
  <2>2. reply' = Fifo!pdPASS(<<r[1], r[2]>>, NULL) /\ q' = adm_queue_copy_data2list(q, r[1], r[2])
    BY <1>1 DEF Send, pdPASS, Fifo!pdPASS
  <2>3. CASE r[2] = ADM_QUEUE_INSERT_TO_BACK
    <3>1. q.uxMessagesWaiting < Length
      BY <1>0, <1>1, <2>3 DEF Send, Admits
    <3>2. RingOK(q') /\ Contents(q') = Append(Contents(q), r[1])
      BY <1>0, <2>1, <2>2, <2>3, <3>1, BackAppends
    <3>3. Fifo!SendBack(r[1])
      BY <1>0, <2>2, <2>3, <3>1, <3>2 DEF Fifo!SendBack
    <3> QED BY <2>1, <3>2, <3>3 DEF Fifo!Next
  <2>4. CASE r[2] = ADM_QUEUE_INSERT_TO_FRONT
    <3>1. q.uxMessagesWaiting < Length
      BY <1>0, <1>1, <2>4 DEF Send, Admits
    <3>2. RingOK(q') /\ Contents(q') = <<r[1]>> \o Contents(q)
      BY <1>0, <2>1, <2>2, <2>4, <3>1, FrontPrepends
    <3>3. Fifo!SendFront(r[1])
      BY <1>0, <2>2, <2>4, <3>1, <3>2 DEF Fifo!SendFront
    <3> QED BY <2>1, <3>2, <3>3 DEF Fifo!Next
  <2>5. CASE r[2] = ADM_QUEUE_INSERT_OVERWRITE
    <3>1. RingOK(q') /\ Contents(q') = <<r[1]>>
      BY <1>0, <2>1, <2>2, <2>5, OverwriteReplaces
    <3>2. Contents(q) = <<>> \/ Tail(Contents(q)) = <<>>
      <4>1. Len(Contents(q)) \in 0 .. 1
        BY <1>0, <2>1, <2>5
      <4>2. ASSUME Contents(q) # <<>> PROVE Tail(Contents(q)) = <<>>
        <5>1. /\ Tail(Contents(q)) \in Seq(Item)
              /\ Len(Tail(Contents(q))) = Len(Contents(q)) - 1
          BY <1>0, <4>2, HeadTailProperties
        <5>2. Len(Tail(Contents(q))) = 0
          <6>1. Len(Contents(q)) \in Nat \ {0}
            BY <1>0, <4>2, EmptySeq
          <6> QED BY <4>1, <5>1, <6>1
        <5> QED BY <5>1, <5>2, EmptySeq
      <4> QED BY <4>2
    <3>3. <<r[1]>> \o <<>> = <<r[1]>>
      BY <2>1, ConcatEmptySeq
    <3>4. Fifo!SendOverwrite(r[1])
      BY <2>2, <2>5, <3>1, <3>2, <3>3 DEF Fifo!SendOverwrite
    <3> QED BY <2>1, <3>1, <3>4 DEF Fifo!Next
  <2> QED BY <2>1, <2>3, <2>4, <2>5
<1>2. ASSUME NEW r \in Requests, SendFull(r[1], r[2])
      PROVE  RingOK(q') /\ Fifo!Next
  <2>1. q' = q /\ reply' = Fifo!pdFAIL(<<r[1], r[2]>>) /\ q.uxMessagesWaiting >= Length
    BY <1>0, <1>2 DEF SendFull, Admits, pdFAIL, Fifo!pdFAIL
  <2>2. /\ r[1] \in Item
        /\ r[2] \in {ADM_QUEUE_INSERT_TO_BACK, ADM_QUEUE_INSERT_TO_FRONT}
    BY <1>2, QueueAssumption DEF Disciplined, SendFull, Admits
  <2>3. Fifo!SendRefused(r[1], r[2])
    BY <1>0, <2>1 DEF Fifo!SendRefused
  <2> QED BY <2>1, <2>2, <2>3 DEF Fifo!Next
<1>3. ASSUME NEW hasBuffer \in Buffers, Recv(hasBuffer)
      PROVE  RingOK(q') /\ Fifo!Next
  <2>0. hasBuffer \in BOOLEAN
    BY QueueAssumption
  <2>1. /\ RingOK(q')
        /\ Contents(q) # <<>>
        /\ Contents(q') = Tail(Contents(q))
        /\ reply' = pdPASS(<<hasBuffer>>, IF hasBuffer THEN Head(Contents(q)) ELSE NULL)
    BY <1>0, <1>3, <2>0, RecvTakesHead DEF Recv
  <2>2. CASE hasBuffer = TRUE
    BY <2>1, <2>2 DEF Fifo!Next, Fifo!Receive, pdPASS, Fifo!pdPASS
  <2>3. CASE hasBuffer = FALSE
    BY <2>1, <2>3 DEF Fifo!Next, Fifo!Discard, pdPASS, Fifo!pdPASS
  <2> QED BY <2>0, <2>2, <2>3
<1>4. ASSUME NEW hasBuffer \in Buffers, RecvEmpty(hasBuffer)
      PROVE  RingOK(q') /\ Fifo!Next
  <2>1. q' = q /\ reply' = Fifo!pdFAIL(<<hasBuffer>>) /\ Contents(q) = <<>>
    BY <1>0, <1>4, EmptySeq DEF RecvEmpty, pdFAIL, Fifo!pdFAIL
  <2>2. hasBuffer = TRUE \/ hasBuffer = FALSE
    BY QueueAssumption
  <2>3. Fifo!ReceiveNothing(hasBuffer)
    BY <2>1 DEF Fifo!ReceiveNothing
  <2>4. Fifo!Next
    BY <2>2, <2>3 DEF Fifo!Next
  <2> QED BY <2>1, <2>4
<1>5. CASE UNCHANGED vars
  BY <1>5 DEF vars, Fifo!fvars
<1> QED BY <1>1, <1>2, <1>3, <1>4, <1>5 DEF Next

\* The inductive invariant, of every behaviour with disciplined callers.
LEMMA RingInvariant == ASSUME Disciplined PROVE Spec => []RingOK(q)
<1>1. Init => RingOK(q)
  BY RingInit
<1>2. RingOK(q) /\ [Next]_vars => RingOK(q)'
  BY RingStep
<1> QED BY <1>1, <1>2, PTL DEF Spec

\* The count stays within the length.
THEOREM CountBounded ==
  ASSUME Disciplined PROVE Spec => []CountWithinLength
<1>1. RingOK(q) => CountWithinLength
  BY DEF RingOK, CountWithinLength
<1> QED BY <1>1, RingInvariant, PTL

\* Wherever the sends and receives have moved the two pointers, the place the
\* next item is written to follows the last queued item.
THEOREM RingClosed ==
  ASSUME Disciplined PROVE Spec => []WriteToFollowsContents
<1>1. RingOK(q) => WriteToFollowsContents
  BY DEF RingOK, WriteToFollowsContents
<1> QED BY <1>1, RingInvariant, PTL

\* Every queued item is one that was sent.
THEOREM ContentsAreItems ==
  ASSUME Disciplined PROVE Spec => []CountedSlotsHoldItems
<1>1. RingOK(q) => CountedSlotsHoldItems
  <2> SUFFICES ASSUME RingOK(q), NEW i \in 1 .. q.uxMessagesWaiting
               PROVE  Contents(q)[i] \in Item
    BY DEF CountedSlotsHoldItems
  <2>1. Contents(q) \in Seq(Item) /\ Len(Contents(q)) = q.uxMessagesWaiting
    BY ContentsFacts
  <2> QED BY <2>1, ElementOfSeq
<1> QED BY <1>1, RingInvariant, PTL

\* The ring of adm_os_queue.c implements the bounded sequence AdmFifo: the
\* items come out in the order the sends put them in, none lost, none twice,
\* and a send is refused only when uxLength items are queued.
THEOREM Refinement == ASSUME Disciplined PROVE Spec => FifoSpec
<1>1. Init => Fifo!Init
  BY RingInit DEF Init, Fifo!Init, pdFAIL, Fifo!pdFAIL
<1>2. RingOK(q) /\ [Next]_vars => [Fifo!Next]_(Fifo!fvars)
  BY RingStep
<1> QED BY <1>1, <1>2, RingInvariant, PTL DEF Spec, FifoSpec, Fifo!Spec

=============================================================================
