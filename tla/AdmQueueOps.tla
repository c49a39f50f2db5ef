---------------------------- MODULE AdmQueueOps ----------------------------
(***************************************************************************)
(* The operations of os/src/adm_os_queue.c on one adm_queue_t, as          *)
(* operators on a record with the fields of the struct that they use.      *)
(*                                                                         *)
(* Pointers are offsets from pcHead, and an offset counts items, not       *)
(* bytes: uxItemSize is 0 (a queue that only counts) or 1 (any other       *)
(* size).  slot is the storage area behind the struct.  The event lists    *)
(* and the queue set container stay empty in this code (nothing adds to a  *)
(* list, nothing sets the container), so the branches on them change       *)
(* nothing and are left out.                                               *)
(***************************************************************************)
EXTENDS Integers

CONSTANTS
  Item,      \* what can be queued
  Zero,      \* what a slot holds after memset 0, or after adm_malloc
  NULL,      \* no item, no buffer
  Length,    \* uxLength of the queues of a model
  ItemSize   \* their uxItemSize, 0 or 1

ASSUME ValuesAssumption == Zero \notin Item /\ NULL \notin Item /\ Zero # NULL
ASSUME LengthAssumption == Length \in Nat \ {0} /\ ItemSize \in {0, 1}

ADM_QUEUE_INSERT_TO_BACK   == 0
ADM_QUEUE_INSERT_TO_FRONT  == 1
ADM_QUEUE_INSERT_OVERWRITE == 2

Position == {ADM_QUEUE_INSERT_TO_BACK, ADM_QUEUE_INSERT_TO_FRONT,
             ADM_QUEUE_INSERT_OVERWRITE}

-----------------------------------------------------------------------------
(* Creation *)
\* Faulty: the read pointer starts at the head instead of at the last place.
ResetReadAtHead(q) ==
  [q EXCEPT !.pcTail = q.uxLength * q.uxItemSize, !.uxMessagesWaiting = 0,
            !.pcWriteTo = 0, !.pcReadFrom = 0]

adm_queue_generic_reset(q) ==
  [q EXCEPT !.pcTail            = q.uxLength * q.uxItemSize,
            !.uxMessagesWaiting = 0,
            !.pcWriteTo         = 0,
            !.pcReadFrom        = (q.uxLength - 1) * q.uxItemSize]

\* The struct and its storage come zeroed from one adm_malloc.
adm_queue_generic_create(length, size) ==
  adm_queue_generic_reset(
    [slot |-> [k \in 0 .. length * size - 1 |-> Zero],
     uxLength |-> length, uxItemSize |-> size, uxMessagesWaiting |-> 0,
     pcTail |-> 0, pcWriteTo |-> 0, pcReadFrom |-> 0])

-----------------------------------------------------------------------------
(* Sending *)
\* Faulty: the pointer wraps one place too late.
WrapUpLate(q, p) == IF p > q.pcTail THEN 0 ELSE p

WrapUp(q, p)   == IF p >= q.pcTail THEN 0 ELSE p
WrapDown(q, p) == IF p < 0 THEN q.pcTail - q.uxItemSize ELSE p

\* Without an item to copy nothing is written and the pointer stays where it
\* is; the caller counts the item all the same.
Stored(q, p, item) == IF item = NULL THEN q.slot ELSE [q.slot EXCEPT ![p] = item]
Stride(q, item)    == IF item = NULL THEN 0 ELSE q.uxItemSize
InsertBack(q, item) ==
  [q EXCEPT !.slot      = Stored(q, q.pcWriteTo, item),
            !.pcWriteTo = WrapUp(q, q.pcWriteTo + Stride(q, item))]
\* Faulty: the read pointer moves before the copy.
InsertFrontMovedFirst(q, item) ==
  LET p == WrapDown(q, q.pcReadFrom - Stride(q, item))
  IN  [q EXCEPT !.slot = Stored(q, p, item), !.pcReadFrom = p]

InsertFront(q, item) ==
  [q EXCEPT !.slot       = Stored(q, q.pcReadFrom, item),
            !.pcReadFrom = WrapDown(q, q.pcReadFrom - Stride(q, item))]
\* Faulty: the two ends are swapped.
InsertedAtOtherEnd(q, item, pos) ==
  IF pos = ADM_QUEUE_INSERT_TO_BACK THEN InsertFront(q, item) ELSE InsertBack(q, item)

Inserted(q, item, pos) ==
  CASE q.uxItemSize = 0                -> q
    [] q.uxItemSize # 0 /\ pos = ADM_QUEUE_INSERT_TO_BACK
                                       -> InsertBack(q, item)
    [] q.uxItemSize # 0 /\ pos # ADM_QUEUE_INSERT_TO_BACK
                                       -> InsertFront(q, item)
\* An overwriting send of a sized item to a queue that holds one adds none.
CountAfterInsert(q, pos) ==
  IF /\ q.uxItemSize # 0
     /\ pos = ADM_QUEUE_INSERT_OVERWRITE
     /\ q.uxMessagesWaiting > 0
  THEN q.uxMessagesWaiting
  ELSE q.uxMessagesWaiting + 1

adm_queue_copy_data2list(q, item, pos) ==
  [Inserted(q, item, pos) EXCEPT !.uxMessagesWaiting = CountAfterInsert(q, pos)]

\* The condition under which adm_queue_generic_send does not answer pdFAIL.
Admits(q, pos) ==
  \/ q.uxMessagesWaiting < q.uxLength
  \/ pos = ADM_QUEUE_INSERT_OVERWRITE

-----------------------------------------------------------------------------
(* Receiving *)

NextRead(q) == WrapUp(q, q.pcReadFrom + q.uxItemSize)

\* A buffer (the flag hasBuffer) gets the item and the slot is cleared.
adm_queue_copy_data_from_list(q, hasBuffer) ==
  IF q.uxItemSize = 0
  THEN q
  ELSE [q EXCEPT !.slot = Stored(q, NextRead(q), IF hasBuffer THEN Zero ELSE NULL),
                 !.pcReadFrom = NextRead(q)]

Fetched(q, hasBuffer) ==
  IF q.uxItemSize # 0 /\ hasBuffer THEN q.slot[NextRead(q)] ELSE NULL

-----------------------------------------------------------------------------
(* What is queued, read off the ring *)

\* The k-th slot (0 the next one to be received) after the read pointer.
QueuedSlot(q, k) ==
  LET first == IF q.pcReadFrom + 1 >= q.uxLength THEN 0 ELSE q.pcReadFrom + 1
  IN  IF first + k >= q.uxLength THEN first + k - q.uxLength ELSE first + k

\* The items of the ring in the order they will be received.
Contents(q) ==
  [i \in 1 .. q.uxMessagesWaiting |-> q.slot[QueuedSlot(q, i - 1)]]

=============================================================================
