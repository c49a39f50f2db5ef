------------------------------ MODULE AdmQueue ------------------------------
(***************************************************************************)
(* One queue of os/src/adm_os_queue.c as its callers drive it, each call   *)
(* taken as one step (AdmQueueSync splits the calls and adds the mutex).   *)
(***************************************************************************)
EXTENDS AdmQueueOps, Sequences

CONSTANTS
  Requests,   \* the <<item, position>> pairs callers send
  Buffers     \* whether receivers pass a buffer: a subset of BOOLEAN

ASSUME QueueAssumption ==
  /\ Requests \subseteq (Item \cup {NULL}) \X Position
  /\ Buffers \subseteq BOOLEAN

VARIABLES
  q,      \* the adm_queue_t
  reply   \* what the last call asked and returned

vars == <<q, reply>>

pdPASS(asked, item) == [asked |-> asked, ok |-> TRUE, item |-> item]
pdFAIL(asked)       == [asked |-> asked, ok |-> FALSE, item |-> NULL]

Init ==
  /\ q = adm_queue_generic_create(Length, ItemSize)
  /\ reply = pdFAIL(<<>>)

-----------------------------------------------------------------------------
(* adm_queue_generic_send: accepted, or refused when the queue is full *)

Send(item, pos) ==
  /\ Admits(q, pos)
  /\ q' = adm_queue_copy_data2list(q, item, pos)
  /\ reply' = pdPASS(<<item, pos>>, NULL)

SendFull(item, pos) ==
  /\ ~ Admits(q, pos)
  /\ reply' = pdFAIL(<<item, pos>>)
  /\ UNCHANGED q

(* adm_queue_generic_recv: the flag xJustPeeking is never looked at *)

Recv(hasBuffer) ==
  /\ q.uxMessagesWaiting > 0
  /\ q' = [adm_queue_copy_data_from_list(q, hasBuffer)
             EXCEPT !.uxMessagesWaiting = q.uxMessagesWaiting - 1]
  /\ reply' = pdPASS(<<hasBuffer>>, Fetched(q, hasBuffer))

RecvEmpty(hasBuffer) ==
  /\ q.uxMessagesWaiting = 0
  /\ reply' = pdFAIL(<<hasBuffer>>)
  /\ UNCHANGED q

Next ==
  \/ \E r \in Requests : Send(r[1], r[2]) \/ SendFull(r[1], r[2])
  \/ \E hasBuffer \in Buffers : Recv(hasBuffer) \/ RecvEmpty(hasBuffer)

Spec == Init /\ [][Next]_vars

-----------------------------------------------------------------------------
(* What callers must respect: FreeRTOS, where this ring comes from, asserts *)
(* it; this code no longer does.                                           *)

Disciplined ==
  /\ ItemSize = 1
  /\ \A r \in Requests :
       /\ r[1] # NULL
       /\ r[2] = ADM_QUEUE_INSERT_OVERWRITE => Length = 1

-----------------------------------------------------------------------------
(* Properties *)

\* Type invariant.  Whatever the callers send, the two pointers stay inside
\* the storage area: copying an item never writes or reads outside it.
TypeOK ==
  /\ q \in [slot : [0 .. Length * ItemSize - 1 -> Item \cup {Zero}],
            uxLength : {Length}, uxItemSize : {ItemSize},
            pcTail : {Length * ItemSize}, uxMessagesWaiting : Nat,
            pcWriteTo : Nat, pcReadFrom : Nat]
  /\ q.pcWriteTo <= (Length - 1) * ItemSize
  /\ q.pcReadFrom <= (Length - 1) * ItemSize
  /\ reply \in [asked : Requests \cup {<<>>, <<TRUE>>, <<FALSE>>}, ok : BOOLEAN,
                 item : Item \cup {Zero, NULL}]

\* The queue never counts more items than its length (adm_queue_generic_send
\* compares the two before it copies).
CountWithinLength == q.uxMessagesWaiting <= Length

\* The ring closes up: the slot the next item is written to is the one that
\* follows the last queued item, whatever mix of back and front sends and
\* receives came before (copy_data2list and copy_data_from_list move the two
\* pointers independently of each other and of the count).
WriteToFollowsContents ==
  q.pcWriteTo = QueuedSlot(q, q.uxMessagesWaiting)

\* Every slot that is counted as queued holds an item that was sent, never
\* the zeros of a slot nobody wrote or one already received.
CountedSlotsHoldItems ==
  \A i \in 1 .. q.uxMessagesWaiting : Contents(q)[i] \in Item

\* The ring implements the bounded double-ended sequence of AdmFifo.
Fifo == INSTANCE AdmFifo WITH
          queue <- Contents(q), reply <- reply, Capacity <- Length,
          Back <- ADM_QUEUE_INSERT_TO_BACK, Front <- ADM_QUEUE_INSERT_TO_FRONT,
          Overwrite <- ADM_QUEUE_INSERT_OVERWRITE
FifoSpec == Fifo!Spec

=============================================================================
