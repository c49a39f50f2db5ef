------------------------------ MODULE AdmFifo ------------------------------
(***************************************************************************)
(* What a message queue of os/src/adm_os_queue.c promises its callers: a   *)
(* bounded double-ended sequence of items.  Sending puts an item at the    *)
(* back or at the front, or replaces the front one; receiving takes the    *)
(* front one; both answer at once, pdPASS or pdFAIL, and never wait.       *)
(*                                                                         *)
(* AdmQueue (the ring of slots) and AdmQueueSync (the ring used by several *)
(* threads under the global mutex) are shown to implement this module.     *)
(***************************************************************************)
EXTENDS Integers, Sequences

CONSTANTS
  Item,      \* what can be sent
  Capacity,  \* uxLength, the number of items the queue holds
  NULL,      \* no item in the reply
  Back, Front, Overwrite   \* where a send may put its item

VARIABLES
  queue,     \* the items, the next to be received first
  reply      \* the last call and the answer to it

fvars == <<queue, reply>>

\* A send is asked with an item and a position, a receive with whether there is
\* a buffer for the item.
pdPASS(asked, item) == [asked |-> asked, ok |-> TRUE, item |-> item]
pdFAIL(asked)       == [asked |-> asked, ok |-> FALSE, item |-> NULL]

Init ==
  /\ queue = <<>>
  /\ reply = pdFAIL(<<>>)

SendBack(item) ==
  /\ Len(queue) < Capacity
  /\ queue' = Append(queue, item)
  /\ reply' = pdPASS(<<item, Back>>, NULL)

SendFront(item) ==
  /\ Len(queue) < Capacity
  /\ queue' = <<item>> \o queue
  /\ reply' = pdPASS(<<item, Front>>, NULL)

\* An overwriting send always succeeds: it replaces the item that is next.
SendOverwrite(item) ==
  /\ queue' = IF queue = <<>> THEN <<item>> ELSE <<item>> \o Tail(queue)
  /\ reply' = pdPASS(<<item, Overwrite>>, NULL)

SendRefused(item, pos) ==
  /\ Len(queue) >= Capacity
  /\ reply' = pdFAIL(<<item, pos>>)
  /\ UNCHANGED queue

Receive ==
  /\ queue # <<>>
  /\ queue' = Tail(queue)
  /\ reply' = pdPASS(<<TRUE>>, Head(queue))

\* A receiver that passes no buffer drops the item.
Discard ==
  /\ queue # <<>>
  /\ queue' = Tail(queue)
  /\ reply' = pdPASS(<<FALSE>>, NULL)

ReceiveNothing(hasBuffer) ==
  /\ queue = <<>>
  /\ reply' = pdFAIL(<<hasBuffer>>)
  /\ UNCHANGED queue

Next ==
  \/ \E item \in Item : SendBack(item) \/ SendFront(item) \/ SendOverwrite(item)
  \/ \E item \in Item : SendRefused(item, Back) \/ SendRefused(item, Front)
  \/ Receive
  \/ Discard
  \/ ReceiveNothing(TRUE) \/ ReceiveNothing(FALSE)

Spec == Init /\ [][Next]_fvars

=============================================================================
