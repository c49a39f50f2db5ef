---------------------------- MODULE AdmMessaging ----------------------------
(***************************************************************************)
(* Message passing between tasks: adm_thread_send_msg of adm_os_queue.c    *)
(* copies the caller's data to the heap and queues a message that points   *)
(* to the copy; the loop of the receiving task (the four loops of          *)
(* adm_os_queue_test.c are alike) polls its queue, dispatches the message, *)
(* counts it and frees the copy.  The loop also compares the counts, but   *)
(* only to log the outcome, which is no step here.                         *)
(*                                                                         *)
(* A queue call is one step here: AdmQueueSync shows that the global mutex *)
(* makes it one.                                                           *)
(***************************************************************************)
EXTENDS Integers, Sequences, FiniteSets

CONSTANTS
  Task,        \* the receiving tasks
  Sender,      \* the threads that call dm_send_msg_...
  Block,       \* the heap blocks malloc hands out
  MsgId,       \* the message ids in use
  CallbackId,  \* those whose param the dispatcher calls as a function
  Length,      \* length of each task's queue
  MaxSends,    \* bound: messages from one sender to one task
  Zero, NULL

\* An adm_thread_msg_t; from and serial, which no code reads, tell the
\* messages of a sender to a task apart.
Message == [msg_id : MsgId, param : Block, from : Sender, serial : 1 .. MaxSends]

ASSUME MessagingAssumption ==
  /\ IsFiniteSet(Task) /\ IsFiniteSet(Sender)
  /\ CallbackId \subseteq MsgId
  /\ Length \in Nat \ {0} /\ MaxSends \in Nat
  /\ Zero \notin Message /\ NULL \notin Block \cup Message /\ Zero # NULL

INSTANCE AdmQueueOps WITH Item <- Message, ItemSize <- 1

VARIABLES
  handle,   \* dm_thread_a ...: "null", "created" (its thread runs), "published"
  ring,     \* the queue of each task
  heap,     \* the blocks in use
  send,     \* each sender in adm_thread_send_msg: its step, target, message
  task,     \* each task in its loop: its step and its message
  sent,     \* dm_task_..._count, the part of it that each sender counted
  recv,     \* dm_task_..._recv_count
  lost,     \* messages counted as sent that no queue took
  leaked,   \* blocks of messages the queue refused
  latest,   \* the serial each task last got from each sender
  crashed   \* the process has jumped to something that is no function

vars == <<handle, ring, heap, send, task, sent, recv, lost, leaked,
          latest, crashed>>

Idle    == [step |-> "idle", dst |-> NULL, msg |-> NULL]
Polling == [step |-> "poll", msg |-> NULL]

Init ==
  /\ handle  = [t \in Task |-> "null"]
  /\ ring    = [t \in Task |-> adm_queue_generic_create(Length, 1)]
  /\ heap    = {}
  /\ send    = [s \in Sender |-> Idle]
  /\ task    = [t \in Task |-> Polling]
  /\ sent    = [s \in Sender |-> [t \in Task |-> 0]]
  /\ recv    = [t \in Task |-> 0]
  /\ lost    = [t \in Task |-> 0]
  /\ leaked  = {}
  /\ latest  = [t \in Task |-> [s \in Sender |-> 0]]
  /\ crashed = FALSE

\* The messages to t that the senders have counted.
TotalSent(t) == Cardinality({m \in Sender \X (1 .. MaxSends) : m[2] <= sent[m[1]][t]})

-----------------------------------------------------------------------------
(* dm_creat_task_...: the thread runs before the handle is assigned *)

CreateTask(t) ==
  /\ handle[t] = "null"
  /\ handle' = [handle EXCEPT ![t] = "created"]
  /\ UNCHANGED <<ring, heap, send, task, sent, recv, lost, leaked,
                 latest, crashed>>

Publish(t) ==
  /\ handle[t] = "created"
  /\ handle' = [handle EXCEPT ![t] = "published"]
  /\ UNCHANGED <<ring, heap, send, task, sent, recv, lost, leaked,
                 latest, crashed>>

-----------------------------------------------------------------------------
(* dm_send_msg_...: count, then adm_thread_send_msg *)

\* The handle is read when the call is made.
SendCall(s, t, id) ==
  /\ send[s].step = "idle"
  /\ sent[s][t] < MaxSends
  /\ sent' = [sent EXCEPT ![s][t] = @ + 1]
  /\ IF handle[t] = "published"
     THEN /\ send' = [send EXCEPT ![s] =
                        [step |-> "dup", dst |-> t,
                         msg |-> [msg_id |-> id, param |-> NULL, from |-> s,
                                  serial |-> sent[s][t] + 1]]]
          /\ UNCHANGED lost
     ELSE /\ lost' = [lost EXCEPT ![t] = @ + 1]
          /\ UNCHANGED send
  /\ UNCHANGED <<handle, ring, heap, task, recv, leaked, latest,
                 crashed>>

Dup(s, b) ==
  /\ send[s].step = "dup"
  /\ b \notin heap
  /\ heap' = heap \cup {b}
  /\ send' = [send EXCEPT ![s].msg.param = b, ![s].step = "send"]
  /\ UNCHANGED <<handle, ring, task, sent, recv, lost, leaked, latest,
                 crashed>>
\* Faulty: a failed copy is sent all the same.
DupFailsUnchecked(s) ==
  /\ send[s].step = "dup"
  /\ send' = [send EXCEPT ![s].step = "send"]
  /\ UNCHANGED <<handle, ring, heap, task, sent, recv, lost, leaked,
                 latest, crashed>>

DupFails(s) ==
  /\ send[s].step = "dup"
  /\ send' = [send EXCEPT ![s] = Idle]
  /\ lost' = [lost EXCEPT ![send[s].dst] = @ + 1]
  /\ UNCHANGED <<handle, ring, heap, task, sent, recv, leaked, latest,
                 crashed>>
QueueSendTo(s, pos, freed) ==
  LET t == send[s].dst  m == send[s].msg IN
  /\ send[s].step = "send"
  /\ IF Admits(ring[t], pos)
     THEN /\ ring' = [ring EXCEPT ![t] = adm_queue_copy_data2list(@, m, pos)]
          /\ heap' = heap \ (IF freed THEN {m.param} ELSE {})
          /\ UNCHANGED <<lost, leaked>>
     ELSE /\ lost' = [lost EXCEPT ![t] = @ + 1]
          /\ leaked' = leaked \cup {m.param}
          /\ UNCHANGED <<ring, heap>>
  /\ send' = [send EXCEPT ![s] = Idle]
  /\ UNCHANGED <<handle, task, sent, recv, latest, crashed>>

\* Faulty: the sender frees the copy that it has queued.
QueueSendFrees(s)      == QueueSendTo(s, ADM_QUEUE_INSERT_TO_BACK, TRUE)
\* Faulty: the message goes to the front.
QueueSendToFront(s)    == QueueSendTo(s, ADM_QUEUE_INSERT_TO_FRONT, FALSE)
\* Faulty: the message replaces the one that is next.
QueueSendOverwrites(s) == QueueSendTo(s, ADM_QUEUE_INSERT_OVERWRITE, FALSE)

\* The result of adm_queue_send is not looked at: when it is pdFAIL nobody
\* refers to the copy any more.
QueueSend(s) == QueueSendTo(s, ADM_QUEUE_INSERT_TO_BACK, FALSE)

-----------------------------------------------------------------------------
(* The loop of a task *)

Running(t) == handle[t] \in {"created", "published"} /\ ~ crashed

Receive(t) ==
  /\ Running(t) /\ handle[t] = "published"
  /\ task[t].step = "poll"
  /\ ring[t].uxMessagesWaiting > 0
  /\ LET m == Fetched(ring[t], TRUE) IN
     /\ task' = [task EXCEPT ![t] = [step |-> "dispatch", msg |-> m]]
     /\ latest' = [latest EXCEPT ![t][m.from] = m.serial]
  /\ ring' = [ring EXCEPT ![t] =
                [adm_queue_copy_data_from_list(@, TRUE)
                   EXCEPT !.uxMessagesWaiting = ring[t].uxMessagesWaiting - 1]]
  /\ UNCHANGED <<handle, heap, send, sent, recv, lost, leaked, crashed>>

\* Nothing to receive, or the handle is not there yet: sleep and poll again.
PollNothing(t) ==
  /\ Running(t)
  /\ task[t].step = "poll"
  /\ handle[t] = "published" => ring[t].uxMessagesWaiting = 0
  /\ UNCHANGED vars

\* dm_task_dispatch: for the callback ids it calls msg->param, which is the
\* heap copy of the first bytes of the callback and not the callback.
Dispatch(t) ==
  /\ Running(t)
  /\ task[t].step = "dispatch"
  /\ IF task[t].msg.msg_id \in CallbackId
     THEN crashed' = TRUE /\ UNCHANGED task
     ELSE task' = [task EXCEPT ![t].step = "count"] /\ UNCHANGED crashed
  /\ UNCHANGED <<handle, ring, heap, send, sent, recv, lost, leaked,
                 latest>>

Count(t) ==
  /\ Running(t)
  /\ task[t].step = "count"
  /\ recv' = [recv EXCEPT ![t] = @ + 1]
  /\ task' = [task EXCEPT ![t].step = "free"]
  /\ UNCHANGED <<handle, ring, heap, send, sent, lost, leaked, latest, crashed>>
\* Faulty: the loop forgets to free the copy.
FreeForgotten(t) ==
  /\ Running(t)
  /\ task[t].step = "free"
  /\ task' = [task EXCEPT ![t] = Polling]
  /\ UNCHANGED <<handle, ring, heap, send, sent, recv, lost, leaked,
                 latest, crashed>>

Free(t) ==
  /\ Running(t)
  /\ task[t].step = "free"
  /\ heap' = heap \ {task[t].msg.param}
  /\ task' = [task EXCEPT ![t] = Polling]
  /\ UNCHANGED <<handle, ring, send, sent, recv, lost, leaked, latest,
                 crashed>>

-----------------------------------------------------------------------------

Sending(s) ==
  /\ ~ crashed
  /\ \/ \E t \in Task, id \in MsgId : SendCall(s, t, id)
     \/ \E b \in Block : Dup(s, b)
     \/ DupFails(s)
     \/ QueueSend(s)

Loop(t) == Receive(t) \/ PollNothing(t) \/ Dispatch(t) \/ Count(t) \/ Free(t)

Creation(t) == ~ crashed /\ (CreateTask(t) \/ Publish(t))

Next ==
  \/ \E t \in Task : Creation(t) \/ Loop(t)
  \/ \E s \in Sender : Sending(s)

Spec == Init /\ [][Next]_vars

\* Every task that runs keeps being scheduled; senders need not be.
FairSpec == Spec /\ \A t \in Task : WF_vars(Loop(t))

-----------------------------------------------------------------------------
(* Properties *)

TypeOK ==
  /\ handle \in [Task -> {"null", "created", "published"}]
  /\ heap \subseteq Block /\ leaked \subseteq Block
  /\ \A s \in Sender :
       /\ send[s].step \in {"idle", "dup", "send"}
       /\ send[s].step = "send" => send[s].msg \in Message /\ send[s].dst \in Task
  /\ \A t \in Task :
       /\ task[t].step \in {"poll", "dispatch", "count", "free"}
       /\ task[t].step # "poll" => task[t].msg \in Message
       /\ Contents(ring[t]) \in Seq(Message)
  /\ crashed \in BOOLEAN

QueuedBlocks(t) == {Contents(ring[t])[i].param : i \in 1 .. ring[t].uxMessagesWaiting}
HeldBySender  == {s \in Sender : send[s].step = "send"}
HeldByTask    == {t \in Task : task[t].step # "poll"}

\* Who refers to block b: places in queues, senders and receivers.
References(b) ==
  ({"place"} \X {p \in Task \X (1 .. Length) :
                   /\ p[2] <= ring[p[1]].uxMessagesWaiting
                   /\ Contents(ring[p[1]])[p[2]].param = b})
  \cup ({"sender"} \X {s \in HeldBySender : send[s].msg.param = b})
  \cup ({"task"} \X {t \in HeldByTask : task[t].msg.param = b})

\* Every block in use has exactly one owner that will free it or pass it on,
\* or was leaked by a refused send, never both: no message is freed twice,
\* used after it was freed, or lost without trace.  Blocks not in use have no
\* reference (the address may be handed out again at once).
OneOwner ==
  \A b \in Block :
    Cardinality(References(b)) = IF b \in heap \ leaked THEN 1 ELSE 0

\* Every message counted as sent is received, in a queue, in a task's hands
\* or in a sender's, or is one of those the caller was not told about: its
\* target was not there, the copy failed, or the queue was full.
Accounted ==
  \A t \in Task :
    TotalSent(t) = recv[t] + ring[t].uxMessagesWaiting + lost[t]
      + Cardinality({s \in Sender : send[s].step # "idle" /\ send[s].dst = t})
      + (IF task[t].step \in {"dispatch", "count"} THEN 1 ELSE 0)

\* A task gets the messages of one sender in the order they were sent.
InOrder ==
  [][\A t \in Task, s \in Sender :
       latest'[t][s] # latest[t][s] => latest'[t][s] > latest[t][s]]_vars

\* A message that a queue took is received and its copy freed, as long as the
\* tasks run: a block in a queue does not stay in use for ever.
EventuallyFreed ==
  \A t \in Task, b \in Block : b \in QueuedBlocks(t) ~> b \notin heap

\* What dm_task_dispatch means to do with the callback ids: run the callback
\* ("exec dm_send_msg_A2B_cb()"), so that the process survives the dispatch.
CallbackRuns == ~ crashed

=============================================================================
