------------------------- MODULE AdmMessagingProofs -------------------------
(***************************************************************************)
(* Proofs about AdmMessaging, for any number of tasks, senders and blocks, *)
(* queues of every length and any bound on the sends: the types, the order *)
(* in which a task gets the messages of a sender, that every copy has one  *)
(* owner, and that every message is accounted for.                         *)
(***************************************************************************)
EXTENDS AdmMessaging, SequenceTheorems, FiniteSetTheorems, TLAPS

\* The lemmas about the ring, for a ring of messages.  They speak neither of
\* the requests nor of the variables of AdmQueue.
Ring == INSTANCE AdmQueueProofs WITH
          Item <- Message, ItemSize <- 1, Requests <- {}, Buffers <- {},
          q <- NULL, reply <- NULL

-----------------------------------------------------------------------------
(* The ring of messages *)

\* The instance of the lemmas speaks of the same operators.
LEMMA SameOperators ==
  ASSUME NEW r, NEW m, NEW pos, NEW hasBuffer
  PROVE  /\ Ring!adm_queue_copy_data2list(r, m, pos) = adm_queue_copy_data2list(r, m, pos)
         /\ Ring!adm_queue_copy_data_from_list(r, hasBuffer)
              = adm_queue_copy_data_from_list(r, hasBuffer)
         /\ Ring!Fetched(r, hasBuffer) = Fetched(r, hasBuffer)
         /\ Ring!Contents(r) = Contents(r)
<1>1. Ring!adm_queue_copy_data2list(r, m, pos) = adm_queue_copy_data2list(r, m, pos)
  BY DEF Ring!adm_queue_copy_data2list, adm_queue_copy_data2list,
         Ring!Inserted, Inserted, Ring!InsertBack, InsertBack,
         Ring!InsertFront, InsertFront, Ring!Stored, Stored,
         Ring!Stride, Stride, Ring!WrapUp, WrapUp, Ring!WrapDown, WrapDown,
         Ring!CountAfterInsert, CountAfterInsert,
         Ring!ADM_QUEUE_INSERT_TO_BACK, ADM_QUEUE_INSERT_TO_BACK,
         Ring!ADM_QUEUE_INSERT_OVERWRITE, ADM_QUEUE_INSERT_OVERWRITE
<1>2. Ring!adm_queue_copy_data_from_list(r, hasBuffer)
        = adm_queue_copy_data_from_list(r, hasBuffer)
  BY DEF Ring!adm_queue_copy_data_from_list, adm_queue_copy_data_from_list,
         Ring!Stored, Stored, Ring!NextRead, NextRead, Ring!WrapUp, WrapUp
<1>3. Ring!Fetched(r, hasBuffer) = Fetched(r, hasBuffer)
  BY DEF Ring!Fetched, Fetched, Ring!NextRead, NextRead, Ring!WrapUp, WrapUp
<1>4. Ring!Contents(r) = Contents(r)
  BY DEF Ring!Contents, Contents, Ring!QueuedSlot, QueuedSlot
<1> QED BY <1>1, <1>2, <1>3, <1>4

\* A queue of messages whose pointers and count agree.
MessageRing(r) == Ring!RingOK(r)

LEMMA RingFacts ==
  ASSUME NEW r, MessageRing(r)
  PROVE  /\ r.uxMessagesWaiting \in 0 .. Length
         /\ r.uxLength = Length
         /\ Contents(r) \in Seq(Message)
         /\ Len(Contents(r)) = r.uxMessagesWaiting
         /\ \A i \in 1 .. r.uxMessagesWaiting : Contents(r)[i] \in Message
<1>1. r.uxMessagesWaiting \in 0 .. Length /\ r.uxLength = Length
  BY MessagingAssumption DEF MessageRing, Ring!RingOK, Ring!QueueOK
<1>2. Contents(r) \in Seq(Message) /\ Len(Contents(r)) = r.uxMessagesWaiting
  BY MessagingAssumption, SameOperators, Ring!ContentsFacts DEF MessageRing
<1>3. \A i \in 1 .. Len(Contents(r)) : Contents(r)[i] \in Message
  BY <1>2, ElementOfSeq
<1> QED BY <1>1, <1>2, <1>3

LEMMA RingCreated ==
  /\ MessageRing(adm_queue_generic_create(Length, 1))
  /\ adm_queue_generic_create(Length, 1).uxMessagesWaiting = 0
<1> DEFINE c == adm_queue_generic_create(Length, 1)
<1>1. Ring!QueueOK(c)
  <2>1. Ring!QueueOK(Ring!adm_queue_generic_create(Length, 1))
    BY MessagingAssumption, Ring!CreateOK
  <2>2. Ring!adm_queue_generic_create(Length, 1) = c
    BY DEF Ring!adm_queue_generic_create, adm_queue_generic_create,
           Ring!adm_queue_generic_reset, adm_queue_generic_reset
  <2> QED BY <2>1, <2>2
<1>2. /\ c.uxMessagesWaiting = 0 /\ c.pcWriteTo = 0
      /\ c.pcReadFrom = (Length - 1) * 1
  BY DEF adm_queue_generic_create, adm_queue_generic_reset
<1> HIDE DEF c
<1>3. c.pcReadFrom = Length - 1 /\ c.uxLength = Length
  BY <1>1, <1>2, MessagingAssumption DEF Ring!QueueOK
<1>4. Ring!QueuedSlot(c, 0) = 0
  BY <1>3, MessagingAssumption DEF Ring!QueuedSlot
<1>5. Ring!RingOK(c)
  BY <1>1, <1>2, <1>4, MessagingAssumption DEF Ring!RingOK
<1> QED BY <1>2, <1>5 DEF MessageRing, c

\* What QueueSend does to a ring that admits the message: it appends it.
LEMMA MessageAppended ==
  ASSUME NEW r, MessageRing(r), r.uxMessagesWaiting < Length, NEW m \in Message
  PROVE  LET s == adm_queue_copy_data2list(r, m, ADM_QUEUE_INSERT_TO_BACK)
             n == r.uxMessagesWaiting
         IN  /\ MessageRing(s)
             /\ s.uxMessagesWaiting = n + 1
             /\ Contents(s)[n + 1] = m
             /\ \A i \in 1 .. n : Contents(s)[i] = Contents(r)[i]
<1> DEFINE s == adm_queue_copy_data2list(r, m, ADM_QUEUE_INSERT_TO_BACK)
           n == r.uxMessagesWaiting
<1>1. Ring!RingOK(s) /\ Contents(s) = Append(Contents(r), m)
  <2>1. /\ Ring!RingOK(Ring!adm_queue_copy_data2list(r, m, Ring!ADM_QUEUE_INSERT_TO_BACK))
        /\ Ring!Contents(Ring!adm_queue_copy_data2list(r, m, Ring!ADM_QUEUE_INSERT_TO_BACK))
             = Append(Ring!Contents(r), m)
    BY MessagingAssumption, Ring!BackAppends DEF MessageRing
  <2>2. Ring!ADM_QUEUE_INSERT_TO_BACK = ADM_QUEUE_INSERT_TO_BACK
    BY DEF Ring!ADM_QUEUE_INSERT_TO_BACK, ADM_QUEUE_INSERT_TO_BACK
  <2> QED BY <2>1, <2>2, SameOperators
<1>2. Contents(r) \in Seq(Message) /\ Len(Contents(r)) = n /\ n \in Nat
  BY RingFacts, MessagingAssumption
<1> HIDE DEF s
<1>3. /\ Len(Contents(s)) = n + 1 /\ Contents(s)[n + 1] = m
      /\ \A i \in 1 .. n : Contents(s)[i] = Contents(r)[i]
  BY <1>1, <1>2, AppendProperties
<1>4. s.uxMessagesWaiting = n + 1
  BY <1>1, <1>3, RingFacts DEF MessageRing
<1> QED BY <1>1, <1>3, <1>4 DEF MessageRing, s

\* What Receive does to a ring that holds a message: it takes the first.
Received(r) == [adm_queue_copy_data_from_list(r, TRUE)
                  EXCEPT !.uxMessagesWaiting = r.uxMessagesWaiting - 1]

LEMMA HeadTaken ==
  ASSUME NEW r, MessageRing(r), r.uxMessagesWaiting > 0
  PROVE  LET s == Received(r)
             n == r.uxMessagesWaiting
         IN  /\ MessageRing(s)
             /\ s.uxMessagesWaiting = n - 1
             /\ Fetched(r, TRUE) = Contents(r)[1]
             /\ \A i \in 1 .. n - 1 : Contents(s)[i] = Contents(r)[i + 1]
<1> DEFINE s == Received(r)
           n == r.uxMessagesWaiting
<1>1. /\ Ring!RingOK(s) /\ Contents(r) # <<>> /\ Contents(s) = Tail(Contents(r))
      /\ Fetched(r, TRUE) = Head(Contents(r))
  <2> DEFINE z(b) == [Ring!adm_queue_copy_data_from_list(r, b)
                        EXCEPT !.uxMessagesWaiting = r.uxMessagesWaiting - 1]
  <2>1. ASSUME NEW b \in BOOLEAN
        PROVE  /\ Ring!RingOK(z(b)) /\ Ring!Contents(r) # <<>>
               /\ Ring!Contents(z(b)) = Tail(Ring!Contents(r))
               /\ Ring!Fetched(r, b) = IF b THEN Head(Ring!Contents(r)) ELSE NULL
    BY MessagingAssumption, Ring!RecvTakesHead DEF MessageRing
  <2>2. z(TRUE) = s
    BY SameOperators DEF Received
  <2> HIDE DEF z
  <2>3. /\ Ring!RingOK(z(TRUE)) /\ Ring!Contents(r) # <<>>
        /\ Ring!Contents(z(TRUE)) = Tail(Ring!Contents(r))
        /\ Ring!Fetched(r, TRUE) = Head(Ring!Contents(r))
    BY <2>1
  <2> QED BY <2>2, <2>3, SameOperators
<1>2. Contents(r) \in Seq(Message) /\ Len(Contents(r)) = n /\ n \in Nat
  BY RingFacts, MessagingAssumption
<1> HIDE DEF s
<1>3. /\ Len(Contents(s)) = n - 1
      /\ Fetched(r, TRUE) = Contents(r)[1]
      /\ \A i \in 1 .. n - 1 : Contents(s)[i] = Contents(r)[i + 1]
  <2> DEFINE c == Contents(r)
             tl == Tail(c)
  <2>1. c \in Seq(Message) /\ c # <<>> /\ Len(c) = n
    BY <1>1, <1>2
  <2> HIDE DEF c
  <2>2. Len(tl) = n - 1 /\ \A i \in 1 .. n - 1 : tl[i] = c[i + 1]
    BY <1>2, <2>1, HeadTailProperties
  <2>3. Head(c) = c[1]
    BY <2>1
  <2> QED BY <1>1, <2>2, <2>3 DEF c
<1>4. s.uxMessagesWaiting = n - 1
  BY <1>1, <1>3, RingFacts DEF MessageRing
<1> QED BY <1>1, <1>3, <1>4 DEF MessageRing, s

-----------------------------------------------------------------------------
(* The inductive invariant *)

Busy(s) == send[s].step # "idle"

\* A message under way: it has no copy yet while the sender makes one.
Draft == [msg_id : MsgId, param : Block \cup {NULL}, from : Sender,
          serial : 1 .. MaxSends]

\* Where a sender, and where a task, is in its code, and with which message.
SenderState ==
  {e \in [step : {"idle", "dup", "send"}, dst : Task \cup {NULL},
          msg : Draft \cup {NULL}] :
     /\ e.step # "idle" => e.dst \in Task /\ e.msg \in Draft
     /\ e.step = "send" => e.msg.param \in Block}

TaskState ==
  {e \in [step : {"poll", "dispatch", "count", "free"}, msg : Message \cup {NULL}] :
     e.step # "poll" => e.msg \in Message}

TypeInv ==
  /\ handle \in [Task -> {"null", "created", "published"}]
  /\ DOMAIN ring = Task /\ \A t \in Task : MessageRing(ring[t])
  /\ heap \subseteq Block /\ leaked \subseteq Block
  /\ send \in [Sender -> SenderState]
  /\ task \in [Task -> TaskState]
  /\ sent \in [Sender -> [Task -> 0 .. MaxSends]]
  /\ recv \in [Task -> Nat] /\ lost \in [Task -> Nat]
  /\ latest \in [Task -> [Sender -> 0 .. MaxSends]]
  /\ crashed \in BOOLEAN

\* The last message from s to t that is not in the sender's hands any more.
Newest(s, t) == IF Busy(s) /\ send[s].dst = t THEN sent[s][t] - 1 ELSE sent[s][t]

\* What a sender is about to pass on is its last message to that task.
HandOrder(s, t) ==
  Busy(s) /\ send[s].dst = t =>
    send[s].msg.from = s /\ send[s].msg.serial = sent[s][t]

\* The messages from s in the queue of t are newer than what t got from s, in
\* the order of their serials, and older than what s has still to pass on.
QueueOrder(s, t) ==
  /\ latest[t][s] <= Newest(s, t)
  /\ \A i \in 1 .. ring[t].uxMessagesWaiting :
       Contents(ring[t])[i].from = s =>
         /\ latest[t][s] < Contents(ring[t])[i].serial
         /\ Contents(ring[t])[i].serial <= Newest(s, t)
  /\ \A i, j \in 1 .. ring[t].uxMessagesWaiting :
       /\ i < j
       /\ Contents(ring[t])[i].from = s /\ Contents(ring[t])[j].from = s
       => Contents(ring[t])[i].serial < Contents(ring[t])[j].serial

OrderInv == \A s \in Sender, t \in Task : HandOrder(s, t) /\ QueueOrder(s, t)

\* Who refers to block b.
PlacesOf(b) ==
  {p \in Task \X (1 .. Length) : /\ p[2] <= ring[p[1]].uxMessagesWaiting
                                 /\ Contents(ring[p[1]])[p[2]].param = b}
SendersOf(b) == {s \in HeldBySender : send[s].msg.param = b}
TasksOf(b)   == {t \in HeldByTask : task[t].msg.param = b}

AtMostOne(S) == \A x, y \in S : x = y

\* At most one of three sets has an element, and that set no second one.
Sole(P, S, T) ==
  /\ AtMostOne(P) /\ AtMostOne(S) /\ AtMostOne(T)
  /\ P = {} \/ S = {}
  /\ P = {} \/ T = {}
  /\ S = {} \/ T = {}

\* A block in use that was not leaked is referred to once, others never.
OwnerInv ==
  /\ leaked \subseteq heap
  /\ \A b \in Block :
       /\ Sole(PlacesOf(b), SendersOf(b), TasksOf(b))
       /\ PlacesOf(b) \cup SendersOf(b) \cup TasksOf(b) # {} <=> b \in heap \ leaked

-----------------------------------------------------------------------------
(* Type correctness *)

\* The two outcomes of a send to the queue.
LEMMA QueueSendCases ==
  ASSUME TypeInv, NEW s \in Sender, QueueSend(s)
  PROVE  LET t == send[s].dst  m == send[s].msg IN
         /\ send[s].step = "send" /\ t \in Task /\ m \in Message
         /\ send' = [send EXCEPT ![s] = Idle]
         /\ heap' = heap
         /\ UNCHANGED <<handle, task, sent, recv, latest, crashed>>
         /\ \/ /\ ring[t].uxMessagesWaiting < Length
               /\ ring' = [ring EXCEPT ![t] =
                    adm_queue_copy_data2list(@, m, ADM_QUEUE_INSERT_TO_BACK)]
               /\ UNCHANGED <<lost, leaked>>
            \/ /\ lost' = [lost EXCEPT ![t] = @ + 1]
               /\ leaked' = leaked \cup {m.param}
               /\ UNCHANGED ring
<1> DEFINE t == send[s].dst
           m == send[s].msg
<1>1. send[s].step = "send"
  BY DEF QueueSend, QueueSendTo
<1>2. t \in Task /\ m \in Draft /\ m.param \in Block
  BY <1>1 DEF TypeInv, SenderState
<1>3. m \in Message
  BY <1>2 DEF Draft, Message
<1>4. Admits(ring[t], ADM_QUEUE_INSERT_TO_BACK) <=> ring[t].uxMessagesWaiting < Length
  <2>1. ring[t].uxLength = Length
    BY <1>2, RingFacts DEF TypeInv
  <2> QED BY <2>1 DEF Admits, ADM_QUEUE_INSERT_TO_BACK, ADM_QUEUE_INSERT_OVERWRITE
<1>5. heap \ {} = heap
  OBVIOUS
<1> QED BY <1>1, <1>2, <1>3, <1>4, <1>5 DEF QueueSend, QueueSendTo

LEMMA TypeInitially == Init => TypeInv
<1> SUFFICES ASSUME Init PROVE TypeInv
  OBVIOUS
<1>1. DOMAIN ring = Task /\ \A t \in Task : MessageRing(ring[t])
  BY RingCreated DEF Init
<1>2. send \in [Sender -> SenderState]
  BY DEF Init, Idle, SenderState
<1>3. task \in [Task -> TaskState]
  BY DEF Init, Polling, TaskState
<1>4. /\ sent \in [Sender -> [Task -> 0 .. MaxSends]]
      /\ latest \in [Task -> [Sender -> 0 .. MaxSends]]
  BY MessagingAssumption DEF Init
<1>5. /\ handle \in [Task -> {"null", "created", "published"}]
      /\ recv \in [Task -> Nat] /\ lost \in [Task -> Nat]
      /\ heap = {} /\ leaked = {} /\ crashed \in BOOLEAN
  BY DEF Init
<1> QED BY <1>1, <1>2, <1>3, <1>4, <1>5 DEF TypeInv

\* What a copy that was made changes in the sender.
LEMMA DupFacts ==
  ASSUME TypeInv, NEW s \in Sender, NEW b \in Block, Dup(s, b)
  PROVE  LET m == [send[s].msg EXCEPT !.param = b]
             e == [step |-> "send", dst |-> send[s].dst, msg |-> m]
         IN  /\ send[s].dst \in Task /\ send[s].msg \in Draft
             /\ m \in Draft /\ m.param = b
             /\ m.from = send[s].msg.from /\ m.serial = send[s].msg.serial
             /\ e \in SenderState
             /\ send' = [send EXCEPT ![s] = e]
<1> DEFINE m == [send[s].msg EXCEPT !.param = b]
           e == [step |-> "send", dst |-> send[s].dst, msg |-> m]
<1>1. send[s] \in SenderState /\ send[s].step = "dup"
  BY DEF TypeInv, Dup
<1>2. send[s].dst \in Task /\ send[s].msg \in Draft
  BY <1>1 DEF SenderState
<1>3. /\ m \in Draft /\ m.param = b
      /\ m.from = send[s].msg.from /\ m.serial = send[s].msg.serial
  BY <1>2 DEF Draft
<1>4. send' = [send EXCEPT ![s] = e]
  <2>1. send' = [send EXCEPT ![s] = [[send[s] EXCEPT !.msg = m] EXCEPT !.step = "send"]]
    BY DEF Dup, TypeInv
  <2> HIDE DEF m
  <2>2. [[send[s] EXCEPT !.msg = m] EXCEPT !.step = "send"] = e
    <3> DEFINE x == send[s]
               y == [x EXCEPT !.msg = m]
    <3>1. x = [step |-> x.step, dst |-> x.dst, msg |-> x.msg]
      BY <1>1 DEF SenderState
    <3> HIDE DEF x
    <3>2. y = [step |-> x.step, dst |-> x.dst, msg |-> m]
      BY <3>1
    <3> HIDE DEF y
    <3>3. [y EXCEPT !.step = "send"] = [step |-> "send", dst |-> x.dst, msg |-> m]
      BY <3>2
    <3> QED BY <3>3 DEF x, y
  <2> QED BY <2>1, <2>2
<1> HIDE DEF m
<1>5. e \in SenderState
  BY <1>2, <1>3 DEF SenderState
<1> QED BY <1>2, <1>3, <1>4, <1>5 DEF m

LEMMA IdleOK == Idle \in SenderState
BY DEF Idle, SenderState

\* A sender's calls.
LEMMA SenderTypes ==
  ASSUME TypeInv, NEW s \in Sender, Sending(s)
  PROVE  TypeInv'
<1>1. ASSUME NEW t \in Task, NEW id \in MsgId, SendCall(s, t, id) PROVE TypeInv'
  <2> DEFINE n == sent[s][t]
             m == [msg_id |-> id, param |-> NULL, from |-> s, serial |-> n + 1]
  <2>1. n \in 0 .. MaxSends /\ n < MaxSends /\ n + 1 \in 1 .. MaxSends
    BY <1>1, MessagingAssumption DEF TypeInv, SendCall
  <2>2. sent' \in [Sender -> [Task -> 0 .. MaxSends]]
    BY <1>1, <2>1 DEF TypeInv, SendCall
  <2>3. m \in Draft
    BY <2>1 DEF Draft
  <2>4. [step |-> "dup", dst |-> t, msg |-> m] \in SenderState
    BY <2>3 DEF SenderState
  <2> HIDE DEF m
  <2>5. lost' \in [Task -> Nat] /\ send' \in [Sender -> SenderState]
    <3>1. CASE handle[t] = "published"
      <4>1. send' = [send EXCEPT ![s] = [step |-> "dup", dst |-> t, msg |-> m]]
        BY <1>1, <3>1 DEF SendCall, m
      <4> QED BY <1>1, <2>4, <3>1, <4>1 DEF TypeInv, SendCall
    <3>2. CASE handle[t] # "published"
      <4>1. send' = send /\ lost' = [lost EXCEPT ![t] = @ + 1]
        BY <1>1, <3>2 DEF SendCall
      <4> QED BY <4>1 DEF TypeInv
    <3> QED BY <3>1, <3>2
  <2> QED BY <1>1, <2>2, <2>5 DEF TypeInv, SendCall
<1>2. ASSUME NEW b \in Block, Dup(s, b) PROVE TypeInv'
  <2> DEFINE m == [send[s].msg EXCEPT !.param = b]
             e == [step |-> "send", dst |-> send[s].dst, msg |-> m]
  <2>1. send' = [send EXCEPT ![s] = e] /\ e \in SenderState
    BY <1>2, DupFacts
  <2> HIDE DEF e
  <2>2. send' \in [Sender -> SenderState]
    BY <2>1 DEF TypeInv
  <2> QED BY <1>2, <2>2 DEF TypeInv, Dup
<1>3. ASSUME DupFails(s) PROVE TypeInv'
  <2>1. send[s].dst \in Task
    BY <1>3 DEF TypeInv, DupFails, SenderState
  <2>2. lost' \in [Task -> Nat]
    BY <1>3, <2>1 DEF TypeInv, DupFails
  <2>3. send' \in [Sender -> SenderState]
    BY <1>3, IdleOK DEF TypeInv, DupFails
  <2> QED BY <1>3, <2>2, <2>3 DEF TypeInv, DupFails
<1>4. ASSUME QueueSend(s) PROVE TypeInv'
  <2> DEFINE t == send[s].dst
             m == send[s].msg
             q == adm_queue_copy_data2list(ring[t], m, ADM_QUEUE_INSERT_TO_BACK)
  <2>1. t \in Task /\ m \in Message /\ m.param \in Block
    BY <1>4, QueueSendCases DEF Message
  <2>2. send' = [send EXCEPT ![s] = Idle]
    BY <1>4, QueueSendCases
  <2>3. send' \in [Sender -> SenderState]
    BY <2>2, IdleOK DEF TypeInv
  <2>4. DOMAIN ring' = Task /\ \A u \in Task : MessageRing(ring'[u])
    <3>1. \/ ring' = ring
          \/ ring' = [ring EXCEPT ![t] = q] /\ ring[t].uxMessagesWaiting < Length
      BY <1>4, QueueSendCases
    <3>2. ring[t].uxMessagesWaiting < Length => MessageRing(q)
      BY <2>1, MessageAppended DEF TypeInv
    <3> HIDE DEF q
    <3> QED BY <3>1, <3>2 DEF TypeInv
  <2>5. lost' \in [Task -> Nat] /\ leaked' \subseteq Block
    BY <1>4, <2>1, QueueSendCases DEF TypeInv
  <2> QED BY <1>4, <2>3, <2>4, <2>5, QueueSendCases DEF TypeInv
<1> QED BY <1>1, <1>2, <1>3, <1>4 DEF Sending

\* What a receive changes.
LEMMA ReceiveFacts ==
  ASSUME TypeInv, NEW t \in Task, Receive(t)
  PROVE  LET m == Contents(ring[t])[1]  n == ring[t].uxMessagesWaiting IN
         /\ n > 0 /\ m \in Message /\ task[t].step = "poll"
         /\ task' = [task EXCEPT ![t] = [step |-> "dispatch", msg |-> m]]
         /\ [step |-> "dispatch", msg |-> m] \in TaskState
         /\ latest' = [latest EXCEPT ![t][m.from] = m.serial]
         /\ m.from \in Sender /\ m.serial \in 1 .. MaxSends
         /\ ring' = [ring EXCEPT ![t] = Received(ring[t])]
         /\ MessageRing(Received(ring[t]))
         /\ Received(ring[t]).uxMessagesWaiting = n - 1
         /\ \A i \in 1 .. n - 1 :
              Contents(Received(ring[t]))[i] = Contents(ring[t])[i + 1]
<1> DEFINE m == Contents(ring[t])[1]
           n == ring[t].uxMessagesWaiting
<1>1. n > 0 /\ task[t].step = "poll" /\ MessageRing(ring[t]) /\ n \in 0 .. Length
  BY RingFacts DEF Receive, TypeInv
<1>2. /\ MessageRing(Received(ring[t])) /\ Received(ring[t]).uxMessagesWaiting = n - 1
      /\ Fetched(ring[t], TRUE) = m
      /\ \A i \in 1 .. n - 1 :
           Contents(Received(ring[t]))[i] = Contents(ring[t])[i + 1]
  BY <1>1, HeadTaken
<1>3. m \in Message
  <2>1. 1 \in 1 .. n
    BY <1>1, MessagingAssumption
  <2> QED BY <1>1, <2>1, RingFacts
<1>4. m.from \in Sender /\ m.serial \in 1 .. MaxSends
  BY <1>3 DEF Message
<1>5. ring' = [ring EXCEPT ![t] = Received(ring[t])]
  BY DEF Receive, Received
<1>6. /\ task' = [task EXCEPT ![t] = [step |-> "dispatch", msg |-> m]]
      /\ latest' = [latest EXCEPT ![t][m.from] = m.serial]
  BY <1>2 DEF Receive
<1>7. [step |-> "dispatch", msg |-> m] \in TaskState
  BY <1>3 DEF TaskState
<1> QED BY <1>1, <1>2, <1>3, <1>4, <1>5, <1>6, <1>7

\* The other steps of the loop that change something.
LEMMA LoopFacts ==
  ASSUME TypeInv, NEW t \in Task, task[t].step # "poll",
         NEW next \in {"count", "free"}
  PROVE  /\ [task EXCEPT ![t].step = next] \in [Task -> TaskState]
         /\ [task EXCEPT ![t].step = next][t].step = next
         /\ [task EXCEPT ![t].step = next][t].msg = task[t].msg
         /\ \A u \in Task \ {t} : [task EXCEPT ![t].step = next][u] = task[u]
<1>1. task[t] \in TaskState /\ task[t].msg \in Message
  BY DEF TypeInv, TaskState
<1> DEFINE e == [task[t] EXCEPT !.step = next]
<1>2. e \in TaskState /\ e.step = next /\ e.msg = task[t].msg
  BY <1>1 DEF TaskState
<1>3. [task EXCEPT ![t].step = next] = [task EXCEPT ![t] = e]
  OBVIOUS
<1> HIDE DEF e
<1>4. [task EXCEPT ![t] = e] \in [Task -> TaskState] /\ [task EXCEPT ![t] = e][t] = e
      /\ \A u \in Task \ {t} : [task EXCEPT ![t] = e][u] = task[u]
  BY <1>2 DEF TypeInv
<1> QED BY <1>2, <1>3, <1>4

LEMMA PollingOK == Polling \in TaskState
BY DEF Polling, TaskState

LEMMA TaskTypes ==
  ASSUME TypeInv, NEW t \in Task, Creation(t) \/ Loop(t)
  PROVE  TypeInv'
<1>1. ASSUME CreateTask(t) \/ Publish(t) PROVE TypeInv'
  BY <1>1 DEF TypeInv, CreateTask, Publish
<1>2. ASSUME Receive(t) PROVE TypeInv'
  <2>1. task' \in [Task -> TaskState]
    BY <1>2, ReceiveFacts DEF TypeInv
  <2>2. latest' \in [Task -> [Sender -> 0 .. MaxSends]]
    <3> DEFINE m == Contents(ring[t])[1]
    <3>1. latest' = [latest EXCEPT ![t][m.from] = m.serial] /\ m.serial \in 1 .. MaxSends
      BY <1>2, ReceiveFacts
    <3> HIDE DEF m
    <3>2. m.serial \in 0 .. MaxSends
      BY <3>1, MessagingAssumption
    <3> QED BY <3>1, <3>2 DEF TypeInv
  <2>3. DOMAIN ring' = Task /\ \A u \in Task : MessageRing(ring'[u])
    BY <1>2, ReceiveFacts DEF TypeInv
  <2> QED BY <1>2, <2>1, <2>2, <2>3 DEF TypeInv, Receive
<1>3. ASSUME PollNothing(t) PROVE TypeInv'
  BY <1>3 DEF TypeInv, PollNothing, vars
<1>4. ASSUME Dispatch(t) PROVE TypeInv'
  <2>1. task[t].step # "poll" /\ (task' = [task EXCEPT ![t].step = "count"] \/ task' = task)
    BY <1>4 DEF Dispatch
  <2>2. task' \in [Task -> TaskState]
    <3>1. [task EXCEPT ![t].step = "count"] \in [Task -> TaskState]
      BY <2>1, LoopFacts
    <3> QED BY <2>1, <3>1 DEF TypeInv
  <2>3. crashed' \in BOOLEAN
    BY <1>4 DEF TypeInv, Dispatch
  <2> QED BY <1>4, <2>2, <2>3 DEF TypeInv, Dispatch
<1>5. ASSUME Count(t) PROVE TypeInv'
  <2>1. task[t].step # "poll" /\ task' = [task EXCEPT ![t].step = "free"]
    BY <1>5 DEF Count
  <2>2. task' \in [Task -> TaskState]
    BY <2>1, LoopFacts
  <2>3. recv' \in [Task -> Nat]
    BY <1>5 DEF TypeInv, Count
  <2> QED BY <1>5, <2>2, <2>3 DEF TypeInv, Count
<1>6. ASSUME Free(t) PROVE TypeInv'
  <2>1. task' \in [Task -> TaskState]
    BY <1>6, PollingOK DEF TypeInv, Free
  <2> QED BY <1>6, <2>1 DEF TypeInv, Free
<1> QED BY <1>1, <1>2, <1>3, <1>4, <1>5, <1>6 DEF Creation, Loop

LEMMA TypeKept == TypeInv /\ [Next]_vars => TypeInv'
<1>1. ASSUME TypeInv, UNCHANGED vars PROVE TypeInv'
  BY <1>1 DEF TypeInv, vars
<1> QED BY <1>1, SenderTypes, TaskTypes DEF Next

\* AdmMessaging's type invariant, which says that what is under way is a
\* message and that every queue holds messages.
THEOREM MessagingTypes == Spec => []TypeOK
<1>1. TypeInv => TypeOK
  <2> SUFFICES ASSUME TypeInv PROVE TypeOK
    OBVIOUS
  <2>1. ASSUME NEW s \in Sender
        PROVE  /\ send[s].step \in {"idle", "dup", "send"}
               /\ send[s].step = "send" => send[s].msg \in Message /\ send[s].dst \in Task
    BY DEF TypeInv, SenderState, Draft, Message
  <2>2. ASSUME NEW t \in Task
        PROVE  /\ task[t].step \in {"poll", "dispatch", "count", "free"}
               /\ task[t].step # "poll" => task[t].msg \in Message
               /\ Contents(ring[t]) \in Seq(Message)
    BY RingFacts DEF TypeInv, TaskState
  <2> QED BY <2>1, <2>2 DEF TypeInv, TypeOK
<1> QED BY <1>1, TypeInitially, TypeKept, PTL DEF Spec

-----------------------------------------------------------------------------
(* The order of the messages of a sender *)

LEMMA NewestType ==
  ASSUME TypeInv, NEW s \in Sender, NEW t \in Task
  PROVE  /\ sent[s][t] \in Int /\ latest[t][s] \in Int /\ Newest(s, t) \in Int
         /\ Newest(s, t) <= sent[s][t]
         /\ ring[t].uxMessagesWaiting \in Nat
         /\ \A i \in 1 .. ring[t].uxMessagesWaiting :
              Contents(ring[t])[i].serial \in Int
<1>1. sent[s][t] \in 0 .. MaxSends /\ latest[t][s] \in 0 .. MaxSends
  BY DEF TypeInv
<1>2. sent[s][t] \in Int /\ latest[t][s] \in Int
  BY <1>1, MessagingAssumption
<1>3. Newest(s, t) \in Int /\ Newest(s, t) <= sent[s][t]
  BY <1>2 DEF Newest
<1>4. ring[t].uxMessagesWaiting \in Nat
  BY RingFacts, MessagingAssumption DEF TypeInv
<1>5. \A i \in 1 .. ring[t].uxMessagesWaiting : Contents(ring[t])[i] \in Message
  BY RingFacts DEF TypeInv
<1>6. \A m \in Message : m.serial \in Int
  BY MessagingAssumption DEF Message
<1> QED BY <1>2, <1>3, <1>4, <1>5, <1>6

\* A step that leaves the queue alone, and lets the sender go no step back.
LEMMA QueueOrderKept ==
  ASSUME TypeInv, TypeInv', NEW s \in Sender, NEW t \in Task, QueueOrder(s, t),
         ring'[t] = ring[t], latest'[t][s] = latest[t][s],
         Newest(s, t) <= Newest(s, t)'
  PROVE  QueueOrder(s, t)'
<1>0. sent'[s][t] \in 0 .. MaxSends
  BY DEF TypeInv
<1>1. /\ Newest(s, t) \in Int /\ Newest(s, t)' \in Int /\ latest[t][s] \in Int
      /\ \A i \in 1 .. ring[t].uxMessagesWaiting :
           Contents(ring[t])[i].serial \in Int
  BY <1>0, NewestType, MessagingAssumption DEF Newest
<1> DEFINE old == Newest(s, t)
           new == Newest(s, t)'
<1>2. Contents(ring[t])' = Contents(ring[t])
  BY DEF Contents, QueuedSlot
<1> HIDE DEF old, new
<1> QED BY <1>1, <1>2 DEF QueueOrder, old, new

\* Where the sender does not pass its message to t on, nothing moves.
LEMMA SenderOrder ==
  ASSUME TypeInv, TypeInv', OrderInv, NEW s \in Sender, Sending(s)
  PROVE  OrderInv'
<1> SUFFICES ASSUME NEW u \in Sender, NEW v \in Task
             PROVE  HandOrder(u, v)' /\ QueueOrder(u, v)'
  BY DEF OrderInv
<1>1. HandOrder(u, v) /\ QueueOrder(u, v)
  BY DEF OrderInv
<1>2. sent[u][v] \in Int /\ sent'[u][v] \in Int
  <2>1. sent[u][v] \in 0 .. MaxSends /\ sent'[u][v] \in 0 .. MaxSends
    BY DEF TypeInv
  <2> QED BY <2>1, MessagingAssumption
<1>3. ASSUME NEW t \in Task, NEW id \in MsgId, SendCall(s, t, id)
      PROVE  HandOrder(u, v)' /\ QueueOrder(u, v)'
  <2>1. /\ sent'[u][v] = IF u = s /\ v = t THEN sent[u][v] + 1 ELSE sent[u][v]
        /\ ~ Busy(s) /\ ring' = ring /\ latest' = latest
    BY <1>3 DEF SendCall, TypeInv, Busy
  <2> DEFINE m == [msg_id |-> id, param |-> NULL, from |-> s,
                   serial |-> sent[s][t] + 1]
  <2>2. /\ u # s => send'[u] = send[u]
        /\ u = s => \/ send'[u] = send[u]
                    \/ send'[u] = [step |-> "dup", dst |-> t, msg |-> m]
    <3> HIDE DEF m
    <3>1. send' = send \/ send' = [send EXCEPT ![s] = [step |-> "dup", dst |-> t, msg |-> m]]
      BY <1>3 DEF SendCall, m
    <3> QED BY <3>1 DEF TypeInv
  <2>3. m.from = s /\ m.serial = sent[s][t] + 1
    OBVIOUS
  <2> HIDE DEF m
  <2>4. HandOrder(u, v)'
    BY <1>1, <2>1, <2>2, <2>3 DEF HandOrder, Busy
  <2>5. Newest(u, v) <= Newest(u, v)'
    BY <1>2, <2>1, <2>2 DEF Newest, Busy
  <2> QED BY <1>1, <2>1, <2>4, <2>5, QueueOrderKept
<1>4. ASSUME NEW b \in Block, Dup(s, b)
      PROVE  HandOrder(u, v)' /\ QueueOrder(u, v)'
  <2> DEFINE m == [send[s].msg EXCEPT !.param = b]
             e == [step |-> "send", dst |-> send[s].dst, msg |-> m]
  <2>1. /\ send' = [send EXCEPT ![s] = e]
        /\ m.from = send[s].msg.from /\ m.serial = send[s].msg.serial
    BY <1>4, DupFacts
  <2>2. e.step = "send" /\ e.dst = send[s].dst /\ e.msg = m
    OBVIOUS
  <2> HIDE DEF m, e
  <2>3. /\ Busy(u)' <=> Busy(u)
        /\ send'[u].dst = send[u].dst
        /\ send'[u].msg.from = send[u].msg.from
        /\ send'[u].msg.serial = send[u].msg.serial
    BY <1>4, <2>1, <2>2 DEF TypeInv, Dup, Busy
  <2>4. sent' = sent /\ ring' = ring /\ latest' = latest
    BY <1>4 DEF Dup
  <2>5. HandOrder(u, v)' /\ Newest(u, v)' = Newest(u, v)
    BY <1>1, <2>3, <2>4 DEF HandOrder, Newest
  <2> QED BY <1>1, <2>4, <2>5, NewestType, QueueOrderKept
<1>5. ASSUME DupFails(s)
      PROVE  HandOrder(u, v)' /\ QueueOrder(u, v)'
  <2>1. /\ send'[u] = IF u = s THEN Idle ELSE send[u]
        /\ sent' = sent /\ ring' = ring /\ latest' = latest
    BY <1>5 DEF DupFails, TypeInv
  <2>2. HandOrder(u, v)' /\ Newest(u, v) <= Newest(u, v)'
    BY <1>1, <1>2, <2>1 DEF HandOrder, Newest, Busy, Idle
  <2> QED BY <1>1, <2>1, <2>2, QueueOrderKept
<1>6. ASSUME QueueSend(s)
      PROVE  HandOrder(u, v)' /\ QueueOrder(u, v)'
  <2> DEFINE t == send[s].dst
             m == send[s].msg
             n == ring[t].uxMessagesWaiting
             q == adm_queue_copy_data2list(ring[t], m, ADM_QUEUE_INSERT_TO_BACK)
  <2>1. /\ send[s].step = "send" /\ t \in Task /\ m \in Message
        /\ send' = [send EXCEPT ![s] = Idle] /\ sent' = sent /\ latest' = latest
        /\ \/ ring' = ring
           \/ n < Length /\ ring' = [ring EXCEPT ![t] = q]
    BY <1>6, QueueSendCases
  <2>2. send'[u] = IF u = s THEN Idle ELSE send[u]
    BY <2>1 DEF TypeInv
  <2>3. HandOrder(u, v)' /\ Newest(u, v) <= Newest(u, v)'
    BY <1>1, <1>2, <2>1, <2>2 DEF HandOrder, Newest, Busy, Idle
  <2>4. ASSUME v # t \/ ring' = ring PROVE QueueOrder(u, v)'
    <3>1. ring'[v] = ring[v]
      BY <2>1, <2>4 DEF TypeInv
    <3> QED BY <1>1, <2>1, <2>3, <3>1, QueueOrderKept
  <2>5. ASSUME v = t, n < Length, ring' = [ring EXCEPT ![t] = q]
        PROVE  QueueOrder(u, v)'
    <3>1. /\ q.uxMessagesWaiting = n + 1 /\ Contents(q)[n + 1] = m
          /\ \A i \in 1 .. n : Contents(q)[i] = Contents(ring[v])[i]
      BY <2>1, <2>5, MessageAppended DEF TypeInv
    <3>2. ring'[v] = q
      BY <2>1, <2>5 DEF TypeInv
    <3> HIDE DEF q
    <3>3. /\ ring[v]'.uxMessagesWaiting = n + 1
          /\ Contents(ring[v])' = Contents(q)
      BY <3>1, <3>2 DEF Contents, QueuedSlot
    <3>4. /\ n \in Nat /\ latest[v][u] \in Int /\ Newest(u, v) \in Int
          /\ Newest(u, v)' \in Int
          /\ \A i \in 1 .. n : Contents(ring[v])[i].serial \in Int
      BY <1>2, <2>5, NewestType DEF Newest
    <3>5. ASSUME m.from = u
          PROVE  /\ u = s /\ m.serial \in Int
                 /\ Newest(u, v) < m.serial /\ m.serial = Newest(u, v)'
      <4>1. m.from = s /\ m.serial = sent[s][v]
        BY <2>1, <2>5 DEF OrderInv, HandOrder, Busy
      <4>2. u = s
        BY <3>5, <4>1
      <4> QED BY <1>2, <2>1, <2>2, <2>5, <3>5, <4>1, <4>2 DEF Newest, Busy, Idle
    <3>0. n = ring[v].uxMessagesWaiting
      BY <2>5
    <3> HIDE DEF m, n, t
    <3>6. /\ latest'[v][u] <= Newest(u, v)'
          /\ \A i \in 1 .. n + 1 : Contents(q)[i].from = u =>
               /\ latest'[v][u] < Contents(q)[i].serial
               /\ Contents(q)[i].serial <= Newest(u, v)'
      <4>1. /\ latest'[v][u] = latest[v][u] /\ Newest(u, v) <= Newest(u, v)'
            /\ latest[v][u] <= Newest(u, v)
            /\ \A i \in 1 .. n : Contents(ring[v])[i].from = u =>
                 /\ latest[v][u] < Contents(ring[v])[i].serial
                 /\ Contents(ring[v])[i].serial <= Newest(u, v)
        BY <1>1, <2>1, <2>3, <3>0 DEF QueueOrder
      <4> DEFINE old == Newest(u, v)
                 new == Newest(u, v)'
      <4> HIDE DEF old, new
      <4>2. latest'[v][u] <= new
        BY <3>4, <4>1 DEF old, new
      <4>3. ASSUME NEW i \in 1 .. n + 1, Contents(q)[i].from = u
            PROVE  latest'[v][u] < Contents(q)[i].serial /\ Contents(q)[i].serial <= new
        <5>1. CASE i = n + 1
          BY <3>1, <3>4, <3>5, <4>1, <4>3, <5>1 DEF old, new
        <5>2. CASE i # n + 1
          <6>1. i \in 1 .. n
            BY <3>4, <5>2
          <6> QED BY <3>1, <3>4, <4>1, <4>3, <6>1 DEF old, new
        <5> QED BY <5>1, <5>2
      <4> QED BY <4>2, <4>3 DEF new
    <3>7. \A i, j \in 1 .. n + 1 :
            i < j /\ Contents(q)[i].from = u /\ Contents(q)[j].from = u
              => Contents(q)[i].serial < Contents(q)[j].serial
      <4> SUFFICES ASSUME NEW i \in 1 .. n + 1, NEW j \in 1 .. n + 1, i < j,
                          Contents(q)[i].from = u, Contents(q)[j].from = u
                   PROVE  Contents(q)[i].serial < Contents(q)[j].serial
        OBVIOUS
      <4> DEFINE old == Newest(u, v)
      <4> HIDE DEF old
      <4>1. i \in 1 .. n /\ Contents(q)[i] = Contents(ring[v])[i]
        BY <3>1, <3>4
      <4>2. /\ \A k \in 1 .. n : Contents(ring[v])[k].from = u =>
                 Contents(ring[v])[k].serial <= old
            /\ \A k, l \in 1 .. n :
                 k < l /\ Contents(ring[v])[k].from = u /\ Contents(ring[v])[l].from = u
                   => Contents(ring[v])[k].serial < Contents(ring[v])[l].serial
        BY <1>1, <3>0 DEF QueueOrder, old
      <4>3. CASE j = n + 1
        BY <3>1, <3>4, <3>5, <4>1, <4>2, <4>3 DEF old
      <4>4. CASE j # n + 1
        <5>1. j \in 1 .. n
          BY <3>4, <4>4
        <5> QED BY <3>1, <4>1, <4>2, <5>1
      <4> QED BY <4>3, <4>4
    <3> QED BY <2>5, <3>3, <3>6, <3>7 DEF QueueOrder
  <2> QED BY <2>1, <2>3, <2>4, <2>5
<1> QED BY <1>3, <1>4, <1>5, <1>6 DEF Sending

\* A task that takes the first message of its queue.
LEMMA TaskOrder ==
  ASSUME TypeInv, TypeInv', OrderInv, NEW t \in Task, Creation(t) \/ Loop(t)
  PROVE  OrderInv'
<1> SUFFICES ASSUME NEW u \in Sender, NEW v \in Task
             PROVE  HandOrder(u, v)' /\ QueueOrder(u, v)'
  BY DEF OrderInv
<1>1. HandOrder(u, v) /\ QueueOrder(u, v)
  BY DEF OrderInv
<1>2. send' = send /\ sent' = sent
  BY DEF Creation, Loop, CreateTask, Publish, Receive, PollNothing, vars,
         Dispatch, Count, Free
<1>3. HandOrder(u, v)' /\ Newest(u, v)' = Newest(u, v)
  BY <1>1, <1>2 DEF HandOrder, Newest, Busy
<1>4. /\ latest[v][u] \in Int /\ Newest(u, v) \in Int
      /\ ring[v].uxMessagesWaiting \in Nat
      /\ \A i \in 1 .. ring[v].uxMessagesWaiting :
           Contents(ring[v])[i].serial \in Int
  BY NewestType
<1>5. ASSUME ~ Receive(t) \/ v # t PROVE QueueOrder(u, v)'
  <2>1. ring'[v] = ring[v] /\ latest'[v] = latest[v]
    BY <1>5 DEF Creation, Loop, CreateTask, Publish, Receive, PollNothing, vars,
                Dispatch, Count, Free, TypeInv
  <2> QED BY <1>1, <1>3, <1>4, <2>1, QueueOrderKept
<1>6. ASSUME Receive(v) PROVE QueueOrder(u, v)'
  <2> DEFINE m == Contents(ring[v])[1]
             n == ring[v].uxMessagesWaiting
             q == Received(ring[v])
  <2>1. /\ n > 0 /\ m.from \in Sender
        /\ latest' = [latest EXCEPT ![v][m.from] = m.serial]
        /\ ring' = [ring EXCEPT ![v] = q]
        /\ q.uxMessagesWaiting = n - 1
        /\ \A i \in 1 .. n - 1 : Contents(q)[i] = Contents(ring[v])[i + 1]
    BY <1>6, ReceiveFacts
  <2>2. ring'[v] = q
    BY <2>1 DEF TypeInv
  <2>3. latest'[v][u] = IF u = m.from THEN m.serial ELSE latest[v][u]
    <3> HIDE DEF m
    <3> QED BY <2>1 DEF TypeInv
  <2> HIDE DEF q
  <2>4. ring[v]'.uxMessagesWaiting = n - 1 /\ Contents(ring[v])' = Contents(q)
    <3>1. Contents(ring[v])' = Contents(q)
      BY <2>2 DEF Contents, QueuedSlot
    <3> QED BY <2>1, <2>2, <3>1
  <2> DEFINE C(i) == Contents(ring[v])[i]
             new == Newest(u, v)
  <2>5. /\ latest[v][u] <= new
        /\ \A i \in 1 .. n : C(i).from = u => latest[v][u] < C(i).serial /\ C(i).serial <= new
        /\ \A i, j \in 1 .. n : i < j /\ C(i).from = u /\ C(j).from = u
             => C(i).serial < C(j).serial
    BY <1>1 DEF QueueOrder
  <2>6. /\ n \in Nat /\ new \in Int /\ latest[v][u] \in Int
        /\ \A i \in 1 .. n : C(i).serial \in Int
    BY <1>4
  <2>7. m = C(1) /\ \A i \in 1 .. n - 1 : Contents(q)[i] = C(i + 1)
    BY <2>1
  <2>8. Newest(u, v)' = new
    BY <1>3
  <2> HIDE DEF C, new, m, n
  <2>9. 1 \in 1 .. n /\ \A i \in 1 .. n - 1 : i + 1 \in 1 .. n /\ 1 < i + 1
    BY <2>1, <2>6
  <2>10. latest'[v][u] <= new
    BY <2>3, <2>5, <2>6, <2>7, <2>9
  <2>11. \A i \in 1 .. n - 1 : Contents(q)[i].from = u =>
           latest'[v][u] < Contents(q)[i].serial /\ Contents(q)[i].serial <= new
    BY <2>3, <2>5, <2>6, <2>7, <2>9
  <2>12. \A i, j \in 1 .. n - 1 :
           i < j /\ Contents(q)[i].from = u /\ Contents(q)[j].from = u
             => Contents(q)[i].serial < Contents(q)[j].serial
    <3> SUFFICES ASSUME NEW i \in 1 .. n - 1, NEW j \in 1 .. n - 1, i < j,
                        Contents(q)[i].from = u, Contents(q)[j].from = u
                 PROVE  Contents(q)[i].serial < Contents(q)[j].serial
      OBVIOUS
    <3>1. i + 1 \in 1 .. n /\ j + 1 \in 1 .. n /\ i + 1 < j + 1
      BY <2>6
    <3> QED BY <2>5, <2>7, <3>1
  <2> QED BY <2>4, <2>8, <2>10, <2>11, <2>12 DEF QueueOrder
<1> QED BY <1>3, <1>5, <1>6

LEMMA OrderKept ==
  TypeInv /\ TypeInv' /\ OrderInv /\ [Next]_vars => OrderInv'
<1>1. ASSUME OrderInv, UNCHANGED vars PROVE OrderInv'
  <2>1. \A t \in Task : Contents(ring[t])' = Contents(ring[t])
    BY <1>1 DEF Contents, QueuedSlot, vars
  <2>2. \A s \in Sender, t \in Task : Newest(s, t)' = Newest(s, t)
    BY <1>1 DEF Newest, Busy, vars
  <2>3. \A s \in Sender, t \in Task : HandOrder(s, t)'
    BY <1>1 DEF OrderInv, HandOrder, Busy, vars
  <2>4. \A s \in Sender, t \in Task : QueueOrder(s, t)'
    BY <1>1, <2>1, <2>2 DEF OrderInv, QueueOrder, vars
  <2> QED BY <2>3, <2>4 DEF OrderInv
<1> QED BY <1>1, SenderOrder, TaskOrder DEF Next

LEMMA OrderInitially == Init => OrderInv
<1> SUFFICES ASSUME Init, NEW s \in Sender, NEW t \in Task
             PROVE  HandOrder(s, t) /\ QueueOrder(s, t)
  BY DEF OrderInv
<1>1. /\ ~ Busy(s) /\ sent[s][t] = 0 /\ latest[t][s] = 0
      /\ ring[t].uxMessagesWaiting = 0
  BY RingCreated DEF Init, Busy, Idle
<1> QED BY <1>1 DEF HandOrder, QueueOrder, Newest

\* A task gets the messages of one sender in the order in which they were
\* sent: Receive takes the oldest of the queue, which is newer than what came
\* before.
THEOREM InSendingOrder == Spec => InOrder
<1> DEFINE Step == \A t \in Task, s \in Sender :
                     latest'[t][s] # latest[t][s] => latest'[t][s] > latest[t][s]
<1>1. ASSUME TypeInv, OrderInv, [Next]_vars PROVE Step
  <2> SUFFICES ASSUME NEW t \in Task, NEW s \in Sender,
                      latest'[t][s] # latest[t][s]
               PROVE  latest'[t][s] > latest[t][s]
    OBVIOUS
  <2>1. Receive(t)
    <3>1. ASSUME NEW u \in Sender, Sending(u) PROVE latest' = latest
      BY <1>1, <3>1, QueueSendCases DEF Sending, SendCall, Dup, DupFails
    <3>2. ASSUME NEW v \in Task, Creation(v) \/ Loop(v), ~ (Receive(v) /\ v = t)
          PROVE  latest'[t] = latest[t]
      <4>1. CASE Receive(v) /\ v # t
        <5>1. latest' = [latest EXCEPT ![v] = latest'[v]]
          BY <1>1, <4>1 DEF Receive, TypeInv
        <5> QED BY <1>1, <4>1, <5>1 DEF TypeInv
      <4>2. CASE ~ Receive(v)
        BY <3>2, <4>2 DEF Creation, Loop, CreateTask, Publish, PollNothing, vars,
                          Dispatch, Count, Free
      <4> QED BY <3>2, <4>1, <4>2
    <3> QED BY <1>1, <3>1, <3>2 DEF Next, vars
  <2> DEFINE m == Contents(ring[t])[1]
  <2>2. /\ ring[t].uxMessagesWaiting > 0 /\ m.from \in Sender
        /\ latest' = [latest EXCEPT ![t][m.from] = m.serial]
    BY <1>1, <2>1, ReceiveFacts
  <2>3. 1 \in 1 .. ring[t].uxMessagesWaiting
    BY <1>1, <2>2, NewestType
  <2>4. latest[t][m.from] < m.serial /\ m.serial \in Int /\ latest[t][m.from] \in Int
    BY <1>1, <2>2, <2>3, NewestType DEF OrderInv, QueueOrder
  <2> HIDE DEF m
  <2>5. s = m.from /\ latest'[t][s] = m.serial
    BY <1>1, <2>2 DEF TypeInv
  <2> QED BY <2>4, <2>5
<1>2. TypeInv /\ OrderInv /\ [Next]_vars => [Step]_vars
  BY <1>1
<1> HIDE DEF Step
<1>3. Spec => [][Step]_vars
  BY <1>2, TypeInitially, TypeKept, OrderInitially, OrderKept, PTL DEF Spec
<1> QED BY <1>3 DEF InOrder, Step

-----------------------------------------------------------------------------
(* The owners of the blocks *)

LEMMA References3 ==
  ASSUME NEW b \in Block, Sole(PlacesOf(b), SendersOf(b), TasksOf(b))
  PROVE  Cardinality(References(b)) =
           IF PlacesOf(b) \cup SendersOf(b) \cup TasksOf(b) # {} THEN 1 ELSE 0
<1> DEFINE P == PlacesOf(b)
           S == SendersOf(b)
           T == TasksOf(b)
<1>1. References(b) = ({"place"} \X P) \cup ({"sender"} \X S) \cup ({"task"} \X T)
  BY DEF References, PlacesOf, SendersOf, TasksOf
<1>2. Sole(P, S, T)
  OBVIOUS
<1> HIDE DEF P, S, T
<1>3. CASE P \cup S \cup T = {}
  <2>1. References(b) = {}
    BY <1>1, <1>3
  <2> QED BY <1>3, <2>1, FS_EmptySet DEF P, S, T
<1>4. CASE P \cup S \cup T # {}
  <2>1. PICK x : x \in References(b)
    <3>1. PICK y : y \in P \cup S \cup T
      BY <1>4
    <3>2. \/ <<"place", y>> \in References(b)
          \/ <<"sender", y>> \in References(b)
          \/ <<"task", y>> \in References(b)
      BY <1>1, <3>1
    <3> QED BY <3>2
  <2>2. \A y \in References(b) : y = x
    BY <1>1, <1>2, <2>1 DEF Sole, AtMostOne
  <2>3. References(b) = {x}
    BY <2>1, <2>2
  <2> QED BY <1>4, <2>3, FS_Singleton DEF P, S, T
<1> QED BY <1>3, <1>4

LEMMA OwnersInitially == Init => OwnerInv
<1> SUFFICES ASSUME Init, NEW b \in Block
             PROVE  PlacesOf(b) = {} /\ SendersOf(b) = {} /\ TasksOf(b) = {}
  BY DEF OwnerInv, Sole, AtMostOne, Init
<1>1. \A t \in Task : ring[t].uxMessagesWaiting = 0
  BY RingCreated DEF Init
<1>2. \A n \in 1 .. Length : ~ (n <= 0)
  BY MessagingAssumption
<1>3. HeldBySender = {} /\ HeldByTask = {}
  BY DEF Init, HeldBySender, HeldByTask, Idle, Polling
<1> QED BY <1>1, <1>2, <1>3 DEF PlacesOf, SendersOf, TasksOf

\* What the invariant says of one block is kept where its owners are.
LEMMA OwnersKeptAt ==
  ASSUME OwnerInv, NEW b \in Block,
         PlacesOf(b)' = PlacesOf(b), SendersOf(b)' = SendersOf(b),
         TasksOf(b)' = TasksOf(b),
         b \in heap' \ leaked' <=> b \in heap \ leaked
  PROVE  /\ Sole(PlacesOf(b), SendersOf(b), TasksOf(b))'
         /\ (PlacesOf(b) \cup SendersOf(b) \cup TasksOf(b))' # {} <=> b \in heap' \ leaked'
<1>1. Sole(PlacesOf(b), SendersOf(b), TasksOf(b))
  BY DEF OwnerInv
<1>2. Sole(PlacesOf(b), SendersOf(b), TasksOf(b))'
  BY <1>1 DEF Sole, AtMostOne
<1> QED BY <1>2 DEF OwnerInv

LEMMA SenderOwners ==
  ASSUME TypeInv, TypeInv', OwnerInv, NEW s \in Sender, Sending(s)
  PROVE  OwnerInv'
<1> DEFINE OK(b) == /\ Sole(PlacesOf(b), SendersOf(b), TasksOf(b))'
                    /\ (PlacesOf(b) \cup SendersOf(b) \cup TasksOf(b))' # {}
                         <=> b \in heap' \ leaked'
<1>0. SUFFICES leaked' \subseteq heap' /\ \A b \in Block : OK(b)
  BY DEF OwnerInv
<1>1. task' = task
  BY QueueSendCases DEF Sending, SendCall, Dup, DupFails
<1>2. \A b \in Block : TasksOf(b)' = TasksOf(b)
  BY <1>1 DEF TasksOf, HeldByTask
<1>3. ring' = ring => \A b \in Block : PlacesOf(b)' = PlacesOf(b)
  BY DEF PlacesOf, Contents, QueuedSlot
<1>4. ASSUME NEW t \in Task, NEW id \in MsgId, SendCall(s, t, id)
      PROVE  leaked' \subseteq heap' /\ \A b \in Block : OK(b)
  <2>1. /\ ring' = ring /\ heap' = heap /\ leaked' = leaked
        /\ send[s].step # "send" /\ send'[s].step # "send"
        /\ \A u \in Sender \ {s} : send'[u] = send[u]
    BY <1>4 DEF SendCall, TypeInv
  <2>2. \A b \in Block : SendersOf(b)' = SendersOf(b)
    BY <2>1 DEF SendersOf, HeldBySender
  <2> QED BY <1>2, <1>3, <2>1, <2>2, OwnersKeptAt DEF OwnerInv
<1>5. ASSUME NEW c \in Block, Dup(s, c)
      PROVE  leaked' \subseteq heap' /\ \A b \in Block : OK(b)
  <2> DEFINE m == [send[s].msg EXCEPT !.param = c]
             e == [step |-> "send", dst |-> send[s].dst, msg |-> m]
  <2>1. send' = [send EXCEPT ![s] = e] /\ m.param = c
    BY <1>5, DupFacts
  <2>2. e.step = "send" /\ e.msg = m
    OBVIOUS
  <2> HIDE DEF e, m
  <2>3. /\ send'[s] = e /\ \A u \in Sender \ {s} : send'[u] = send[u]
        /\ send[s].step # "send"
        /\ ring' = ring /\ heap' = heap \cup {c} /\ leaked' = leaked /\ c \notin heap
    BY <1>5, <2>1 DEF Dup, TypeInv
  <2>4. SendersOf(c)' = {s} /\ PlacesOf(c) = {} /\ TasksOf(c) = {}
    <3>1. SendersOf(c) = {} /\ PlacesOf(c) = {} /\ TasksOf(c) = {}
      BY <2>3 DEF OwnerInv
    <3> QED BY <2>1, <2>2, <2>3, <3>1 DEF SendersOf, HeldBySender
  <2>5. OK(c)
    BY <1>2, <1>3, <2>3, <2>4 DEF Sole, AtMostOne, OwnerInv
  <2>6. \A b \in Block \ {c} : SendersOf(b)' = SendersOf(b)
    BY <2>1, <2>2, <2>3 DEF SendersOf, HeldBySender
  <2>7. \A b \in Block \ {c} : OK(b)
    BY <1>2, <1>3, <2>3, <2>6, OwnersKeptAt
  <2> QED BY <2>3, <2>5, <2>7 DEF OwnerInv
<1>6. ASSUME DupFails(s)
      PROVE  leaked' \subseteq heap' /\ \A b \in Block : OK(b)
  <2>1. /\ ring' = ring /\ heap' = heap /\ leaked' = leaked
        /\ send[s].step # "send" /\ send'[s].step # "send"
        /\ \A u \in Sender \ {s} : send'[u] = send[u]
    BY <1>6 DEF DupFails, TypeInv, Idle
  <2>2. \A b \in Block : SendersOf(b)' = SendersOf(b)
    BY <2>1 DEF SendersOf, HeldBySender
  <2> QED BY <1>2, <1>3, <2>1, <2>2, OwnersKeptAt DEF OwnerInv
<1>7. ASSUME QueueSend(s)
      PROVE  leaked' \subseteq heap' /\ \A b \in Block : OK(b)
  <2> DEFINE t == send[s].dst
             m == send[s].msg
             n == ring[t].uxMessagesWaiting
             q == adm_queue_copy_data2list(ring[t], m, ADM_QUEUE_INSERT_TO_BACK)
  <2>1. /\ send[s].step = "send" /\ t \in Task /\ m \in Message
        /\ send' = [send EXCEPT ![s] = Idle]
        /\ heap' = heap
    BY <1>7, QueueSendCases
  <2>3. PICK c \in Block : c = m.param
    BY <2>1 DEF Message
  <2>2. \/ n < Length /\ ring' = [ring EXCEPT ![t] = q] /\ leaked' = leaked
        \/ ring' = ring /\ leaked' = leaked \cup {c}
    BY <1>7, <2>3, QueueSendCases
  <2>4. SendersOf(c) = {s} /\ PlacesOf(c) = {} /\ TasksOf(c) = {} /\ c \in heap \ leaked
    <3>1. s \in SendersOf(c)
      BY <2>1, <2>3 DEF SendersOf, HeldBySender
    <3> QED BY <2>3, <3>1 DEF OwnerInv, Sole, AtMostOne
  <2>5. \A b \in Block : SendersOf(b)' = SendersOf(b) \ {s}
    <3>1. \A u \in Sender : send'[u] = IF u = s THEN Idle ELSE send[u]
      BY <2>1 DEF TypeInv
    <3> QED BY <3>1 DEF SendersOf, HeldBySender, Idle
  <2>6. \A b \in Block \ {c} : s \notin SendersOf(b)
    BY <2>3 DEF SendersOf
  <2>7. \A b \in Block \ {c} : SendersOf(b)' = SendersOf(b)
    BY <2>5, <2>6
  <2>8. SendersOf(c)' = {}
    BY <2>4, <2>5
  <2>9. ASSUME ring' = ring, leaked' = leaked \cup {c}
        PROVE  leaked' \subseteq heap' /\ \A b \in Block : OK(b)
    <3>1. OK(c)
      BY <1>2, <1>3, <2>1, <2>4, <2>8, <2>9 DEF Sole, AtMostOne
    <3>2. \A b \in Block \ {c} : OK(b)
      BY <1>2, <1>3, <2>1, <2>7, <2>9, OwnersKeptAt
    <3> QED BY <2>1, <2>4, <2>9, <3>1, <3>2 DEF OwnerInv
  <2>10. ASSUME n < Length, ring' = [ring EXCEPT ![t] = q], leaked' = leaked
         PROVE  leaked' \subseteq heap' /\ \A b \in Block : OK(b)
    <3>1. /\ q.uxMessagesWaiting = n + 1 /\ Contents(q)[n + 1] = m
          /\ \A i \in 1 .. n : Contents(q)[i] = Contents(ring[t])[i]
      BY <2>1, <2>10, MessageAppended DEF TypeInv
    <3>2. n \in Nat /\ n + 1 \in 1 .. Length
      BY <2>1, <2>10, RingFacts, MessagingAssumption DEF TypeInv
    <3>3. ring'[t] = q /\ \A u \in Task \ {t} : ring'[u] = ring[u]
      BY <2>1, <2>10 DEF TypeInv
    <3> HIDE DEF q
    <3>4. /\ ring'[t].uxMessagesWaiting = n + 1
          /\ \A u \in Task \ {t} :
               /\ ring'[u].uxMessagesWaiting = ring[u].uxMessagesWaiting
               /\ Contents(ring'[u]) = Contents(ring[u])
          /\ \A i \in 1 .. n : Contents(ring'[t])[i] = Contents(ring[t])[i]
          /\ Contents(ring'[t])[n + 1] = m
      BY <3>1, <3>3
    <3> HIDE DEF m, t
    <3>5. \A b \in Block, u \in Task, i \in 1 .. Length :
            <<u, i>> \in PlacesOf(b)' <=>
              <<u, i>> \in PlacesOf(b) \/ (b = c /\ u = t /\ i = n + 1)
      <4> SUFFICES ASSUME NEW b \in Block, NEW u \in Task, NEW i \in 1 .. Length
                   PROVE  <<u, i>> \in PlacesOf(b)' <=>
                            <<u, i>> \in PlacesOf(b) \/ (b = c /\ u = t /\ i = n + 1)
        OBVIOUS
      <4>1. /\ <<u, i>> \in PlacesOf(b)' <=>
                 i <= ring'[u].uxMessagesWaiting /\ Contents(ring'[u])[i].param = b
            /\ <<u, i>> \in PlacesOf(b) <=>
                 i <= ring[u].uxMessagesWaiting /\ Contents(ring[u])[i].param = b
        BY DEF PlacesOf
      <4>2. CASE u # t
        BY <3>4, <4>1, <4>2
      <4>3. CASE u = t
        <5>1. i \in Int /\ n \in Int /\ (i <= n => i \in 1 .. n)
          BY <3>2, MessagingAssumption
        <5>2. CASE i <= n
          BY <3>4, <4>1, <4>3, <5>1, <5>2 DEF n
        <5>3. CASE i = n + 1
          BY <2>3, <3>4, <4>1, <4>3, <5>1, <5>3 DEF n
        <5>4. CASE i > n + 1
          BY <3>4, <4>1, <4>3, <5>1, <5>4 DEF n
        <5> QED BY <5>1, <5>2, <5>3, <5>4
      <4> QED BY <4>2, <4>3
    <3>6. \A b \in Block : PlacesOf(b)' \subseteq Task \X (1 .. Length)
                        /\ PlacesOf(b) \subseteq Task \X (1 .. Length)
      BY DEF PlacesOf
    <3>7. PlacesOf(c)' = {<<t, n + 1>>}
      <4>1. \A p \in PlacesOf(c)' : p = <<t, n + 1>>
        BY <2>4, <3>5, <3>6
      <4>2. <<t, n + 1>> \in PlacesOf(c)'
        BY <2>1, <3>2, <3>5 DEF t
      <4> QED BY <4>1, <4>2
    <3>8. \A b \in Block \ {c} : PlacesOf(b)' = PlacesOf(b)
      <4> SUFFICES ASSUME NEW b \in Block \ {c} PROVE PlacesOf(b)' = PlacesOf(b)
        OBVIOUS
      <4>1. \A p \in Task \X (1 .. Length) : p \in PlacesOf(b)' <=> p \in PlacesOf(b)
        BY <3>5
      <4> QED BY <3>6, <4>1
    <3>9. OK(c)
      BY <1>2, <2>1, <2>4, <2>8, <2>10, <3>7 DEF Sole, AtMostOne
    <3>10. \A b \in Block \ {c} : OK(b)
      BY <1>2, <2>1, <2>7, <2>10, <3>8, OwnersKeptAt
    <3> QED BY <2>1, <2>10, <3>9, <3>10 DEF OwnerInv
  <2> QED BY <2>2, <2>9, <2>10
<1> QED BY <1>4, <1>5, <1>6, <1>7 DEF Sending

LEMMA TaskOwners ==
  ASSUME TypeInv, TypeInv', OwnerInv, NEW t \in Task, Creation(t) \/ Loop(t)
  PROVE  OwnerInv'
<1> DEFINE OK(b) == /\ Sole(PlacesOf(b), SendersOf(b), TasksOf(b))'
                    /\ (PlacesOf(b) \cup SendersOf(b) \cup TasksOf(b))' # {}
                         <=> b \in heap' \ leaked'
<1>0. SUFFICES leaked' \subseteq heap' /\ \A b \in Block : OK(b)
  BY DEF OwnerInv
<1>1. send' = send /\ leaked' = leaked
  BY DEF Creation, Loop, CreateTask, Publish, Receive, PollNothing, vars,
         Dispatch, Count, Free
<1>2. \A b \in Block : SendersOf(b)' = SendersOf(b)
  BY <1>1 DEF SendersOf, HeldBySender
<1>3. ring' = ring => \A b \in Block : PlacesOf(b)' = PlacesOf(b)
  BY DEF PlacesOf, Contents, QueuedSlot
<1>4. ASSUME ring' = ring, heap' = heap,
             \A u \in Task : /\ task'[u].msg = task[u].msg
                             /\ task[u].step = "poll" <=> task'[u].step = "poll"
      PROVE  leaked' \subseteq heap' /\ \A b \in Block : OK(b)
  <2>1. \A b \in Block : TasksOf(b)' = TasksOf(b)
    BY <1>4 DEF TasksOf, HeldByTask
  <2> QED BY <1>1, <1>2, <1>3, <1>4, <2>1, OwnersKeptAt DEF OwnerInv
<1>5. ASSUME CreateTask(t) \/ Publish(t) \/ PollNothing(t)
      PROVE  leaked' \subseteq heap' /\ \A b \in Block : OK(b)
  <2>1. ring' = ring /\ heap' = heap /\ task' = task
    BY <1>5 DEF CreateTask, Publish, PollNothing, vars
  <2> QED BY <1>4, <2>1
<1>6. ASSUME Dispatch(t)
      PROVE  leaked' \subseteq heap' /\ \A b \in Block : OK(b)
  <2>1. /\ ring' = ring /\ heap' = heap /\ task[t].step # "poll"
        /\ \/ task' = [task EXCEPT ![t].step = "count"]
           \/ task' = task
    BY <1>6 DEF Dispatch
  <2>2. \A u \in Task : /\ task'[u].msg = task[u].msg
                        /\ task[u].step = "poll" <=> task'[u].step = "poll"
    <3>1. CASE task' = task
      BY <3>1
    <3>2. CASE task' = [task EXCEPT ![t].step = "count"]
      <4>1. task'[t].step = "count" /\ task'[t].msg = task[t].msg
        BY <2>1, <3>2, LoopFacts
      <4>2. \A u \in Task \ {t} : task'[u] = task[u]
        BY <2>1, <3>2, LoopFacts
      <4> QED BY <2>1, <4>1, <4>2
    <3> QED BY <2>1, <3>1, <3>2
  <2> QED BY <1>4, <2>1, <2>2
<1>7. ASSUME Count(t)
      PROVE  leaked' \subseteq heap' /\ \A b \in Block : OK(b)
  <2>1. /\ ring' = ring /\ heap' = heap /\ task[t].step # "poll"
        /\ task' = [task EXCEPT ![t].step = "free"]
    BY <1>7 DEF Count
  <2>2. task'[t].step = "free" /\ task'[t].msg = task[t].msg
    BY <2>1, LoopFacts
  <2>3. \A u \in Task \ {t} : task'[u] = task[u]
    BY <2>1, LoopFacts
  <2>4. \A u \in Task : /\ task'[u].msg = task[u].msg
                        /\ task[u].step = "poll" <=> task'[u].step = "poll"
    BY <2>1, <2>2, <2>3
  <2> QED BY <1>4, <2>1, <2>4
<1>8. ASSUME Free(t)
      PROVE  leaked' \subseteq heap' /\ \A b \in Block : OK(b)
  <2>1. /\ ring' = ring /\ heap' = heap \ {task[t].msg.param}
        /\ task[t].step # "poll" /\ task' = [task EXCEPT ![t] = Polling]
    BY <1>8 DEF Free
  <2>2. PICK c \in Block : c = task[t].msg.param
    BY <2>1 DEF TypeInv, TaskState, Message
  <2>3. /\ \A u \in Task : task'[u] = IF u = t THEN Polling ELSE task[u]
        /\ t \in TasksOf(c) /\ \A b \in Block \ {c} : t \notin TasksOf(b)
    BY <2>1, <2>2 DEF TypeInv, TasksOf, HeldByTask
  <2>4. \A b \in Block : TasksOf(b)' = TasksOf(b) \ {t}
    BY <2>3 DEF TasksOf, HeldByTask, Polling
  <2>5. TasksOf(c) = {t} /\ PlacesOf(c) = {} /\ SendersOf(c) = {} /\ c \in heap \ leaked
    BY <2>3 DEF OwnerInv, Sole, AtMostOne
  <2>6. OK(c)
    BY <1>1, <1>2, <1>3, <2>1, <2>2, <2>4, <2>5 DEF Sole, AtMostOne
  <2>7. \A b \in Block \ {c} : TasksOf(b)' = TasksOf(b)
    BY <2>3, <2>4
  <2>8. \A b \in Block \ {c} : OK(b)
    BY <1>1, <1>2, <1>3, <2>1, <2>2, <2>7, OwnersKeptAt
  <2> QED BY <1>1, <2>1, <2>2, <2>5, <2>6, <2>8 DEF OwnerInv
<1>9. ASSUME Receive(t)
      PROVE  leaked' \subseteq heap' /\ \A b \in Block : OK(b)
  <2> DEFINE m == Contents(ring[t])[1]
             n == ring[t].uxMessagesWaiting
             q == Received(ring[t])
             e == [step |-> "dispatch", msg |-> m]
  <2>1. /\ n > 0 /\ m \in Message /\ task[t].step = "poll"
        /\ task' = [task EXCEPT ![t] = e]
        /\ ring' = [ring EXCEPT ![t] = q]
        /\ q.uxMessagesWaiting = n - 1
        /\ \A i \in 1 .. n - 1 : Contents(q)[i] = Contents(ring[t])[i + 1]
    BY <1>9, ReceiveFacts
  <2>2. heap' = heap
    BY <1>9 DEF Receive
  <2>3. n \in 1 .. Length
    BY <2>1, RingFacts, MessagingAssumption DEF TypeInv
  <2>4. PICK c \in Block : c = m.param
    BY <2>1 DEF Message
  <2>5. /\ ring'[t].uxMessagesWaiting = n - 1
        /\ \A u \in Task \ {t} :
             /\ ring'[u].uxMessagesWaiting = ring[u].uxMessagesWaiting
             /\ Contents(ring'[u]) = Contents(ring[u])
        /\ \A i \in 1 .. n - 1 : Contents(ring'[t])[i] = Contents(ring[t])[i + 1]
    <3> HIDE DEF q, e, m
    <3> QED BY <2>1 DEF TypeInv
  <2>6. task'[t].step = "dispatch" /\ task'[t].msg.param = c
        /\ \A u \in Task \ {t} : task'[u] = task[u]
    <3>1. e.step = "dispatch" /\ e.msg = m
      OBVIOUS
    <3> HIDE DEF e, m
    <3> QED BY <2>1, <2>4, <3>1 DEF TypeInv
  <2>7. \A b \in Block : TasksOf(b)' = IF b = c THEN TasksOf(b) \cup {t} ELSE TasksOf(b)
    BY <2>1, <2>6 DEF TasksOf, HeldByTask
  <2>8. \A b \in Block : /\ PlacesOf(b)' \subseteq Task \X (1 .. Length)
                         /\ PlacesOf(b) \subseteq Task \X (1 .. Length)
    BY DEF PlacesOf
  <2> DEFINE From(u, i) == IF u = t THEN i + 1 ELSE i
  <2>9. \A b \in Block, u \in Task, i \in 1 .. Length :
          /\ <<u, i>> \in PlacesOf(b)' <=>
               i <= ring'[u].uxMessagesWaiting /\ Contents(ring'[u])[i].param = b
          /\ <<u, i>> \in PlacesOf(b) <=>
               i <= ring[u].uxMessagesWaiting /\ Contents(ring[u])[i].param = b
    BY DEF PlacesOf
  <2>10. <<t, 1>> \in PlacesOf(c)
    BY <2>3, <2>4, <2>9, MessagingAssumption
  <2>11. /\ PlacesOf(c) = {<<t, 1>>} /\ SendersOf(c) = {} /\ TasksOf(c) = {}
         /\ c \in heap \ leaked
    BY <2>10 DEF OwnerInv, Sole, AtMostOne
  <2>12. \A b \in Block, u \in Task, i \in 1 .. Length :
           <<u, i>> \in PlacesOf(b)' =>
             From(u, i) \in 1 .. Length /\ <<u, From(u, i)>> \in PlacesOf(b)
    <3> SUFFICES ASSUME NEW b \in Block, NEW u \in Task, NEW i \in 1 .. Length,
                        <<u, i>> \in PlacesOf(b)'
                 PROVE  From(u, i) \in 1 .. Length /\ <<u, From(u, i)>> \in PlacesOf(b)
      OBVIOUS
    <3>1. CASE u # t
      BY <2>5, <2>9, <3>1
    <3>2. CASE u = t
      <4>1. i <= n - 1 /\ Contents(ring'[t])[i].param = b
        BY <2>5, <2>9, <3>2
      <4>2. i \in 1 .. n - 1 /\ i + 1 \in 1 .. Length /\ i + 1 <= n
        BY <2>3, <4>1, MessagingAssumption
      <4>3. Contents(ring[t])[i + 1].param = b
        BY <2>5, <4>1, <4>2
      <4> QED BY <2>9, <3>2, <4>2, <4>3
    <3> QED BY <3>1, <3>2
  <2>13. \A b \in Block \ {c}, u \in Task, i \in 1 .. Length :
           <<u, i>> \in PlacesOf(b) => \E j \in 1 .. Length : <<u, j>> \in PlacesOf(b)'
    <3> SUFFICES ASSUME NEW b \in Block \ {c}, NEW u \in Task, NEW i \in 1 .. Length,
                        <<u, i>> \in PlacesOf(b)
                 PROVE  \E j \in 1 .. Length : <<u, j>> \in PlacesOf(b)'
      OBVIOUS
    <3>1. CASE u # t
      BY <2>5, <2>9, <3>1
    <3>2. CASE u = t
      <4>1. i <= n /\ Contents(ring[t])[i].param = b
        BY <2>9, <3>2
      <4>2. i # 1
        BY <2>4, <4>1
      <4>3. i - 1 \in 1 .. n - 1 /\ i - 1 \in 1 .. Length /\ i - 1 <= n - 1
            /\ (i - 1) + 1 = i
        BY <2>3, <4>1, <4>2, MessagingAssumption
      <4>4. Contents(ring'[t])[i - 1].param = b
        BY <2>5, <4>1, <4>3
      <4>5. <<u, i - 1>> \in PlacesOf(b)'
        BY <2>5, <2>9, <3>2, <4>3, <4>4
      <4> QED BY <4>3, <4>5
    <3> QED BY <3>1, <3>2
  <2> HIDE DEF m, n, q, e
  <2>14. PlacesOf(c)' = {}
    <3>1. ASSUME NEW u \in Task, NEW i \in 1 .. Length, <<u, i>> \in PlacesOf(c)'
          PROVE  FALSE
      <4>1. <<u, From(u, i)>> \in {<<t, 1>>}
        BY <2>11, <2>12, <3>1
      <4> QED BY <4>1, MessagingAssumption
    <3> QED BY <2>8, <3>1
  <2>15. OK(c)
    BY <1>1, <1>2, <2>2, <2>7, <2>11, <2>14 DEF Sole, AtMostOne
  <2>16. ASSUME NEW b \in Block \ {c} PROVE OK(b)
    <3>1. AtMostOne(PlacesOf(b)')
      <4> SUFFICES ASSUME NEW u \in Task, NEW i \in 1 .. Length,
                          NEW v \in Task, NEW j \in 1 .. Length,
                          <<u, i>> \in PlacesOf(b)', <<v, j>> \in PlacesOf(b)'
                   PROVE  u = v /\ i = j
        BY <2>8 DEF AtMostOne
      <4>1. <<u, From(u, i)>> \in PlacesOf(b) /\ <<v, From(v, j)>> \in PlacesOf(b)
        BY <2>12
      <4>2. u = v /\ From(u, i) = From(v, j)
        BY <4>1 DEF OwnerInv, Sole, AtMostOne
      <4> QED BY <4>2, MessagingAssumption
    <3>2. PlacesOf(b)' = {} <=> PlacesOf(b) = {}
      <4>1. ASSUME PlacesOf(b)' # {} PROVE PlacesOf(b) # {}
        <5>1. PICK u \in Task, i \in 1 .. Length : <<u, i>> \in PlacesOf(b)'
          BY <2>8, <4>1
        <5>2. <<u, From(u, i)>> \in PlacesOf(b)
          BY <2>12, <5>1
        <5> QED BY <5>2
      <4>2. ASSUME PlacesOf(b) # {} PROVE PlacesOf(b)' # {}
        <5>1. PICK u \in Task, i \in 1 .. Length : <<u, i>> \in PlacesOf(b)
          BY <2>8, <4>2
        <5>2. \E j \in 1 .. Length : <<u, j>> \in PlacesOf(b)'
          BY <2>13, <5>1
        <5> QED BY <5>2
      <4> QED BY <4>1, <4>2
    <3>3. TasksOf(b)' = TasksOf(b) /\ SendersOf(b)' = SendersOf(b)
      BY <1>2, <2>7
    <3>4. /\ Sole(PlacesOf(b), SendersOf(b), TasksOf(b))
          /\ PlacesOf(b) \cup SendersOf(b) \cup TasksOf(b) # {} <=> b \in heap \ leaked
      BY DEF OwnerInv
    <3>5. Sole(PlacesOf(b), SendersOf(b), TasksOf(b))'
      BY <3>1, <3>2, <3>3, <3>4 DEF Sole
    <3> QED BY <1>1, <2>2, <3>2, <3>3, <3>4, <3>5
  <2> QED BY <1>1, <2>2, <2>15, <2>16 DEF OwnerInv
<1> QED BY <1>5, <1>6, <1>7, <1>8, <1>9 DEF Creation, Loop

LEMMA OwnersKept == TypeInv /\ TypeInv' /\ OwnerInv /\ [Next]_vars => OwnerInv'
<1>1. ASSUME OwnerInv, UNCHANGED vars PROVE OwnerInv'
  <2>1. \A b \in Block : /\ PlacesOf(b)' = PlacesOf(b)
                         /\ SendersOf(b)' = SendersOf(b)
                         /\ TasksOf(b)' = TasksOf(b)
    BY <1>1 DEF PlacesOf, SendersOf, TasksOf, HeldBySender, HeldByTask, Contents,
                QueuedSlot, vars
  <2>2. heap' = heap /\ leaked' = leaked
    BY <1>1 DEF vars
  <2> QED BY <1>1, <2>1, <2>2, OwnersKeptAt DEF OwnerInv
<1> QED BY <1>1, SenderOwners, TaskOwners DEF Next

\* The copies on the heap have one owner each: nothing is freed twice, used
\* after its free or lost without trace.
THEOREM EveryCopyHasOneOwner == Spec => []OneOwner
<1>1. OwnerInv => OneOwner
  BY References3 DEF OwnerInv, OneOwner
<1> QED BY <1>1, TypeInitially, TypeKept, OwnersInitially, OwnersKept, PTL DEF Spec

-----------------------------------------------------------------------------
(* The account of the messages to a task *)

\* The sends to t that were counted, and the senders that are at one.
Counted(t) == {m \in Sender \X (1 .. MaxSends) : m[2] <= sent[m[1]][t]}
AtWork(t)  == {s \in Sender : send[s].step # "idle" /\ send[s].dst = t}
InHand(t)  == IF task[t].step \in {"dispatch", "count"} THEN 1 ELSE 0

LEMMA AccountedIs ==
  Accounted <=>
    \A t \in Task :
      Cardinality(Counted(t)) = recv[t] + ring[t].uxMessagesWaiting + lost[t]
                                  + Cardinality(AtWork(t)) + InHand(t)
BY DEF Accounted, TotalSent, Counted, AtWork, InHand

LEMMA AccountTypes ==
  ASSUME TypeInv, NEW t \in Task
  PROVE  /\ IsFiniteSet(Counted(t)) /\ IsFiniteSet(AtWork(t))
         /\ Cardinality(Counted(t)) \in Nat /\ Cardinality(AtWork(t)) \in Nat
         /\ recv[t] \in Nat /\ lost[t] \in Nat /\ InHand(t) \in {0, 1}
         /\ ring[t].uxMessagesWaiting \in Nat
<1>1. IsFiniteSet(Counted(t))
  <2>1. IsFiniteSet(1 .. MaxSends)
    BY MessagingAssumption, FS_Interval
  <2>2. IsFiniteSet(Sender \X (1 .. MaxSends))
    BY <2>1, MessagingAssumption, FS_Product
  <2>3. Counted(t) \in SUBSET (Sender \X (1 .. MaxSends))
    BY DEF Counted
  <2> QED BY <2>2, <2>3, FS_Subset
<1>2. IsFiniteSet(AtWork(t))
  <2>1. AtWork(t) \in SUBSET Sender
    BY DEF AtWork
  <2> QED BY <2>1, MessagingAssumption, FS_Subset
<1>3. recv[t] \in Nat /\ lost[t] \in Nat /\ InHand(t) \in {0, 1}
  BY DEF TypeInv, InHand
<1>4. ring[t].uxMessagesWaiting \in Nat
  BY NewestType, RingFacts, MessagingAssumption DEF TypeInv
<1> QED BY <1>1, <1>2, <1>3, <1>4, FS_CardinalityType

LEMMA SenderAccount ==
  ASSUME TypeInv, TypeInv', Accounted, NEW s \in Sender, Sending(s)
  PROVE  Accounted'
<1> DEFINE Is(t) == Cardinality(Counted(t)) = recv[t] + ring[t].uxMessagesWaiting
                      + lost[t] + Cardinality(AtWork(t)) + InHand(t)
<1>0. SUFFICES ASSUME NEW v \in Task PROVE Is(v)'
  BY DEF Accounted, TotalSent, Counted, AtWork, InHand
<1>1. Is(v)
  BY AccountedIs
<1>2. recv'[v] = recv[v] /\ InHand(v)' = InHand(v)
  BY QueueSendCases DEF Sending, SendCall, Dup, DupFails, InHand
<1>3. ASSUME NEW t \in Task, NEW id \in MsgId, SendCall(s, t, id) PROVE Is(v)'
  <2> DEFINE m == [msg_id |-> id, param |-> NULL, from |-> s,
                   serial |-> sent[s][t] + 1]
             e == [step |-> "dup", dst |-> t, msg |-> m]
             n == sent[s][t] + 1
  <2>1. /\ ring' = ring /\ send[s].step = "idle"
        /\ sent' = [sent EXCEPT ![s][t] = n]
        /\ \/ send' = [send EXCEPT ![s] = e] /\ lost' = lost
           \/ send' = send /\ lost' = [lost EXCEPT ![t] = @ + 1]
    BY <1>3 DEF SendCall
  <2>2. e.step # "idle" /\ e.dst = t
    OBVIOUS
  <2>3. sent[s][t] \in 0 .. MaxSends /\ sent[s][t] < MaxSends /\ n \in 1 .. MaxSends
    BY <1>3, MessagingAssumption DEF SendCall, TypeInv
  <2> HIDE DEF e, m
  <2>4. CASE v # t
    <3>1. \A u \in Sender : sent'[u][v] = sent[u][v]
      BY <2>1, <2>4 DEF TypeInv
    <3>2. Counted(v)' = Counted(v)
      BY <3>1 DEF Counted
    <3>3. AtWork(v)' = AtWork(v)
      BY <2>1, <2>2, <2>4 DEF AtWork, TypeInv
    <3>4. lost'[v] = lost[v]
      BY <2>1, <2>4 DEF TypeInv
    <3> QED BY <1>1, <1>2, <2>1, <3>2, <3>3, <3>4
  <2>5. CASE v = t
    <3>1. \A u \in Sender : sent'[u][v] = IF u = s THEN n ELSE sent[u][v]
      BY <2>1, <2>5 DEF TypeInv
    <3>2. Counted(v)' = Counted(v) \cup {<<s, n>>} /\ <<s, n>> \notin Counted(v)
      <4> HIDE DEF n
      <4>1. \A k \in 1 .. MaxSends : k <= n <=> k <= sent[s][v] \/ k = n
        BY <2>3, <2>5, MessagingAssumption DEF n
      <4>2. ~ (n <= sent[s][v])
        BY <2>3, <2>5, MessagingAssumption DEF n
      <4>3. ASSUME NEW u \in Sender, NEW k \in 1 .. MaxSends
            PROVE  <<u, k>> \in Counted(v)' <=> <<u, k>> \in Counted(v) \cup {<<s, n>>}
        <5>1. /\ <<u, k>> \in Counted(v)' <=> k <= sent'[u][v]
              /\ <<u, k>> \in Counted(v) <=> k <= sent[u][v]
          BY DEF Counted
        <5> QED BY <3>1, <4>1, <5>1
      <4>4. /\ Counted(v)' \subseteq Sender \X (1 .. MaxSends)
            /\ Counted(v) \cup {<<s, n>>} \subseteq Sender \X (1 .. MaxSends)
        BY <2>3 DEF Counted
      <4>5. \A p \in Sender \X (1 .. MaxSends) :
              p \in Counted(v)' <=> p \in Counted(v) \cup {<<s, n>>}
        BY <4>3
      <4>6. Counted(v)' = Counted(v) \cup {<<s, n>>}
        BY <4>4, <4>5
      <4>7. <<s, n>> \notin Counted(v)
        BY <4>2 DEF Counted
      <4> QED BY <4>6, <4>7
    <3>3. Cardinality(Counted(v)') = Cardinality(Counted(v)) + 1
      BY <3>2, AccountTypes, FS_AddElement
    <3>4. CASE send' = [send EXCEPT ![s] = e] /\ lost' = lost
      <4>1. AtWork(v)' = AtWork(v) \cup {s} /\ s \notin AtWork(v)
        BY <2>1, <2>2, <2>5, <3>4 DEF AtWork, TypeInv
      <4>2. Cardinality(AtWork(v)') = Cardinality(AtWork(v)) + 1
        BY <4>1, AccountTypes, FS_AddElement
      <4> QED BY <1>1, <1>2, <2>1, <3>3, <3>4, <4>2, AccountTypes
    <3>5. CASE send' = send /\ lost' = [lost EXCEPT ![t] = @ + 1]
      <4>1. AtWork(v)' = AtWork(v)
        BY <3>5 DEF AtWork
      <4>2. lost'[v] = lost[v] + 1
        BY <2>5, <3>5 DEF TypeInv
      <4> QED BY <1>1, <1>2, <2>1, <3>3, <4>1, <4>2, AccountTypes
    <3> QED BY <2>1, <3>4, <3>5
  <2> QED BY <2>4, <2>5
<1>4. ASSUME sent' = sent PROVE Counted(v)' = Counted(v)
  BY <1>4 DEF Counted
<1>5. ASSUME send'[s] = Idle, \A u \in Sender \ {s} : send'[u] = send[u],
             send[s].step # "idle"
      PROVE  Cardinality(AtWork(v)') =
               IF v = send[s].dst THEN Cardinality(AtWork(v)) - 1
                                  ELSE Cardinality(AtWork(v))
  <2>1. AtWork(v)' = AtWork(v) \ {s}
    BY <1>5 DEF AtWork, Idle
  <2>2. s \in AtWork(v) <=> v = send[s].dst
    BY <1>5 DEF AtWork
  <2> QED BY <2>1, <2>2, AccountTypes, FS_RemoveElement
<1>6. ASSUME NEW b \in Block, Dup(s, b) PROVE Is(v)'
  <2> DEFINE m == [send[s].msg EXCEPT !.param = b]
             e == [step |-> "send", dst |-> send[s].dst, msg |-> m]
  <2>1. send' = [send EXCEPT ![s] = e]
    BY <1>6, DupFacts
  <2>2. e.step = "send" /\ e.dst = send[s].dst
    OBVIOUS
  <2> HIDE DEF e
  <2>3. send[s].step = "dup" /\ sent' = sent /\ ring' = ring /\ lost' = lost
    BY <1>6 DEF Dup
  <2>4. AtWork(v)' = AtWork(v)
    BY <2>1, <2>2, <2>3 DEF AtWork, TypeInv
  <2> QED BY <1>1, <1>2, <1>4, <2>3, <2>4
<1>7. ASSUME DupFails(s) PROVE Is(v)'
  <2>1. /\ send[s].step # "idle" /\ sent' = sent /\ ring' = ring
        /\ send'[s] = Idle /\ \A u \in Sender \ {s} : send'[u] = send[u]
        /\ lost'[v] = IF v = send[s].dst THEN lost[v] + 1 ELSE lost[v]
    BY <1>7 DEF DupFails, TypeInv
  <2>2. Cardinality(AtWork(v)') =
          IF v = send[s].dst THEN Cardinality(AtWork(v)) - 1
                             ELSE Cardinality(AtWork(v))
    BY <1>5, <2>1
  <2> QED BY <1>1, <1>2, <1>4, <2>1, <2>2, AccountTypes
<1>8. ASSUME QueueSend(s) PROVE Is(v)'
  <2> DEFINE t == send[s].dst
             n == ring[t].uxMessagesWaiting
             m == send[s].msg
             q == adm_queue_copy_data2list(ring[t], m, ADM_QUEUE_INSERT_TO_BACK)
  <2>1. /\ send[s].step = "send" /\ t \in Task /\ m \in Message /\ sent' = sent
        /\ send' = [send EXCEPT ![s] = Idle]
        /\ \/ n < Length /\ ring' = [ring EXCEPT ![t] = q] /\ lost' = lost
           \/ ring' = ring /\ lost' = [lost EXCEPT ![t] = @ + 1]
    BY <1>8, QueueSendCases
  <2>2. send'[s] = Idle /\ \A u \in Sender \ {s} : send'[u] = send[u]
    BY <2>1 DEF TypeInv
  <2>3. Cardinality(AtWork(v)') =
          IF v = t THEN Cardinality(AtWork(v)) - 1 ELSE Cardinality(AtWork(v))
    BY <1>5, <2>1, <2>2
  <2>4. n < Length => q.uxMessagesWaiting = n + 1
    BY <2>1, MessageAppended DEF TypeInv
  <2> HIDE DEF q
  <2>5. ring'[v].uxMessagesWaiting + lost'[v] =
          IF v = t THEN ring[v].uxMessagesWaiting + lost[v] + 1
                   ELSE ring[v].uxMessagesWaiting + lost[v]
    <3>1. CASE ring' = [ring EXCEPT ![t] = q] /\ n < Length /\ lost' = lost
      <4>1. ring'[v] = IF v = t THEN q ELSE ring[v]
        BY <2>1, <3>1 DEF TypeInv
      <4> QED BY <2>4, <3>1, <4>1, AccountTypes
    <3>2. CASE ring' = ring /\ lost' = [lost EXCEPT ![t] = @ + 1]
      <4>1. lost'[v] = IF v = t THEN lost[v] + 1 ELSE lost[v]
        BY <2>1, <3>2 DEF TypeInv
      <4> QED BY <3>2, <4>1, AccountTypes
    <3> QED BY <2>1, <3>1, <3>2
  <2>6. /\ ring'[v].uxMessagesWaiting \in Nat /\ lost'[v] \in Nat
    BY RingFacts, MessagingAssumption DEF TypeInv
  <2> HIDE DEF t, n, m
  <2> QED BY <1>1, <1>2, <1>4, <2>1, <2>3, <2>5, <2>6, AccountTypes
<1> QED BY <1>3, <1>6, <1>7, <1>8 DEF Sending

LEMMA TaskAccount ==
  ASSUME TypeInv, TypeInv', Accounted, NEW t \in Task, Creation(t) \/ Loop(t)
  PROVE  Accounted'
<1> DEFINE Is(v) == Cardinality(Counted(v)) = recv[v] + ring[v].uxMessagesWaiting
                      + lost[v] + Cardinality(AtWork(v)) + InHand(v)
<1>0. SUFFICES ASSUME NEW v \in Task PROVE Is(v)'
  BY DEF Accounted, TotalSent, Counted, AtWork, InHand
<1>1. Is(v)
  BY AccountedIs
<1>2. send' = send /\ sent' = sent /\ lost' = lost
  BY DEF Creation, Loop, CreateTask, Publish, Receive, PollNothing, vars,
         Dispatch, Count, Free
<1>3. Counted(v)' = Counted(v) /\ AtWork(v)' = AtWork(v)
  BY <1>2 DEF Counted, AtWork
<1>4. ASSUME CreateTask(t) \/ Publish(t) \/ PollNothing(t) PROVE Is(v)'
  <2>1. recv' = recv /\ ring' = ring /\ task' = task
    BY <1>4 DEF CreateTask, Publish, PollNothing, vars
  <2> QED BY <1>1, <1>2, <1>3, <2>1 DEF InHand
<1>5. ASSUME Receive(t) PROVE Is(v)'
  <2> DEFINE m == Contents(ring[t])[1]
             n == ring[t].uxMessagesWaiting
             q == Received(ring[t])
             e == [step |-> "dispatch", msg |-> m]
  <2>1. /\ n > 0 /\ task[t].step = "poll" /\ recv' = recv
        /\ task' = [task EXCEPT ![t] = e]
        /\ ring' = [ring EXCEPT ![t] = q]
        /\ q.uxMessagesWaiting = n - 1
    BY <1>5, ReceiveFacts DEF Receive
  <2>2. e.step = "dispatch"
    OBVIOUS
  <2> HIDE DEF q, e
  <2>3. InHand(v)' = IF v = t THEN InHand(v) + 1 ELSE InHand(v)
    BY <2>1, <2>2 DEF InHand, TypeInv
  <2>4. ring'[v].uxMessagesWaiting =
          IF v = t THEN ring[v].uxMessagesWaiting - 1 ELSE ring[v].uxMessagesWaiting
    BY <2>1 DEF TypeInv
  <2> QED BY <1>1, <1>2, <1>3, <2>1, <2>3, <2>4, AccountTypes
<1>6. ASSUME Dispatch(t) PROVE Is(v)'
  <2>1. /\ recv' = recv /\ ring' = ring /\ task[t].step = "dispatch"
        /\ task' = task \/ task' = [task EXCEPT ![t].step = "count"]
    BY <1>6 DEF Dispatch
  <2>2. InHand(v)' = InHand(v)
    <3>1. CASE task' = task
      BY <3>1 DEF InHand
    <3>2. CASE task' = [task EXCEPT ![t].step = "count"]
      <4>1. task'[t].step = "count" /\ (v # t => task'[v] = task[v])
        BY <2>1, <3>2, LoopFacts
      <4> QED BY <2>1, <4>1 DEF InHand
    <3> QED BY <2>1, <3>1, <3>2
  <2> QED BY <1>1, <1>2, <1>3, <2>1, <2>2
<1>7. ASSUME Count(t) PROVE Is(v)'
  <2>1. /\ recv' = [recv EXCEPT ![t] = @ + 1] /\ ring' = ring
        /\ task[t].step = "count" /\ task' = [task EXCEPT ![t].step = "free"]
    BY <1>7 DEF Count
  <2>2. task'[t].step = "free" /\ (v # t => task'[v] = task[v])
    BY <2>1, LoopFacts
  <2>3. InHand(v)' = IF v = t THEN InHand(v) - 1 ELSE InHand(v)
    BY <2>1, <2>2 DEF InHand
  <2>4. recv'[v] = IF v = t THEN recv[v] + 1 ELSE recv[v]
    BY <2>1 DEF TypeInv
  <2> QED BY <1>1, <1>2, <1>3, <2>1, <2>3, <2>4, AccountTypes
<1>8. ASSUME Free(t) PROVE Is(v)'
  <2>1. /\ recv' = recv /\ ring' = ring
        /\ task[t].step = "free" /\ task' = [task EXCEPT ![t] = Polling]
    BY <1>8 DEF Free
  <2>2. InHand(v)' = InHand(v)
    BY <2>1 DEF InHand, TypeInv, Polling
  <2> QED BY <1>1, <1>2, <1>3, <2>1, <2>2
<1> QED BY <1>4, <1>5, <1>6, <1>7, <1>8 DEF Creation, Loop

LEMMA AccountInitially == Init => Accounted
<1> SUFFICES ASSUME Init, NEW t \in Task
             PROVE  Cardinality(Counted(t)) = recv[t] + ring[t].uxMessagesWaiting
                      + lost[t] + Cardinality(AtWork(t)) + InHand(t)
  BY AccountedIs
<1>1. recv[t] = 0 /\ lost[t] = 0 /\ ring[t].uxMessagesWaiting = 0 /\ InHand(t) = 0
  BY RingCreated DEF Init, Polling, InHand
<1>2. Counted(t) = {}
  <2>1. \A k \in 1 .. MaxSends : ~ (k <= 0)
    BY MessagingAssumption
  <2> QED BY <2>1 DEF Init, Counted
<1>3. AtWork(t) = {}
  BY DEF Init, AtWork, Idle
<1> QED BY <1>1, <1>2, <1>3, FS_EmptySet

\* Every message counted as sent is received, under way, or one of those that
\* the caller was not told about: no message is counted twice or disappears.
THEOREM EveryMessageAccounted == Spec => []Accounted
<1>1. TypeInv /\ TypeInv' /\ Accounted /\ [Next]_vars => Accounted'
  <2>1. ASSUME Accounted, UNCHANGED vars PROVE Accounted'
    BY <2>1 DEF Accounted, TotalSent, vars
  <2> QED BY <2>1, SenderAccount, TaskAccount DEF Next
<1> QED BY <1>1, TypeInitially, TypeKept, AccountInitially, PTL DEF Spec

=============================================================================
