------------------------- MODULE AdmQueueSyncProofs -------------------------
(***************************************************************************)
(* Proofs about AdmQueueSync, for every set of threads, queue length and   *)
(* item set: under the discipline of Disciplined, sends and receives       *)
(* exclude each other, copy only inside the storage and take effect one at *)
(* a time.                                                                 *)
(***************************************************************************)
EXTENDS AdmQueueSync, SequenceTheorems, FiniteSetTheorems, TLAPS

\* The lemmas about the ring, which do not speak of the requests.
Ring == INSTANCE AdmQueueProofs WITH Requests <- {}, Buffers <- {}

\* The instance of the lemmas speaks of the same operators.
LEMMA SameOperators ==
  ASSUME NEW r, NEW item, NEW pos, NEW hasBuffer, NEW k
  PROVE  /\ Ring!adm_queue_copy_data2list(r, item, pos) = adm_queue_copy_data2list(r, item, pos)
         /\ Ring!Inserted(r, item, pos) = Inserted(r, item, pos)
         /\ Ring!adm_queue_copy_data_from_list(r, hasBuffer)
              = adm_queue_copy_data_from_list(r, hasBuffer)
         /\ Ring!Fetched(r, hasBuffer) = Fetched(r, hasBuffer)
         /\ Ring!Contents(r) = Contents(r) /\ Ring!QueuedSlot(r, k) = QueuedSlot(r, k)
         /\ Ring!WrapUp(r, k) = WrapUp(r, k) /\ Ring!NextRead(r) = NextRead(r)
<1>1. Ring!Inserted(r, item, pos) = Inserted(r, item, pos)
  BY DEF Ring!Inserted, Inserted, Ring!InsertBack, InsertBack,
         Ring!InsertFront, InsertFront, Ring!Stored, Stored,
         Ring!Stride, Stride, Ring!WrapUp, WrapUp, Ring!WrapDown, WrapDown,
         Ring!ADM_QUEUE_INSERT_TO_BACK, ADM_QUEUE_INSERT_TO_BACK,
         Ring!ADM_QUEUE_INSERT_OVERWRITE, ADM_QUEUE_INSERT_OVERWRITE
<1>2. Ring!adm_queue_copy_data2list(r, item, pos) = adm_queue_copy_data2list(r, item, pos)
  BY <1>1 DEF Ring!adm_queue_copy_data2list, adm_queue_copy_data2list,
         Ring!CountAfterInsert, CountAfterInsert,
         Ring!ADM_QUEUE_INSERT_OVERWRITE, ADM_QUEUE_INSERT_OVERWRITE
<1>3. Ring!adm_queue_copy_data_from_list(r, hasBuffer)
        = adm_queue_copy_data_from_list(r, hasBuffer)
  BY DEF Ring!adm_queue_copy_data_from_list, adm_queue_copy_data_from_list,
         Ring!Stored, Stored, Ring!NextRead, NextRead, Ring!WrapUp, WrapUp
<1>4. Ring!Fetched(r, hasBuffer) = Fetched(r, hasBuffer)
  BY DEF Ring!Fetched, Fetched, Ring!NextRead, NextRead, Ring!WrapUp, WrapUp
<1>5. Ring!Contents(r) = Contents(r) /\ Ring!QueuedSlot(r, k) = QueuedSlot(r, k)
  BY DEF Ring!Contents, Contents, Ring!QueuedSlot, QueuedSlot
<1>6. Ring!WrapUp(r, k) = WrapUp(r, k) /\ Ring!NextRead(r) = NextRead(r)
  BY DEF Ring!WrapUp, WrapUp, Ring!NextRead, NextRead
<1> QED BY <1>1, <1>2, <1>3, <1>4, <1>5, <1>6

LEMMA SameConstants ==
  /\ Ring!adm_queue_generic_create(Length, ItemSize) = adm_queue_generic_create(Length, ItemSize)
  /\ Ring!Position = Position
  /\ Ring!ADM_QUEUE_INSERT_TO_BACK = ADM_QUEUE_INSERT_TO_BACK
BY DEF Ring!adm_queue_generic_create, adm_queue_generic_create,
       Ring!adm_queue_generic_reset, adm_queue_generic_reset, Ring!Position, Position,
       Ring!ADM_QUEUE_INSERT_TO_BACK, ADM_QUEUE_INSERT_TO_BACK,
       Ring!ADM_QUEUE_INSERT_TO_FRONT, ADM_QUEUE_INSERT_TO_FRONT,
       Ring!ADM_QUEUE_INSERT_OVERWRITE, ADM_QUEUE_INSERT_OVERWRITE

Creating(t) == pc[t] \in {"create", "mark"}

\* The places between the check of the count and the unlock.
Work == {"read", "write", "load", "store", "test", "rewind", "fetch", "clear", "count"}

Calling(t)  == pc[t] \in Work \cup {"lock", "check", "unlock"}

\* The control part of the type invariant.
ControlOK ==
  /\ mutex \in 0 .. MaxMutexes /\ made \in 0 .. MaxMutexes
  /\ mutexInit \in BOOLEAN /\ shared \in BOOLEAN
  /\ holder \in [Mutex -> Thread \cup {Nobody}]
  /\ pc \in [Thread -> Work \cup {"idle", "create", "mark", "lock", "check", "unlock"}]
  /\ DOMAIN local = Thread
  /\ \A t \in Thread :
       DOMAIN local[t] = {"target", "waiting", "at", "sends", "item"}

\* Once a thread can call, the global mutex is made and stays the same; every
\* caller locks that one, and who is inside a call holds it.
LockInv ==
  /\ ControlOK
  /\ shared => mutexInit
  /\ mutexInit => mutex # 0
  /\ \A t \in Thread : Creating(t) => ~ mutexInit /\ t \in Creators
  /\ \A s, t \in Thread : Creating(s) /\ Creating(t) => s = t
  /\ \A t \in Thread : Creating(t) => Main \in {t, Nobody}
  /\ \A t \in Thread : pc[t] = "mark" /\ t # Main => mutex # 0
  /\ \A t \in Thread : Calling(t) => shared /\ local[t].target = mutex
  /\ \A t \in Thread : InCall(t) => holder[mutex] = t

LEMMA LockInit == Disciplined /\ Init => LockInv
<1> SUFFICES ASSUME Init PROVE LockInv
  OBVIOUS
<1>1. \A t \in Thread : pc[t] = "idle"
  BY DEF Init
<1>2. ControlOK
  <2>1. local = [t \in Thread |-> Frame]
    BY DEF Init
  <2>2. \A t \in Thread : DOMAIN local[t] = {"target", "waiting", "at", "sends", "item"}
    BY <2>1 DEF Frame
  <2>3. 0 \in 0 .. MaxMutexes
    BY SyncAssumption
  <2> QED BY <2>1, <2>2, <2>3 DEF Init, ControlOK
<1> QED
  BY <1>1, <1>2 DEF Init, LockInv, Creating, Calling, InCall, Work

\* A step inside a call, between the lock and the unlock.
Working(t) ==
  \/ SendCheck(t) \/ SendRefuse(t) \/ SendRead(t) \/ SendWrite(t) \/ SendCount(t)
  \/ RecvCheck(t) \/ RecvRefuse(t) \/ RecvFetch(t) \/ RecvClear(t) \/ RecvCount(t)
  \/ LoadPointer(t) \/ StorePointer(t) \/ TestPointer(t) \/ RewindPointer(t)

\* It keeps the mutex and changes one field of the locals at most.
LEMMA WorkingStep ==
  ASSUME NEW t \in Thread, Working(t)
  PROVE  /\ pc[t] \in Work \cup {"check"}
         /\ \E to \in Work \cup {"unlock"} : pc' = [pc EXCEPT ![t] = to]
         /\ UNCHANGED <<mutex, mutexInit, made, holder, shared>>
         /\ \E n : \/ UNCHANGED local
                   \/ local' = [local EXCEPT ![t].waiting = n]
                   \/ local' = [local EXCEPT ![t].at = n]
                   \/ local' = [local EXCEPT ![t].item = n]
<1>1. CASE SendCheck(t) \/ SendRefuse(t) \/ SendRead(t) \/ SendWrite(t) \/ SendCount(t)
  BY <1>1 DEF SendCheck, SendRefuse, SendRead, SendWrite, SendCount, Goto, Work
<1>2. CASE RecvCheck(t) \/ RecvRefuse(t) \/ RecvFetch(t) \/ RecvClear(t) \/ RecvCount(t)
  BY <1>2 DEF RecvCheck, RecvRefuse, RecvFetch, RecvClear, RecvCount, Goto, Work
<1>3. CASE LoadPointer(t) \/ StorePointer(t)
  BY <1>3 DEF LoadPointer, StorePointer, Goto, Work
<1>4. CASE TestPointer(t) \/ RewindPointer(t)
  BY <1>4 DEF TestPointer, RewindPointer, AfterMove, Goto, Work
<1> QED BY <1>1, <1>2, <1>3, <1>4 DEF Working

LEMMA LockStep == Disciplined /\ LockInv /\ [Next]_vars => LockInv'
<1> SUFFICES ASSUME Disciplined, LockInv, [Next]_vars PROVE LockInv'
  OBVIOUS
<1> USE SyncAssumption DEF LockInv, ControlOK, Creating, Calling, InCall, Mutex, Goto, Work
<1>1. ASSUME NEW t \in Creators, MutexInitDone(t) PROVE LockInv'
  BY <1>1 DEF MutexInitDone
<1>2. ASSUME NEW t \in Creators, MutexInitCheck(t),
             Main = Nobody \/ t = Main \/ shared
      PROVE  LockInv'
  BY <1>2 DEF MutexInitCheck, Disciplined
<1>3. ASSUME NEW t \in Creators, MutexCreate(t) PROVE LockInv'
  BY <1>3 DEF MutexCreate
<1>4. ASSUME NEW t \in Creators, MutexCreateFails(t) PROVE LockInv'
  BY <1>4 DEF MutexCreateFails, Disciplined
<1>5. ASSUME NEW t \in Creators, MutexMark(t) PROVE LockInv'
  BY <1>5 DEF MutexMark
<1>6. ASSUME NEW t \in Thread, NEW sends, NEW item, Call(t, sends, item)
      PROVE  LockInv'
  BY <1>6 DEF Call, Frame
<1>7. ASSUME NEW t \in Thread, Lock(t) PROVE LockInv'
  BY <1>7 DEF Lock
<1>8. ASSUME NEW t \in Thread, Unlock(t) PROVE LockInv'
  BY <1>8 DEF Unlock, Frame
<1>9. ASSUME NEW t \in Thread, Working(t) PROVE LockInv'
  <2>1. /\ InCall(t)
        /\ \E to \in Work \cup {"unlock"} : pc' = [pc EXCEPT ![t] = to]
        /\ UNCHANGED <<mutex, mutexInit, made, holder, shared>>
    BY <1>9, WorkingStep
  <2>2. /\ DOMAIN local' = DOMAIN local
        /\ \A s \in Thread : /\ local'[s].target = local[s].target
                             /\ DOMAIN local'[s] = DOMAIN local[s]
    <3>1. PICK n : \/ UNCHANGED local
                   \/ local' = [local EXCEPT ![t].waiting = n]
                   \/ local' = [local EXCEPT ![t].at = n]
                   \/ local' = [local EXCEPT ![t].item = n]
      BY <1>9, WorkingStep
    <3>2. CASE UNCHANGED local
      BY <3>2
    <3>3. CASE local' = [local EXCEPT ![t].waiting = n]
      BY <3>3
    <3>4. CASE local' = [local EXCEPT ![t].at = n]
      BY <3>4
    <3>5. CASE local' = [local EXCEPT ![t].item = n]
      BY <3>5
    <3> QED BY <3>1, <3>2, <3>3, <3>4, <3>5
  <2>3. ControlOK'
    BY <2>1, <2>2
  <2>4. \A s \in Thread : Calling(s)' => Calling(s)
    BY <2>1
  <2>5. \A s \in Thread : InCall(s)' => InCall(s)
    BY <2>1
  <2>6. \A s \in Thread : Creating(s)' => pc'[s] = pc[s]
    BY <2>1
  <2> QED
    BY <2>1, <2>2, <2>3, <2>4, <2>5, <2>6
<1>10. CASE UNCHANGED vars
  BY <1>10 DEF vars
<1> QED
  BY <1>1, <1>2, <1>3, <1>4, <1>5, <1>6, <1>7, <1>8, <1>9, <1>10
     DEF Next, CreateQueue, Inside, Working

LEMMA LockInvariant == ASSUME Disciplined PROVE Spec => []LockInv
<1>1. Init => LockInv
  BY LockInit
<1>2. LockInv /\ [Next]_vars => LockInv'
  BY LockStep
<1> QED BY <1>1, <1>2, PTL DEF Spec

\* Sends and receives exclude each other, however many threads call them,
\* when main or a single thread is the one that brings the mutex into being.
THEOREM Exclusion == ASSUME Disciplined PROVE Spec => []MutualExclusion
<1>1. LockInv => MutualExclusion
  BY DEF LockInv, MutualExclusion
<1> QED BY <1>1, LockInvariant, PTL

-----------------------------------------------------------------------------
(* Type correctness, with or without the discipline *)

\* Where a receive has read a positive count and not yet written it back.
Receiving == {"load", "store", "test", "rewind", "fetch", "clear", "count"}

\* The count never falls below zero, even when calls race: a receive writes back
\* one less than the positive count that it has read.
TypeInv ==
  /\ TypeOK
  /\ \A t \in Thread :
       /\ local[t].sends => local[t].item \in Item
       /\ pc[t] \in Receiving /\ ~ local[t].sends => local[t].waiting > 0

\* The type invariant in four parts.
QueueRecords ==
  [slot : [0 .. Length - 1 -> Item \cup {Zero}],
   uxLength : {Length}, uxItemSize : {1}, pcTail : {Length},
   uxMessagesWaiting : Nat, pcWriteTo : Nat, pcReadFrom : Nat]

ControlTypes ==
  /\ mutex \in 0 .. MaxMutexes /\ made \in 0 .. MaxMutexes
  /\ mutexInit \in BOOLEAN /\ shared \in BOOLEAN /\ overrun \in BOOLEAN
  /\ holder \in [Mutex -> Thread \cup {Nobody}]
  /\ pc \in [Thread -> Work \cup {"idle", "create", "mark", "lock", "check", "unlock"}]

Locals == [target : 0 .. MaxMutexes, waiting : Nat, at : Nat, sends : BOOLEAN,
           item : Item \cup {Zero, NULL}]

LocalTypes ==
  /\ local \in [Thread -> Locals]
  /\ \A t \in Thread :
       /\ local[t].sends => local[t].item \in Item
       /\ pc[t] \in Receiving /\ ~ local[t].sends => local[t].waiting > 0

Replies == [asked : (Item \X Position) \cup {<<>>, <<TRUE>>}, ok : BOOLEAN,
            item : Item \cup {Zero, NULL}]

LEMMA TypeParts ==
  TypeInv <=> q \in QueueRecords /\ ControlTypes /\ LocalTypes /\ reply \in Replies
<1>1. Work \cup {"idle", "create", "mark", "lock", "check", "unlock"}
        = {"idle", "create", "mark", "lock", "check", "read", "write", "load", "store",
           "test", "rewind", "fetch", "clear", "count", "unlock"}
  BY DEF Work
<1> QED
  BY <1>1 DEF TypeInv, TypeOK, ControlTypes, LocalTypes, Replies, QueueRecords, Locals

\* Changing one field of the struct within its type keeps the type.
LEMMA QueueUpdates ==
  ASSUME NEW r \in QueueRecords, NEW n \in Nat
  PROVE  /\ [r EXCEPT !.uxMessagesWaiting = n] \in QueueRecords
         /\ [r EXCEPT !.pcWriteTo = n] \in QueueRecords
         /\ [r EXCEPT !.pcReadFrom = n] \in QueueRecords
BY DEF QueueRecords

LEMMA SlotUpdate ==
  ASSUME NEW r \in QueueRecords, NEW x \in Item \cup {Zero}, NEW k
  PROVE  [r EXCEPT !.slot[k] = x] \in QueueRecords
<1>1. [r.slot EXCEPT ![k] = x] \in [0 .. Length - 1 -> Item \cup {Zero}]
  BY DEF QueueRecords
<1>2. [r EXCEPT !.slot[k] = x] = [r EXCEPT !.slot = [r.slot EXCEPT ![k] = x]]
  OBVIOUS
<1> QED BY <1>1, <1>2 DEF QueueRecords

LEMMA QueueShape ==
  ASSUME NEW r
  PROVE  Ring!QueueOK(r) <=>
           /\ r \in QueueRecords
           /\ r.pcWriteTo \in 0 .. Length - 1 /\ r.pcReadFrom \in 0 .. Length - 1
<1>1. /\ ItemSize = 1 /\ Length * ItemSize = Length
      /\ (Length - 1) * ItemSize = Length - 1 /\ Length \in Nat \ {0}
  BY SyncAssumption, LengthAssumption
<1> QED BY <1>1 DEF Ring!QueueOK, QueueRecords

LEMMA TypeInit == Init => TypeInv
<1> SUFFICES ASSUME Init PROVE TypeInv
  OBVIOUS
<1> USE SyncAssumption, LengthAssumption DEF Init
<1>1. q \in QueueRecords
  BY SameConstants, ValuesAssumption, Ring!CreateOK, QueueShape
<1>2. 0 \in 0 .. MaxMutexes
  OBVIOUS
<1>3. ControlTypes
  BY <1>2 DEF ControlTypes
<1>4. LocalTypes
  <2>1. Frame \in Locals /\ ~ Frame.sends
    BY <1>2 DEF Frame, Locals
  <2>2. \A t \in Thread : local[t] = Frame /\ pc[t] = "idle"
    OBVIOUS
  <2>3. local \in [Thread -> Locals]
    BY <2>1
  <2> QED BY <2>1, <2>2, <2>3 DEF LocalTypes, Receiving
<1>5. reply \in Replies
  BY DEF pdFAIL, Replies
<1> QED BY <1>1, <1>3, <1>4, <1>5, TypeParts

\* What the calls ask is a send or a receive.
LEMMA AskedType ==
  ASSUME TypeInv, NEW t \in Thread
  PROVE  /\ Asked(t) \in (Item \X Position) \cup {<<>>, <<TRUE>>}
         /\ local[t].item \in Item \cup {Zero, NULL}
<1>1. local[t].item \in Item \cup {Zero, NULL} /\ local[t].sends \in BOOLEAN
  BY DEF TypeInv, TypeOK
<1>2. local[t].sends => <<local[t].item, ADM_QUEUE_INSERT_TO_BACK>> \in Item \X Position
  BY DEF TypeInv, Position
<1>3. CASE local[t].sends
  <2>1. Asked(t) = <<local[t].item, ADM_QUEUE_INSERT_TO_BACK>>
    BY <1>3 DEF Asked
  <2> QED BY <1>1, <1>2, <1>3, <2>1
<1>4. CASE ~ local[t].sends
  <2>1. Asked(t) = <<TRUE>>
    BY <1>4 DEF Asked
  <2> QED BY <1>1, <2>1
<1> QED BY <1>3, <1>4

LEMMA ControlTypeStep ==
  ASSUME ControlTypes, [Next]_vars
  PROVE  ControlTypes'
<1> USE SyncAssumption DEF ControlTypes, Goto, Mutex
<1>1. ASSUME NEW t \in Thread, CreateQueue(t) PROVE ControlTypes'
  <2>1. CASE MutexInitDone(t)
    BY <2>1 DEF MutexInitDone
  <2>2. CASE MutexInitCheck(t)
    BY <2>2 DEF MutexInitCheck
  <2>3. CASE MutexCreate(t)
    BY <2>3 DEF MutexCreate
  <2>4. CASE MutexCreateFails(t)
    <3>1. 0 \in 0 .. MaxMutexes
      OBVIOUS
    <3> QED BY <2>4, <3>1 DEF MutexCreateFails
  <2>5. CASE MutexMark(t)
    BY <2>5 DEF MutexMark
  <2> QED BY <1>1, <2>1, <2>2, <2>3, <2>4, <2>5 DEF CreateQueue
<1>2. ASSUME NEW t \in Thread, NEW sends, NEW item, Call(t, sends, item)
      PROVE  ControlTypes'
  BY <1>2 DEF Call
<1>3. ASSUME NEW t \in Thread, Lock(t) PROVE ControlTypes'
  BY <1>3 DEF Lock
<1>4. ASSUME NEW t \in Thread, Unlock(t) PROVE ControlTypes'
  BY <1>4 DEF Unlock
<1>5. ASSUME NEW t \in Thread, Working(t) PROVE ControlTypes'
  <2>1. overrun' \in BOOLEAN
    BY <1>5 DEF Working, SendCheck, SendRefuse, SendRead, SendWrite, SendCount,
                RecvCheck, RecvRefuse, RecvFetch, RecvClear, RecvCount,
                LoadPointer, StorePointer, TestPointer, RewindPointer
  <2> QED BY <1>5, <2>1, WorkingStep
<1>6. CASE UNCHANGED vars
  BY <1>6 DEF vars
<1> QED BY <1>1, <1>2, <1>3, <1>4, <1>5, <1>6 DEF Next, Inside, Working

\* Moving a pointer on keeps the struct's type, and the locals'.
LEMMA MoveTypeStep ==
  ASSUME TypeInv, NEW t \in Thread,
         LoadPointer(t) \/ StorePointer(t) \/ TestPointer(t) \/ RewindPointer(t)
  PROVE  q' \in QueueRecords /\ LocalTypes' /\ reply' \in Replies
<1>0. /\ q \in QueueRecords /\ ControlTypes /\ LocalTypes /\ reply \in Replies
      /\ local[t].at \in Nat /\ Pointer(t) \in Nat /\ q.uxItemSize = 1
      /\ local[t] \in Locals
  BY TypeParts DEF LocalTypes, Locals, QueueRecords, Pointer
<1>1. CASE LoadPointer(t)
  <2>1. /\ local' = [local EXCEPT ![t].at = Pointer(t)] /\ UNCHANGED <<q, reply>>
        /\ pc[t] = "load" /\ pc' = [pc EXCEPT ![t] = "store"]
    BY <1>1 DEF LoadPointer, Goto
  <2>2. LocalTypes'
    BY <1>0, <2>1 DEF LocalTypes, ControlTypes, Locals, Receiving
  <2> QED BY <1>0, <2>1, <2>2
<1>2. CASE StorePointer(t) \/ RewindPointer(t)
  <2>1. \E p \in Nat : PointTo(t, p)
    <3>1. local[t].at + q.uxItemSize \in Nat /\ 0 \in Nat
      BY <1>0
    <3> QED BY <1>2, <3>1 DEF StorePointer, RewindPointer
  <2>2. q' \in QueueRecords
    <3>1. PICK p \in Nat : PointTo(t, p)
      BY <2>1
    <3> QED BY <1>0, <3>1, QueueUpdates DEF PointTo
  <2>3. /\ UNCHANGED <<local, reply>> /\ pc[t] \in {"store", "rewind"}
        /\ \E to \in {"test", "count", "fetch"} : pc' = [pc EXCEPT ![t] = to]
    BY <1>2 DEF StorePointer, RewindPointer, AfterMove, Goto
  <2> QED BY <1>0, <2>2, <2>3 DEF LocalTypes, ControlTypes, Receiving
<1>3. CASE TestPointer(t)
  <2>1. /\ UNCHANGED <<q, local, reply>> /\ pc[t] = "test"
        /\ \E to \in {"rewind", "count", "fetch"} : pc' = [pc EXCEPT ![t] = to]
    BY <1>3 DEF TestPointer, AfterMove, Goto
  <2> QED BY <1>0, <2>1 DEF LocalTypes, ControlTypes, Receiving
<1> QED BY <1>1, <1>2, <1>3

\* What the other steps inside a call do to the queue, the locals and the reply.
LEMMA DataTypeStep ==
  ASSUME TypeInv, NEW t \in Thread, Working(t)
  PROVE  q' \in QueueRecords /\ LocalTypes' /\ reply' \in Replies
<1>0. /\ q \in QueueRecords /\ ControlTypes /\ LocalTypes /\ reply \in Replies
      /\ local[t].waiting \in Nat /\ q.uxMessagesWaiting \in Nat
      /\ local[t].item \in Item \cup {Zero, NULL}
      /\ local[t].sends => local[t].item \in Item
  BY TypeParts, AskedType DEF LocalTypes, Locals, QueueRecords
<1>1. \A ok \in BOOLEAN, item \in Item \cup {Zero, NULL} :
        [asked |-> Asked(t), ok |-> ok, item |-> item] \in Replies
  BY AskedType DEF Replies
<1>2. Zero \in Item \cup {Zero}
  OBVIOUS
<1>3. CASE SendCheck(t)
  BY <1>0, <1>3 DEF SendCheck, Goto, LocalTypes, ControlTypes, Receiving
<1>4. CASE SendRefuse(t) \/ RecvRefuse(t)
  <2>1. reply' \in Replies
    BY <1>1, <1>4 DEF SendRefuse, RecvRefuse, pdFAIL
  <2>2. UNCHANGED <<q, local>> /\ pc' = [pc EXCEPT ![t] = "unlock"]
    BY <1>4 DEF SendRefuse, RecvRefuse, Goto
  <2> QED BY <1>0, <2>1, <2>2 DEF LocalTypes, ControlTypes, Receiving
<1>5. CASE SendRead(t) \/ RecvCheck(t)
  <2>1. /\ local' = [local EXCEPT ![t].waiting = q.uxMessagesWaiting]
        /\ UNCHANGED <<q, reply>>
        /\ \E to \in {"write", "load"} : pc' = [pc EXCEPT ![t] = to]
        /\ ~ local[t].sends => q.uxMessagesWaiting > 0
    BY <1>5 DEF SendRead, RecvCheck, Goto
  <2>2. LocalTypes'
    BY <1>0, <2>1 DEF LocalTypes, ControlTypes, Locals, Receiving
  <2> QED BY <1>0, <2>1, <2>2
<1>6. CASE SendWrite(t)
  <2>1. /\ local[t].sends /\ UNCHANGED <<local, reply>>
        /\ q' = q \/ q' = [q EXCEPT !.slot[q.pcWriteTo] = local[t].item]
        /\ pc' = [pc EXCEPT ![t] = "load"]
    BY <1>6 DEF SendWrite, Goto
  <2>2. q' \in QueueRecords
    <3>1. local[t].item \in Item \cup {Zero}
      BY <1>0, <2>1
    <3>2. [q EXCEPT !.slot[q.pcWriteTo] = local[t].item] \in QueueRecords
      BY <1>0, <3>1, SlotUpdate
    <3> QED BY <1>0, <2>1, <3>2
  <2> QED BY <1>0, <2>1, <2>2 DEF LocalTypes, ControlTypes
<1>7. CASE SendCount(t)
  <2>1. q' \in QueueRecords
    <3>1. local[t].waiting + 1 \in Nat
      BY <1>0
    <3> QED BY <1>0, <1>7, <3>1, QueueUpdates DEF SendCount
  <2>2. reply' \in Replies
    BY <1>1, <1>7 DEF SendCount, pdPASS
  <2>3. UNCHANGED local /\ pc' = [pc EXCEPT ![t] = "unlock"]
    BY <1>7 DEF SendCount, Goto
  <2> QED BY <1>0, <2>1, <2>2, <2>3 DEF LocalTypes, ControlTypes, Receiving
<1>8. CASE RecvFetch(t)
  <2>1. /\ UNCHANGED <<q, reply>> /\ ~ local[t].sends /\ pc[t] = "fetch"
        /\ pc' = [pc EXCEPT ![t] = "clear"]
        /\ \/ UNCHANGED local
           \/ /\ q.pcReadFrom \in DOMAIN q.slot
              /\ local' = [local EXCEPT ![t].item = q.slot[q.pcReadFrom]]
    BY <1>8 DEF RecvFetch, Goto, InStorageArea
  <2>2. q.pcReadFrom \in DOMAIN q.slot => q.slot[q.pcReadFrom] \in Item \cup {Zero}
    BY <1>0 DEF QueueRecords
  <2>3. LocalTypes'
    BY <1>0, <2>1, <2>2 DEF LocalTypes, ControlTypes, Locals, Receiving
  <2> QED BY <1>0, <2>1, <2>3
<1>9. CASE RecvClear(t)
  <2>1. /\ UNCHANGED <<local, reply>> /\ pc[t] = "clear"
        /\ pc' = [pc EXCEPT ![t] = "count"]
        /\ q' = q \/ q' = [q EXCEPT !.slot[q.pcReadFrom] = Zero]
    BY <1>9 DEF RecvClear, Goto
  <2>2. q' \in QueueRecords
    <3>1. [q EXCEPT !.slot[q.pcReadFrom] = Zero] \in QueueRecords
      BY <1>0, <1>2, SlotUpdate
    <3> QED BY <1>0, <2>1, <3>1
  <2> QED BY <1>0, <2>1, <2>2 DEF LocalTypes, ControlTypes, Receiving
<1>10. CASE RecvCount(t)
  <2>1. local[t].waiting - 1 \in Nat
    BY <1>0, <1>10 DEF RecvCount, Goto, LocalTypes, Receiving
  <2>2. q' \in QueueRecords
    BY <1>0, <1>10, <2>1, QueueUpdates DEF RecvCount
  <2>3. reply' \in Replies
    BY <1>0, <1>1, <1>10 DEF RecvCount, pdPASS
  <2>4. UNCHANGED local /\ pc' = [pc EXCEPT ![t] = "unlock"]
    BY <1>10 DEF RecvCount, Goto
  <2> QED BY <1>0, <2>2, <2>3, <2>4 DEF LocalTypes, ControlTypes, Receiving
<1> QED BY <1>3, <1>4, <1>5, <1>6, <1>7, <1>8, <1>9, <1>10, MoveTypeStep DEF Working

\* The locals of a call that begins.
CallFrame(sends, item) ==
  [Frame EXCEPT !.target = mutex, !.sends = sends, !.item = item]

LEMMA CallFrameFacts ==
  ASSUME NEW sends \in BOOLEAN, NEW item
  PROVE  /\ CallFrame(sends, item) \in
              [target : {mutex}, waiting : {0}, at : {0}, sends : BOOLEAN, item : {item}]
         /\ CallFrame(sends, item).sends <=> sends
         /\ CallFrame(sends, item).item = item
BY DEF CallFrame, Frame

LEMMA TypeStep ==
  ASSUME TypeInv, [Next]_vars
  PROVE  TypeInv'
<1> DEFINE DataTypes == q' \in QueueRecords /\ LocalTypes' /\ reply' \in Replies
<1>0. q \in QueueRecords /\ ControlTypes /\ LocalTypes /\ reply \in Replies
  BY TypeParts
<1>1. ControlTypes'
  BY <1>0, ControlTypeStep
<1>2. ASSUME NEW t \in Thread, CreateQueue(t) PROVE DataTypes
  <2>1. /\ UNCHANGED <<q, local, reply>>
        /\ \/ pc' = pc
           \/ \E to \in {"create", "mark", "idle"} : pc' = [pc EXCEPT ![t] = to]
    BY <1>2 DEF CreateQueue, MutexInitDone, MutexInitCheck, MutexCreate,
                MutexCreateFails, MutexMark, Goto
  <2> QED BY <1>0, <2>1 DEF LocalTypes, ControlTypes, Receiving
<1>3. ASSUME NEW t \in Thread, NEW sends \in BOOLEAN, NEW item \in Item \cup {NULL},
             sends => item \in Item, Call(t, sends, item)
      PROVE  DataTypes
  <2>1. /\ UNCHANGED <<q, reply>> /\ pc' = [pc EXCEPT ![t] = "lock"]
        /\ local' = [local EXCEPT ![t] = CallFrame(sends, item)]
    BY <1>3 DEF Call, Goto, CallFrame
  <2>2. CallFrame(sends, item) \in Locals
    BY <1>0, <1>3, CallFrameFacts DEF Locals, ControlTypes
  <2>3. CallFrame(sends, item).sends => CallFrame(sends, item).item \in Item
    BY <1>3, CallFrameFacts
  <2> QED BY <1>0, <2>1, <2>2, <2>3 DEF LocalTypes, ControlTypes, Receiving
<1>4. ASSUME NEW t \in Thread, Lock(t) PROVE DataTypes
  BY <1>0, <1>4 DEF Lock, Goto, LocalTypes, ControlTypes, Receiving
<1>5. ASSUME NEW t \in Thread, Unlock(t) PROVE DataTypes
  <2>1. Frame \in Locals /\ ~ Frame.sends
    BY SyncAssumption DEF Frame, Locals
  <2> QED BY <1>0, <1>5, <2>1 DEF Unlock, Goto, LocalTypes, ControlTypes, Receiving
<1>6. ASSUME NEW t \in Thread, Working(t) PROVE DataTypes
  BY <1>6, DataTypeStep
<1>7. ASSUME UNCHANGED vars PROVE DataTypes
  BY <1>0, <1>7 DEF vars, LocalTypes
<1> HIDE DEF DataTypes
<1>8. DataTypes
  BY <1>2, <1>3, <1>4, <1>5, <1>6, <1>7, SyncAssumption DEF Next, Inside, Working
<1>9. (q \in QueueRecords /\ ControlTypes /\ LocalTypes /\ reply \in Replies)'
  BY <1>1, <1>8 DEF DataTypes, QueueRecords, Replies
<1>10. (TypeInv <=> q \in QueueRecords /\ ControlTypes /\ LocalTypes /\ reply \in Replies)'
  BY TypeParts, PTL
<1> QED BY <1>9, <1>10

\* For any number of threads, and even when the mutex does not keep them apart:
\* the count stays a number, and each slot an item or cleared.  Of the pointers
\* it says only that they are numbers; where they may stand is InStorage.
THEOREM SyncTypes == Spec => []TypeOK
<1>1. TypeInv => TypeOK
  BY DEF TypeInv
<1>2. Init => TypeInv
  BY TypeInit
<1>3. TypeInv /\ [Next]_vars => TypeInv'
  BY TypeStep
<1> QED BY <1>1, <1>2, <1>3, PTL DEF Spec

-----------------------------------------------------------------------------
(* The data behind the lock *)

\* The ring is in order: the pointers fit the count, the queued slots hold items
\* and the others are cleared.
Ordered(r) == Ring!RingOK(r) /\ Ring!BlankOK(r)

\* Where the pointer that the call of t moves on will come to rest.
MovedTo(t) ==
  CASE pc[t] = "load"   -> WrapUp(q, Pointer(t) + 1)
    [] pc[t] = "store"  -> WrapUp(q, local[t].at + 1)
    [] pc[t] = "test"   -> WrapUp(q, Pointer(t))
    [] pc[t] = "rewind" -> 0
    [] OTHER            -> Pointer(t)

\* The queue as the send of t will leave it when it has updated the count.
SentBy(t) ==
  [q EXCEPT !.pcWriteTo = MovedTo(t), !.uxMessagesWaiting = local[t].waiting + 1]

\* A send from its copy on: the ring is in order up to the pointer and the count.
SendHalfDone(t) ==
  /\ Ordered(SentBy(t))
  /\ Contents(q) \in Seq(Item)
  /\ Contents(SentBy(t)) = Append(Contents(q), local[t].item)

\* A receive that has moved its pointer: the ring was in order before.
RecvHalfDone(t) ==
  /\ Ordered(Before(t))
  /\ local[t].waiting = q.uxMessagesWaiting /\ q.uxMessagesWaiting > 0
  /\ MovedTo(t) = WrapUp(q, local[t].at + 1)

\* How far a call has come, and what holds of the queue there.
WorkOK(t) ==
  /\ pc[t] = "read" => Ordered(q) /\ q.uxMessagesWaiting < Length
  /\ pc[t] = "write" =>
       Ordered(q) /\ q.uxMessagesWaiting < Length /\ local[t].waiting = q.uxMessagesWaiting
  /\ pc[t] \in {"load", "store", "test", "rewind", "count"} /\ local[t].sends =>
       SendHalfDone(t)
  /\ pc[t] \in {"load", "store"} /\ ~ local[t].sends =>
       /\ Ordered(q) /\ local[t].waiting = q.uxMessagesWaiting /\ q.uxMessagesWaiting > 0
       /\ pc[t] = "store" => local[t].at = q.pcReadFrom
  /\ pc[t] \in {"test", "rewind", "fetch", "clear"} /\ ~ local[t].sends => RecvHalfDone(t)
  /\ pc[t] = "clear" /\ ~ local[t].sends => local[t].item = Head(Contents(Before(t)))
  /\ pc[t] = "count" /\ ~ local[t].sends => Ordered(ReceivedBy(t)) /\ local[t].item \in Item

\* Nothing is copied outside the storage, and the ring is in order as long as no
\* call is at work on it.
DataInv ==
  /\ ~ overrun
  /\ (\A t \in Thread : pc[t] \notin Work) => Ordered(q)
  /\ \A t \in Thread : WorkOK(t)

\* In an ordered ring the count is the number of slots that hold an item.
LEMMA CountOfItems ==
  ASSUME NEW r, Ordered(r)
  PROVE  r.uxMessagesWaiting = Cardinality({k \in DOMAIN r.slot : r.slot[k] # Zero})
<1> DEFINE n == r.uxMessagesWaiting
           S == {k \in DOMAIN r.slot : r.slot[k] # Zero}
           f == [i \in 0 .. n - 1 |-> QueuedSlot(r, i)]
<1>1. Ring!QueueOK(r) /\ n \in 0 .. Length /\ Length \in Nat \ {0}
  BY SameOperators, LengthAssumption DEF Ordered, Ring!RingOK, Ring!QueueOK
<1>2. DOMAIN r.slot = 0 .. Length - 1
  BY <1>1, SyncAssumption DEF Ring!QueueOK
<1>3. \A i \in 0 .. n - 1 : i \in 0 .. Length - 1 /\ i \in 0 .. Length
  BY <1>1
<1>a. \A i : Ring!QueuedSlot(r, i) = QueuedSlot(r, i)
  BY SameOperators
<1>b. /\ \A i \in 0 .. Length : Ring!QueuedSlot(r, i) \in 0 .. Length - 1
      /\ \A i, j \in 0 .. Length - 1 :
           Ring!QueuedSlot(r, i) = Ring!QueuedSlot(r, j) => i = j
  BY <1>1, SyncAssumption, ValuesAssumption, LengthAssumption, Ring!QueuedSlotFacts
<1>4. f \in Injection(0 .. n - 1, S)
  <2>1. \A i \in 0 .. n - 1 : QueuedSlot(r, i) \in S
    <3>1. \A i \in 0 .. n - 1 : r.slot[QueuedSlot(r, i)] \in Item
      BY <1>1, <1>a DEF Ordered, Ring!RingOK
    <3> QED BY <1>1, <1>2, <1>3, <1>a, <1>b, <3>1, ValuesAssumption
  <2>2. \A i, j \in 0 .. n - 1 : f[i] = f[j] => i = j
    BY <1>1, <1>3, <1>a, <1>b
  <2>3. f \in [0 .. n - 1 -> S]
    BY <2>1
  <2> QED BY <2>2, <2>3 DEF Injection, IsInjective
<1>5. f \in Surjection(0 .. n - 1, S)
  <2>1. ASSUME NEW k \in S PROVE \E i \in 0 .. n - 1 : f[i] = k
    <3>1. PICK i \in 0 .. Length - 1 : QueuedSlot(r, i) = k
      <4>1. k \in 0 .. Length - 1
        BY <1>2
      <4>2. \E i \in 0 .. Length - 1 : Ring!QueuedSlot(r, i) = k
        BY <1>1, <4>1, SyncAssumption, ValuesAssumption, LengthAssumption, Ring!QueuedSlotOnto
      <4> QED BY <1>a, <4>2
    <3>2. i \notin n .. Length - 1
      BY SameOperators, <3>1 DEF Ordered, Ring!BlankOK
    <3>3. i \in 0 .. n - 1
      BY <1>1, <3>2
    <3> QED BY <3>1, <3>3
  <2>2. f \in [0 .. n - 1 -> S]
    BY <1>4 DEF Injection
  <2> QED BY <2>1, <2>2 DEF Surjection
<1>6. IsFiniteSet(0 .. n - 1) /\ Cardinality(0 .. n - 1) = n
  <2>1. n - 1 \in Int /\ 0 \in Int /\ (IF 0 > n - 1 THEN 0 ELSE (n - 1) - 0 + 1) = n
    BY <1>1
  <2> HIDE DEF n
  <2> QED BY <2>1, FS_Interval
<1>7. ExistsBijection(0 .. n - 1, S)
  BY <1>4, <1>5 DEF ExistsBijection, Bijection
<1> HIDE DEF n, S
<1>8. Cardinality(S) = n
  BY <1>6, <1>7, FS_Bijection
<1> QED BY <1>8 DEF n, S

\* A sequence is its head and its tail.
LEMMA HeadThenTail ==
  /\ \A c \in Seq(Item) : c # <<>> => <<Head(c)>> \o Tail(c) = c
  /\ \A item \in Item, c \in Seq(Item) :
       /\ <<item>> \o c # <<>>
       /\ Head(<<item>> \o c) = item
       /\ Tail(<<item>> \o c) = c
OBVIOUS

\* Who is inside a call is there alone.
LEMMA AloneInside ==
  ASSUME LockInv, NEW t \in Thread, Working(t)
  PROVE  /\ InCall(t)
         /\ \A s \in Thread : s # t => pc'[s] = pc[s] /\ pc[s] \notin Work
<1>1. /\ InCall(t) /\ \E to : pc' = [pc EXCEPT ![t] = to]
  BY WorkingStep DEF InCall, Work
<1>2. \A s \in Thread : InCall(s) => s = t
  BY <1>1 DEF LockInv
<1>3. \A s \in Thread : pc[s] \in Work => InCall(s)
  BY DEF InCall, Work
<1> QED BY <1>1, <1>2, <1>3 DEF LockInv, ControlOK

\* So the data invariant is kept when the one call at work keeps its part.
LEMMA DataByWork ==
  ASSUME LockInv, NEW t \in Thread, Working(t), ~ overrun', WorkOK(t)',
         pc'[t] \notin Work => Ordered(q')
  PROVE  DataInv'
<1>1. \A s \in Thread : s # t => pc'[s] \notin Work
  BY AloneInside
<1>2. \A s \in Thread : s # t => WorkOK(s)'
  BY <1>1 DEF WorkOK, Work
<1> QED BY <1>2 DEF DataInv, Ordered

\* What the sequence holds, in terms of the one call at work: the ring, or the
\* ring as it was before a receive moved its pointer, or the item that a receive
\* has taken out, before the rest.
LEMMA ContentsNow ==
  ASSUME NEW t \in Thread, \A s \in Thread : s # t => pc[s] \notin Work
  PROVE  /\ pc[t] \notin Work \/ pc[t] \in {"read", "write", "load", "store"} \/ local[t].sends =>
              AtomicContents = Contents(q)
         /\ pc[t] \in {"test", "rewind", "fetch", "clear"} /\ ~ local[t].sends =>
              AtomicContents = Contents(Before(t))
         /\ pc[t] = "count" /\ ~ local[t].sends =>
              AtomicContents = <<local[t].item>> \o Contents(ReceivedBy(t))
<1>0. Moved \subseteq {t} /\ Cleared \subseteq {t}
  BY DEF Moved, Cleared, Work
<1>1. ASSUME pc[t] \notin Work \/ pc[t] \in {"read", "write", "load", "store"} \/ local[t].sends
      PROVE  AtomicContents = Contents(q)
  <2>1. Moved = {} /\ Cleared = {}
    BY <1>0, <1>1 DEF Moved, Cleared, Work
  <2> QED BY <2>1 DEF AtomicContents
<1>2. ASSUME pc[t] \in {"test", "rewind", "fetch", "clear"} /\ ~ local[t].sends
      PROVE  AtomicContents = Contents(Before(t))
  <2>1. Moved = {t} /\ Cleared = {}
    BY <1>0, <1>2 DEF Moved, Cleared, Work
  <2>2. (CHOOSE s \in Moved : TRUE) = t
    BY <2>1
  <2> QED BY <2>1, <2>2 DEF AtomicContents
<1>3. ASSUME pc[t] = "count" /\ ~ local[t].sends
      PROVE  AtomicContents = <<local[t].item>> \o Contents(ReceivedBy(t))
  <2>1. Moved = {} /\ Cleared = {t}
    BY <1>0, <1>3 DEF Moved, Cleared, Work
  <2>2. (CHOOSE s \in Cleared : TRUE) = t
    BY <2>1
  <2> QED BY <2>1, <2>2 DEF AtomicContents
<1> QED BY <1>1, <1>2, <1>3

\* The same of the state after a step.
LEMMA ContentsThen ==
  ASSUME NEW t \in Thread, \A s \in Thread : s # t => pc'[s] \notin Work
  PROVE  /\ pc'[t] \notin Work \/ pc'[t] \in {"read", "write", "load", "store"} \/ local'[t].sends =>
              AtomicContents' = Contents(q')
         /\ pc'[t] \in {"test", "rewind", "fetch", "clear"} /\ ~ local'[t].sends =>
              AtomicContents' = Contents(Before(t)')
         /\ pc'[t] = "count" /\ ~ local'[t].sends =>
              AtomicContents' = <<local'[t].item>> \o Contents(ReceivedBy(t)')
<1>0. Moved' \subseteq {t} /\ Cleared' \subseteq {t}
  BY DEF Moved, Cleared, Work
<1>1. ASSUME pc'[t] \notin Work \/ pc'[t] \in {"read", "write", "load", "store"} \/ local'[t].sends
      PROVE  AtomicContents' = Contents(q')
  <2>1. Moved' = {} /\ Cleared' = {}
    BY <1>0, <1>1 DEF Moved, Cleared, Work
  <2> QED BY <2>1 DEF AtomicContents, Contents, QueuedSlot
<1>2. ASSUME pc'[t] \in {"test", "rewind", "fetch", "clear"} /\ ~ local'[t].sends
      PROVE  AtomicContents' = Contents(Before(t)')
  <2>1. Moved' = {t} /\ Cleared' = {}
    BY <1>0, <1>2 DEF Moved, Cleared, Work
  <2>2. (CHOOSE s \in Moved' : TRUE) = t
    BY <2>1
  <2> QED BY <2>1, <2>2 DEF AtomicContents
<1>3. ASSUME pc'[t] = "count" /\ ~ local'[t].sends
      PROVE  AtomicContents' = <<local'[t].item>> \o Contents(ReceivedBy(t)')
  <2>1. Moved' = {} /\ Cleared' = {t}
    BY <1>0, <1>3 DEF Moved, Cleared, Work
  <2>2. (CHOOSE s \in Cleared' : TRUE) = t
    BY <2>1
  <2> QED BY <2>1, <2>2 DEF AtomicContents
<1> QED BY <1>1, <1>2, <1>3

-----------------------------------------------------------------------------
(* The steps of a call and of the sequence *)

\* The struct's fields that the steps look at.
LEMMA QueueFields ==
  ASSUME TypeInv
  PROVE  /\ q \in QueueRecords /\ q.uxItemSize = 1 /\ q.uxLength = Length
         /\ q.pcTail = Length /\ DOMAIN q.slot = 0 .. Length - 1
         /\ q.uxMessagesWaiting \in Nat /\ q.pcWriteTo \in Nat /\ q.pcReadFrom \in Nat
         /\ ItemSize = 1 /\ Length \in Nat \ {0}
BY SyncAssumption, LengthAssumption, TypeParts DEF QueueRecords

\* A call that does not copy, count or move a pointer is no step of the sequence.
LEMMA DataSendCheck ==
  ASSUME LockInv, TypeInv, DataInv, NEW t \in Thread, SendCheck(t) \/ SendRead(t)
  PROVE  DataInv' /\ [Fifo!Next]_(Fifo!fvars)
<1>0. /\ Working(t) /\ UNCHANGED <<q, reply, overrun>>
      /\ \A s \in Thread : s # t => pc'[s] \notin Work /\ pc[s] \notin Work
  BY AloneInside DEF Working, SendCheck, SendRead
<1>1. DataInv' /\ AtomicContents' = Contents(q') /\ AtomicContents = Contents(q)
  <2>1. CASE SendCheck(t)
    <3>1. /\ pc[t] = "check" /\ pc'[t] = "read" /\ UNCHANGED local
          /\ q.uxMessagesWaiting < Length /\ Ordered(q)
      BY <1>0, <2>1, QueueFields DEF SendCheck, Goto, LockInv, ControlOK, DataInv, Work
    <3>2. WorkOK(t)'
      BY <1>0, <3>1 DEF WorkOK, Ordered
    <3> QED BY <1>0, <3>1, <3>2, DataByWork, ContentsNow, ContentsThen DEF DataInv, Work
  <2>2. CASE SendRead(t)
    <3>1. /\ pc[t] = "read" /\ pc'[t] = "write" /\ local[t].sends
          /\ local' = [local EXCEPT ![t].waiting = q.uxMessagesWaiting]
          /\ q.uxMessagesWaiting < Length /\ Ordered(q)
      BY <1>0, <2>2 DEF SendRead, Goto, LockInv, ControlOK, DataInv, WorkOK
    <3>2. local'[t].waiting = q.uxMessagesWaiting
      BY <3>1 DEF TypeInv, TypeOK
    <3>3. WorkOK(t)'
      BY <1>0, <3>1, <3>2 DEF WorkOK, Ordered
    <3> QED BY <1>0, <3>1, <3>3, DataByWork, ContentsNow, ContentsThen DEF DataInv, Work
  <2> QED BY <2>1, <2>2
<1> QED BY <1>0, <1>1 DEF Fifo!fvars

LEMMA DataSendRefuse ==
  ASSUME LockInv, TypeInv, DataInv, NEW t \in Thread, SendRefuse(t)
  PROVE  DataInv' /\ [Fifo!Next]_(Fifo!fvars)
<1>0. /\ Working(t) /\ UNCHANGED <<q, local, overrun>>
      /\ \A s \in Thread : s # t => pc'[s] \notin Work /\ pc[s] \notin Work
  BY AloneInside DEF Working, SendRefuse
<1>1. /\ pc[t] = "check" /\ pc'[t] = "unlock" /\ local[t].sends /\ local[t].item \in Item
      /\ q.uxMessagesWaiting >= Length
      /\ reply' = pdFAIL(<<local[t].item, ADM_QUEUE_INSERT_TO_BACK>>)
  BY QueueFields DEF SendRefuse, Goto, TypeInv, TypeOK, Asked
<1>2. Ring!RingOK(q) /\ Ordered(q)
  BY <1>0, <1>1 DEF DataInv, Ordered, Work
<1>3. DataInv'
  <2>1. WorkOK(t)'
    BY <1>1 DEF WorkOK
  <2> QED BY <1>0, <1>2, <2>1, DataByWork DEF DataInv
<1>4. AtomicContents = Contents(q) /\ AtomicContents' = Contents(q)
  BY <1>0, <1>1, ContentsNow, ContentsThen DEF Work
<1>5. Len(Contents(q)) = q.uxMessagesWaiting
  BY <1>2, SameOperators, ValuesAssumption, LengthAssumption, Ring!ContentsFacts
<1>6. Fifo!SendRefused(local[t].item, ADM_QUEUE_INSERT_TO_BACK)
  BY <1>1, <1>4, <1>5 DEF Fifo!SendRefused, pdFAIL, Fifo!pdFAIL
<1>7. Fifo!Next
  BY <1>1, <1>6 DEF Fifo!Next
<1> QED BY <1>3, <1>7

\* Two structs that agree but for the write pointer hold the same contents.
LEMMA ContentsKept ==
  ASSUME NEW r, NEW s, r.slot = s.slot, r.pcReadFrom = s.pcReadFrom,
         r.uxLength = s.uxLength, r.uxMessagesWaiting = s.uxMessagesWaiting
  PROVE  Contents(r) = Contents(s)
BY DEF Contents, QueuedSlot

LEMMA DataSendWrite ==
  ASSUME LockInv, TypeInv, DataInv, NEW t \in Thread, SendWrite(t)
  PROVE  DataInv' /\ [Fifo!Next]_(Fifo!fvars)
<1>0. /\ Working(t) /\ UNCHANGED <<local, reply>>
      /\ \A s \in Thread : s # t => pc'[s] \notin Work /\ pc[s] \notin Work
  BY AloneInside DEF Working, SendWrite
<1> DEFINE item == local[t].item
           back == Ring!ADM_QUEUE_INSERT_TO_BACK
           sent == Ring!adm_queue_copy_data2list(q, item, back)
           copied == Ring!Inserted(q, item, back)
<1>1. /\ pc[t] = "write" /\ pc'[t] = "load" /\ local[t].sends /\ item \in Item
      /\ Ring!RingOK(q) /\ Ring!BlankOK(q) /\ q.uxMessagesWaiting < Length
      /\ local[t].waiting = q.uxMessagesWaiting
  BY DEF SendWrite, Goto, LockInv, ControlOK, TypeInv, DataInv, WorkOK, Ordered
<1>2. q.pcWriteTo \in 0 .. Length - 1 /\ Ring!QueueOK(q)
  BY <1>1, QueueShape DEF Ring!RingOK
<1>3. ~ overrun' /\ q' = [q EXCEPT !.slot[q.pcWriteTo] = item]
  BY <1>2, QueueFields DEF SendWrite, InStorageArea
<1>4. Ring!Contents(copied) = Ring!Contents(q)
  BY <1>1, QueueFields, ValuesAssumption, LengthAssumption, Ring!BackCopied
<1>5. Ring!RingOK(sent) /\ Ring!Contents(sent) = Append(Ring!Contents(q), item)
  BY <1>1, QueueFields, ValuesAssumption, LengthAssumption, Ring!BackAppends
<1>6. Ring!BlankOK(sent)
  BY <1>1, QueueFields, ValuesAssumption, LengthAssumption, Ring!BackKeepsBlank
<1>7. Contents(q) \in Seq(Item)
  BY <1>1, SameOperators, ValuesAssumption, LengthAssumption, Ring!ContentsFacts
<1>8. /\ copied = Inserted(q, item, ADM_QUEUE_INSERT_TO_BACK)
      /\ sent = adm_queue_copy_data2list(q, item, ADM_QUEUE_INSERT_TO_BACK)
  BY SameOperators, SameConstants
<1>9. copied = [q EXCEPT !.slot = [q.slot EXCEPT ![q.pcWriteTo] = item],
                         !.pcWriteTo = WrapUp(q, q.pcWriteTo + 1)]
  <2>1. item # NULL /\ q.uxItemSize # 0
    BY <1>1, QueueFields, ValuesAssumption
  <2>2. Inserted(q, item, ADM_QUEUE_INSERT_TO_BACK) = InsertBack(q, item)
    BY <2>1 DEF Inserted, ADM_QUEUE_INSERT_TO_BACK
  <2> QED BY <1>8, <2>1, <2>2, QueueFields DEF InsertBack, Stored, Stride
<1>10. sent = [copied EXCEPT !.uxMessagesWaiting = q.uxMessagesWaiting + 1]
  <2>1. CountAfterInsert(q, ADM_QUEUE_INSERT_TO_BACK) = q.uxMessagesWaiting + 1
    BY DEF CountAfterInsert, ADM_QUEUE_INSERT_TO_BACK, ADM_QUEUE_INSERT_OVERWRITE
  <2> QED BY <1>8, <2>1 DEF adm_queue_copy_data2list
<1> HIDE DEF sent, copied, back
<1>11. SentBy(t)' = sent
  <2>1. MovedTo(t)' = WrapUp(q, q.pcWriteTo + 1)
    BY <1>0, <1>1, <1>3 DEF MovedTo, Pointer, WrapUp
  <2>2. local'[t].waiting = q.uxMessagesWaiting
    BY <1>0, <1>1
  <2>3. SentBy(t)' = [q' EXCEPT !.pcWriteTo = WrapUp(q, q.pcWriteTo + 1),
                                !.uxMessagesWaiting = q.uxMessagesWaiting + 1]
    BY <2>1, <2>2 DEF SentBy
  <2> QED BY <1>3, <1>9, <1>10, <2>3, QueueFields DEF QueueRecords
<1>12. Contents(q') = Contents(q)
  <2>1. Contents(q') = Contents(copied)
    BY <1>3, <1>9, ContentsKept, QueueFields DEF QueueRecords
  <2> QED BY <1>4, <2>1, SameOperators
<1>13. WorkOK(t)'
  <2>1. Contents(sent) = Append(Contents(q), item)
    BY <1>5, SameOperators
  <2>2. /\ Ordered(SentBy(t)') /\ Contents(q') \in Seq(Item)
        /\ Contents(SentBy(t)') = Append(Contents(q'), local'[t].item)
    BY <1>0, <1>5, <1>6, <1>7, <1>11, <1>12, <2>1 DEF Ordered
  <2>3. SendHalfDone(t)'
    BY <2>2 DEF SendHalfDone, Ordered, Contents, QueuedSlot
  <2> QED BY <1>0, <1>1, <2>3 DEF WorkOK
<1>14. DataInv'
  BY <1>0, <1>1, <1>3, <1>13, DataByWork DEF Work
<1>15. AtomicContents = Contents(q) /\ AtomicContents' = Contents(q')
  BY <1>0, <1>1, ContentsNow, ContentsThen
<1> QED BY <1>0, <1>12, <1>14, <1>15 DEF Fifo!fvars

LEMMA DataSendCount ==
  ASSUME LockInv, TypeInv, DataInv, NEW t \in Thread, SendCount(t)
  PROVE  DataInv' /\ [Fifo!Next]_(Fifo!fvars)
<1>0. /\ Working(t) /\ UNCHANGED <<local, overrun>>
      /\ \A s \in Thread : s # t => pc'[s] \notin Work /\ pc[s] \notin Work
  BY AloneInside DEF Working, SendCount
<1> DEFINE item == local[t].item
<1>1. /\ pc[t] = "count" /\ pc'[t] = "unlock" /\ local[t].sends /\ item \in Item
      /\ SendHalfDone(t)
  BY DEF SendCount, Goto, LockInv, ControlOK, TypeInv, DataInv, WorkOK
<1>2. q' = SentBy(t) /\ reply' = pdPASS(<<item, ADM_QUEUE_INSERT_TO_BACK>>, NULL)
  <2>1. MovedTo(t) = q.pcWriteTo
    BY <1>1 DEF MovedTo, Pointer
  <2>2. [q EXCEPT !.pcWriteTo = q.pcWriteTo] = q
    BY QueueFields DEF QueueRecords
  <2> QED BY <1>1, <2>1, <2>2 DEF SendCount, SentBy, Asked
<1>3. /\ Ordered(q') /\ Contents(q) \in Seq(Item)
      /\ Contents(q') = Append(Contents(q), item)
  BY <1>1, <1>2 DEF SendHalfDone
<1>4. DataInv'
  <2>1. WorkOK(t)'
    BY <1>1 DEF WorkOK
  <2> QED BY <1>0, <1>3, <2>1, DataByWork DEF DataInv
<1>5. AtomicContents = Contents(q) /\ AtomicContents' = Append(Contents(q), item)
  BY <1>0, <1>1, <1>3, ContentsNow, ContentsThen DEF Work
<1>6. Len(Contents(q)) < Length
  <2>1. Len(Contents(q')) = q'.uxMessagesWaiting /\ q'.uxMessagesWaiting <= Length
    BY <1>3, SameOperators, ValuesAssumption, LengthAssumption, Ring!ContentsFacts
       DEF Ordered, Ring!RingOK
  <2>2. Len(Contents(q)) \in Nat /\ Len(Append(Contents(q), item)) = Len(Contents(q)) + 1
    BY <1>3, LenProperties, AppendProperties
  <2> QED BY <1>3, <2>1, <2>2, LengthAssumption
<1>7. Fifo!SendBack(item)
  BY <1>2, <1>5, <1>6 DEF Fifo!SendBack, pdPASS, Fifo!pdPASS
<1>8. Fifo!Next
  BY <1>1, <1>7 DEF Fifo!Next
<1> QED BY <1>4, <1>8

\* Loading, storing, testing and rewinding a pointer: it will come to rest in the
\* same place, and nothing else of the struct moves.
Moving(t) == LoadPointer(t) \/ StorePointer(t) \/ TestPointer(t) \/ RewindPointer(t)

LEMMA MovingStep ==
  ASSUME LockInv, TypeInv, NEW t \in Thread, Moving(t)
  PROVE  /\ MovedTo(t)' = MovedTo(t)
         /\ \E p : PointTo(t, p)
         /\ local'[t].sends = local[t].sends /\ local'[t].item = local[t].item
         /\ local'[t].waiting = local[t].waiting
         /\ UNCHANGED <<overrun, reply>>
<1>0. /\ pc[t] \in {"load", "store", "test", "rewind"} /\ q \in QueueRecords
      /\ local[t] \in Locals /\ t \in DOMAIN pc /\ t \in DOMAIN local
      /\ q.uxItemSize = 1 /\ q.pcTail = Length
  BY TypeParts, QueueFields
     DEF Moving, LoadPointer, StorePointer, TestPointer, RewindPointer, Goto,
         LocalTypes, ControlTypes
<1>1. CASE LoadPointer(t)
  <2>1. /\ local' = [local EXCEPT ![t].at = Pointer(t)] /\ UNCHANGED <<q, overrun, reply>>
        /\ pc[t] = "load" /\ pc'[t] = "store"
    BY <1>0, <1>1 DEF LoadPointer, Goto
  <2>2. /\ local'[t].sends = local[t].sends /\ local'[t].item = local[t].item
        /\ local'[t].waiting = local[t].waiting /\ local'[t].at = Pointer(t)
    BY <1>0, <2>1 DEF Locals
  <2>3. MovedTo(t)' = MovedTo(t)
    BY <2>1, <2>2 DEF MovedTo, WrapUp
  <2>4. q' = [q EXCEPT !.pcWriteTo = q.pcWriteTo] /\ q' = [q EXCEPT !.pcReadFrom = q.pcReadFrom]
    BY <1>0, <2>1 DEF QueueRecords
  <2> QED BY <2>1, <2>2, <2>3, <2>4 DEF PointTo
<1>2. CASE StorePointer(t)
  <2>1. /\ PointTo(t, local[t].at + 1) /\ UNCHANGED <<local, overrun, reply>>
        /\ pc[t] = "store" /\ pc'[t] = "test"
    BY <1>0, <1>2 DEF StorePointer, Goto
  <2>2. Pointer(t)' = local[t].at + 1 /\ q'.pcTail = q.pcTail
    BY <1>0, <2>1 DEF Pointer, PointTo, QueueRecords
  <2>3. MovedTo(t)' = MovedTo(t)
    BY <2>1, <2>2 DEF MovedTo, WrapUp
  <2> QED BY <2>1, <2>3
<1>3. CASE TestPointer(t)
  <2>1. /\ UNCHANGED <<q, local, overrun, reply>> /\ pc[t] = "test"
        /\ pc'[t] = IF Pointer(t) >= q.pcTail THEN "rewind" ELSE AfterMove(t)
    BY <1>0, <1>3 DEF TestPointer, Goto
  <2>2. MovedTo(t)' = MovedTo(t)
    <3>1. Pointer(t)' = Pointer(t) /\ MovedTo(t) = WrapUp(q, Pointer(t))
      BY <2>1 DEF Pointer, MovedTo
    <3>2. CASE Pointer(t) >= q.pcTail
      BY <2>1, <3>1, <3>2 DEF MovedTo, WrapUp
    <3>3. CASE ~ (Pointer(t) >= q.pcTail)
      <4>1. pc'[t] \in {"count", "fetch"}
        BY <2>1, <3>3 DEF AfterMove
      <4>2. MovedTo(t)' = Pointer(t)'
        BY <4>1 DEF MovedTo
      <4> QED BY <3>1, <3>3, <4>2 DEF WrapUp
    <3> QED BY <3>2, <3>3
  <2>3. q' = [q EXCEPT !.pcWriteTo = q.pcWriteTo] /\ q' = [q EXCEPT !.pcReadFrom = q.pcReadFrom]
    BY <1>0, <2>1 DEF QueueRecords
  <2> QED BY <2>1, <2>2, <2>3 DEF PointTo
<1>4. CASE RewindPointer(t)
  <2>1. /\ PointTo(t, 0) /\ UNCHANGED <<local, overrun, reply>>
        /\ pc[t] = "rewind" /\ pc'[t] \in {"count", "fetch"}
    BY <1>0, <1>4 DEF RewindPointer, Goto, AfterMove
  <2>2. Pointer(t)' = 0
    BY <1>0, <2>1 DEF Pointer, PointTo, QueueRecords
  <2>3. MovedTo(t)' = MovedTo(t)
    BY <2>1, <2>2 DEF MovedTo
  <2> QED BY <2>1, <2>3
<1> QED BY <1>1, <1>2, <1>3, <1>4 DEF Moving

LEMMA DataSendMove ==
  ASSUME LockInv, TypeInv, DataInv, NEW t \in Thread, Moving(t), local[t].sends
  PROVE  DataInv' /\ [Fifo!Next]_(Fifo!fvars)
<1>0. /\ Working(t)
      /\ \A s \in Thread : s # t => pc'[s] \notin Work /\ pc[s] \notin Work
  BY AloneInside DEF Working, Moving
<1>1. /\ pc[t] \in {"load", "store", "test", "rewind"}
      /\ pc'[t] \in {"store", "test", "rewind", "count"}
      /\ SendHalfDone(t)
  <2>1. pc[t] \in {"load", "store", "test", "rewind"}
    BY DEF Moving, LoadPointer, StorePointer, TestPointer, RewindPointer, Goto
  <2>2. pc'[t] \in {"store", "test", "rewind", "count"}
    BY DEF Moving, LoadPointer, StorePointer, TestPointer, RewindPointer, Goto,
           AfterMove, LockInv, ControlOK
  <2> QED BY <2>1, <2>2 DEF DataInv, WorkOK
<1>2. PICK p : q' = [q EXCEPT !.pcWriteTo = p]
  BY MovingStep DEF PointTo
<1>3. /\ MovedTo(t)' = MovedTo(t) /\ local'[t].sends
      /\ local'[t].item = local[t].item /\ local'[t].waiting = local[t].waiting
      /\ UNCHANGED <<overrun, reply>>
  BY MovingStep
<1>4. SentBy(t)' = SentBy(t)
  <2>1. SentBy(t)' = [q' EXCEPT !.pcWriteTo = MovedTo(t),
                                !.uxMessagesWaiting = local[t].waiting + 1]
    BY <1>3 DEF SentBy
  <2> QED BY <1>2, <2>1, QueueFields DEF SentBy, QueueRecords
<1>5. Contents(q') = Contents(q)
  BY <1>2, ContentsKept, QueueFields DEF QueueRecords
<1>6. WorkOK(t)'
  <2>1. SendHalfDone(t)'
    BY <1>1, <1>3, <1>4, <1>5 DEF SendHalfDone, Ordered
  <2> QED BY <1>1, <1>3, <2>1 DEF WorkOK
<1>7. DataInv'
  BY <1>0, <1>1, <1>3, <1>6, DataByWork DEF DataInv, Work
<1>8. AtomicContents = Contents(q) /\ AtomicContents' = Contents(q')
  BY <1>0, <1>3, ContentsNow, ContentsThen
<1> QED BY <1>3, <1>5, <1>7, <1>8 DEF Fifo!fvars

\* Changing the read pointer and changing it back.
LEMMA BeforeAgain ==
  ASSUME TypeInv, NEW p, NEW n
  PROVE  /\ [[q EXCEPT !.pcReadFrom = p] EXCEPT !.pcReadFrom = n] = [q EXCEPT !.pcReadFrom = n]
         /\ n = q.pcReadFrom => [q EXCEPT !.pcReadFrom = n] = q
BY QueueFields DEF QueueRecords

LEMMA DataRecvMove ==
  ASSUME LockInv, TypeInv, DataInv, NEW t \in Thread, Moving(t), ~ local[t].sends
  PROVE  DataInv' /\ [Fifo!Next]_(Fifo!fvars)
<1>0. /\ Working(t)
      /\ \A s \in Thread : s # t => pc'[s] \notin Work /\ pc[s] \notin Work
  BY AloneInside DEF Working, Moving
<1>1. PICK p : q' = [q EXCEPT !.pcReadFrom = p]
  BY MovingStep DEF PointTo
<1>2. /\ MovedTo(t)' = MovedTo(t) /\ ~ local'[t].sends
      /\ local'[t].waiting = local[t].waiting
      /\ UNCHANGED <<overrun, reply>>
  BY MovingStep
<1>3. /\ q'.uxMessagesWaiting = q.uxMessagesWaiting /\ q'.pcTail = q.pcTail
      /\ \A n : [q' EXCEPT !.pcReadFrom = n] = [q EXCEPT !.pcReadFrom = n]
  BY <1>1, BeforeAgain, QueueFields DEF QueueRecords
<1>4. CASE LoadPointer(t)
  <2>1. /\ pc[t] = "load" /\ pc'[t] = "store" /\ q' = q
        /\ local'[t].at = q.pcReadFrom
    BY <1>4 DEF LoadPointer, Goto, Pointer, LockInv, ControlOK, TypeInv, TypeOK
  <2>2. Ordered(q) /\ local[t].waiting = q.uxMessagesWaiting /\ q.uxMessagesWaiting > 0
    BY <2>1 DEF DataInv, WorkOK
  <2>3. WorkOK(t)'
    BY <1>2, <2>1, <2>2 DEF WorkOK, Ordered
  <2>4. DataInv'
    BY <1>0, <1>2, <2>1, <2>3, DataByWork DEF DataInv, Work
  <2>5. AtomicContents = Contents(q) /\ AtomicContents' = Contents(q')
    BY <1>0, <2>1, ContentsNow, ContentsThen
  <2> QED BY <1>2, <2>1, <2>4, <2>5 DEF Fifo!fvars
<1>5. CASE StorePointer(t)
  <2>1. pc[t] = "store" /\ pc'[t] = "test" /\ UNCHANGED local
    BY <1>5 DEF StorePointer, Goto, LockInv, ControlOK
  <2>2. /\ Ordered(q) /\ local[t].waiting = q.uxMessagesWaiting /\ q.uxMessagesWaiting > 0
        /\ local[t].at = q.pcReadFrom
    BY <2>1 DEF DataInv, WorkOK
  <2>3. Before(t)' = q
    BY <1>3, <2>1, <2>2, BeforeAgain DEF Before
  <2>4. MovedTo(t)' = WrapUp(q, local[t].at + 1)
    BY <1>2, <2>1 DEF MovedTo
  <2>5. WorkOK(t)'
    <3>1. RecvHalfDone(t)'
      BY <1>3, <2>1, <2>2, <2>3, <2>4 DEF RecvHalfDone, Ordered, WrapUp
    <3> QED BY <1>2, <2>1, <3>1 DEF WorkOK
  <2>6. DataInv'
    BY <1>0, <1>2, <2>1, <2>5, DataByWork DEF DataInv, Work
  <2>7. AtomicContents = Contents(q) /\ AtomicContents' = Contents(q)
    BY <1>0, <1>2, <2>1, <2>3, ContentsNow, ContentsThen
  <2> QED BY <1>2, <2>6, <2>7 DEF Fifo!fvars
<1>6. CASE TestPointer(t) \/ RewindPointer(t)
  <2>1. /\ pc[t] \in {"test", "rewind"} /\ pc'[t] \in {"rewind", "fetch"} /\ UNCHANGED local
    BY <1>6 DEF TestPointer, RewindPointer, AfterMove, Goto, LockInv, ControlOK
  <2>2. RecvHalfDone(t)
    BY <2>1 DEF DataInv, WorkOK
  <2>3. Before(t)' = Before(t)
    BY <1>3, <2>1 DEF Before
  <2>4. WorkOK(t)'
    <3>1. RecvHalfDone(t)'
      BY <1>2, <1>3, <2>1, <2>2, <2>3 DEF RecvHalfDone, Ordered, WrapUp
    <3> QED BY <1>2, <2>1, <3>1 DEF WorkOK
  <2>5. DataInv'
    BY <1>0, <1>2, <2>1, <2>4, DataByWork DEF DataInv, Work
  <2>6. AtomicContents = Contents(Before(t)) /\ AtomicContents' = Contents(Before(t))
    BY <1>0, <1>2, <2>1, <2>3, ContentsNow, ContentsThen
  <2> QED BY <1>2, <2>5, <2>6 DEF Fifo!fvars
<1> QED BY <1>4, <1>5, <1>6 DEF Moving

LEMMA DataRecvCheck ==
  ASSUME LockInv, TypeInv, DataInv, NEW t \in Thread, RecvCheck(t)
  PROVE  DataInv' /\ [Fifo!Next]_(Fifo!fvars)
<1>0. /\ Working(t) /\ UNCHANGED <<q, reply, overrun>>
      /\ \A s \in Thread : s # t => pc'[s] \notin Work /\ pc[s] \notin Work
  BY AloneInside DEF Working, RecvCheck
<1>1. /\ pc[t] = "check" /\ pc'[t] = "load" /\ ~ local[t].sends
      /\ local' = [local EXCEPT ![t].waiting = q.uxMessagesWaiting]
      /\ q.uxMessagesWaiting > 0
  BY DEF RecvCheck, Goto, LockInv, ControlOK
<1>2. ~ local'[t].sends /\ local'[t].waiting = q.uxMessagesWaiting
  BY <1>1 DEF TypeInv, TypeOK
<1>3. Ordered(q)
  BY <1>0, <1>1 DEF DataInv, Work
<1>4. WorkOK(t)'
  BY <1>0, <1>1, <1>2, <1>3 DEF WorkOK, Ordered
<1>5. DataInv'
  BY <1>0, <1>1, <1>4, DataByWork DEF DataInv, Work
<1>6. AtomicContents = Contents(q) /\ AtomicContents' = Contents(q')
  BY <1>0, <1>1, ContentsNow, ContentsThen DEF Work
<1> QED BY <1>0, <1>5, <1>6 DEF Fifo!fvars

LEMMA DataRecvRefuse ==
  ASSUME LockInv, TypeInv, DataInv, NEW t \in Thread, RecvRefuse(t)
  PROVE  DataInv' /\ [Fifo!Next]_(Fifo!fvars)
<1>0. /\ Working(t) /\ UNCHANGED <<q, local, overrun>>
      /\ \A s \in Thread : s # t => pc'[s] \notin Work /\ pc[s] \notin Work
  BY AloneInside DEF Working, RecvRefuse
<1>1. /\ pc[t] = "check" /\ pc'[t] = "unlock" /\ ~ local[t].sends
      /\ q.uxMessagesWaiting = 0 /\ reply' = pdFAIL(<<TRUE>>)
  BY DEF RecvRefuse, Goto, LockInv, ControlOK, Asked
<1>2. Ring!RingOK(q) /\ Ordered(q)
  BY <1>0, <1>1 DEF DataInv, Ordered, Work
<1>3. DataInv'
  <2>1. WorkOK(t)'
    BY <1>1 DEF WorkOK
  <2> QED BY <1>0, <1>2, <2>1, DataByWork DEF DataInv
<1>4. AtomicContents = Contents(q) /\ AtomicContents' = Contents(q)
  BY <1>0, <1>1, ContentsNow, ContentsThen DEF Work
<1>5. Contents(q) = <<>>
  BY <1>1, <1>2, SameOperators, ValuesAssumption, LengthAssumption, Ring!ContentsFacts, EmptySeq
<1>6. Fifo!ReceiveNothing(TRUE)
  BY <1>1, <1>4, <1>5 DEF Fifo!ReceiveNothing, pdFAIL, Fifo!pdFAIL
<1>7. Fifo!Next
  BY <1>6 DEF Fifo!Next
<1> QED BY <1>3, <1>7

\* A receive that has moved its pointer points to the slot that the ring, as it was
\* before, gives it next, and takes the head out of it.
LEMMA BeforeFacts ==
  ASSUME TypeInv, NEW t \in Thread, RecvHalfDone(t), pc[t] \in {"fetch", "clear"},
         ~ local[t].sends
  PROVE  LET r == Before(t)
             s == [adm_queue_copy_data_from_list(r, TRUE)
                     EXCEPT !.uxMessagesWaiting = r.uxMessagesWaiting - 1]
         IN  /\ q.pcReadFrom \in 0 .. Length - 1
             /\ Ordered(s) /\ Contents(r) \in Seq(Item) /\ Contents(r) # <<>>
             /\ Contents(s) = Tail(Contents(r))
             /\ q.slot[q.pcReadFrom] = Head(Contents(r))
             /\ s = [q EXCEPT !.slot[q.pcReadFrom] = Zero,
                              !.uxMessagesWaiting = local[t].waiting - 1]
<1> DEFINE r == Before(t)
           s == [adm_queue_copy_data_from_list(r, TRUE)
                   EXCEPT !.uxMessagesWaiting = r.uxMessagesWaiting - 1]
<1>1. /\ Ring!RingOK(r) /\ Ring!BlankOK(r)
      /\ local[t].waiting = q.uxMessagesWaiting /\ q.uxMessagesWaiting > 0
      /\ q.pcReadFrom = WrapUp(q, local[t].at + 1)
  BY DEF RecvHalfDone, MovedTo, Pointer, Ordered
<1>2. /\ r.slot = q.slot /\ r.uxMessagesWaiting = q.uxMessagesWaiting
      /\ r.pcReadFrom = local[t].at /\ r.pcTail = q.pcTail /\ r.uxItemSize = 1
      /\ [r EXCEPT !.pcReadFrom = q.pcReadFrom] = q
      /\ r \in [slot : {q.slot}, uxLength : {q.uxLength}, uxItemSize : {1},
                pcTail : {q.pcTail}, uxMessagesWaiting : {q.uxMessagesWaiting},
                pcWriteTo : {q.pcWriteTo}, pcReadFrom : {local[t].at}]
  BY QueueFields DEF Before, QueueRecords
<1>3. NextRead(r) = q.pcReadFrom
  BY <1>1, <1>2 DEF NextRead, WrapUp
<1>4. q.pcReadFrom \in 0 .. Length - 1
  <2>1. Ring!QueuedSlot(r, 0) = Ring!NextRead(r) /\ Ring!QueuedSlot(r, 0) \in 0 .. Length - 1
    <3>1. 0 \in 0 .. Length /\ Ring!QueueOK(r)
      BY <1>1, QueueFields DEF Ring!RingOK
    <3> QED BY <3>1, QueueFields, ValuesAssumption, LengthAssumption, Ring!QueuedSlotFacts
  <2> QED BY <1>3, <2>1, SameOperators
<1>5. s = [q EXCEPT !.slot[q.pcReadFrom] = Zero,
                    !.uxMessagesWaiting = local[t].waiting - 1]
  <2>1. adm_queue_copy_data_from_list(r, TRUE)
          = [r EXCEPT !.slot = [r.slot EXCEPT ![q.pcReadFrom] = Zero],
                      !.pcReadFrom = q.pcReadFrom]
    BY <1>2, <1>3, ValuesAssumption DEF adm_queue_copy_data_from_list, Stored
  <2> HIDE DEF r
  <2>2. s = [r EXCEPT !.slot = [r.slot EXCEPT ![q.pcReadFrom] = Zero],
                      !.pcReadFrom = q.pcReadFrom,
                      !.uxMessagesWaiting = q.uxMessagesWaiting - 1]
    BY <1>2, <2>1
  <2> QED BY <1>1, <1>2, <2>2, QueueFields DEF QueueRecords
<1>6. Ring!adm_queue_copy_data_from_list(r, TRUE) = adm_queue_copy_data_from_list(r, TRUE)
  BY SameOperators
<1>7. LET u == [Ring!adm_queue_copy_data_from_list(r, TRUE)
                  EXCEPT !.uxMessagesWaiting = r.uxMessagesWaiting - 1]
      IN  /\ Ring!RingOK(u) /\ Ring!Contents(r) # <<>>
          /\ Ring!Contents(u) = Tail(Ring!Contents(r))
          /\ Ring!Fetched(r, TRUE) = Head(Ring!Contents(r))
  BY <1>1, <1>2, QueueFields, ValuesAssumption, LengthAssumption, Ring!RecvTakesHead
<1>8. LET u == [Ring!adm_queue_copy_data_from_list(r, TRUE)
                  EXCEPT !.uxMessagesWaiting = r.uxMessagesWaiting - 1]
      IN  Ring!BlankOK(u)
  BY <1>1, <1>2, QueueFields, ValuesAssumption, LengthAssumption, Ring!RecvKeepsBlank
<1>9. Ring!Contents(r) \in Seq(Item)
  BY <1>1, ValuesAssumption, LengthAssumption, Ring!ContentsFacts
<1>10. Fetched(r, TRUE) = q.slot[q.pcReadFrom]
  BY <1>2, <1>3 DEF Fetched
<1> HIDE DEF r
<1>11. Ring!RingOK(s) /\ Ring!BlankOK(s) /\ Ring!Contents(s) = Tail(Ring!Contents(r))
  BY <1>6, <1>7, <1>8
<1> HIDE DEF s
<1>12. /\ Contents(r) \in Seq(Item) /\ Contents(r) # <<>>
       /\ Contents(s) = Tail(Contents(r))
       /\ q.slot[q.pcReadFrom] = Head(Contents(r))
  BY <1>7, <1>9, <1>10, <1>11, SameOperators
<1> QED BY <1>4, <1>5, <1>11, <1>12 DEF Ordered, r, s

LEMMA DataRecvFetch ==
  ASSUME LockInv, TypeInv, DataInv, NEW t \in Thread, RecvFetch(t)
  PROVE  DataInv' /\ [Fifo!Next]_(Fifo!fvars)
<1>0. /\ Working(t) /\ UNCHANGED <<q, reply>>
      /\ \A s \in Thread : s # t => pc'[s] \notin Work /\ pc[s] \notin Work
  BY AloneInside DEF Working, RecvFetch
<1>1. /\ pc[t] = "fetch" /\ pc'[t] = "clear" /\ ~ local[t].sends /\ RecvHalfDone(t)
  BY DEF RecvFetch, Goto, LockInv, ControlOK, DataInv, WorkOK
<1>2. /\ q.pcReadFrom \in 0 .. Length - 1
      /\ q.slot[q.pcReadFrom] = Head(Contents(Before(t)))
  BY <1>1, BeforeFacts
<1>3. /\ ~ overrun'
      /\ local' = [local EXCEPT ![t].item = q.slot[q.pcReadFrom]]
  BY <1>2, QueueFields DEF RecvFetch, InStorageArea
<1>4. /\ ~ local'[t].sends /\ local'[t].item = q.slot[q.pcReadFrom]
      /\ local'[t].waiting = local[t].waiting /\ local'[t].at = local[t].at
  BY <1>1, <1>3 DEF TypeInv, TypeOK
<1>5. Before(t)' = Before(t)
  BY <1>0, <1>4 DEF Before
<1>6. WorkOK(t)'
  <2>1. MovedTo(t) = q.pcReadFrom /\ MovedTo(t)' = q.pcReadFrom
    BY <1>0, <1>1, <1>4 DEF MovedTo, Pointer
  <2>2. RecvHalfDone(t)'
    BY <1>0, <1>1, <1>4, <1>5, <2>1 DEF RecvHalfDone, Ordered, WrapUp
  <2>3. local'[t].item = Head(Contents(Before(t)'))
    BY <1>2, <1>4, <1>5
  <2>4. (local[t].item = Head(Contents(Before(t))))'
    BY <2>3 DEF Contents, QueuedSlot
  <2> QED BY <1>1, <1>4, <2>2, <2>4 DEF WorkOK
<1>7. DataInv'
  BY <1>0, <1>1, <1>3, <1>6, DataByWork DEF Work
<1>8. AtomicContents = Contents(Before(t)) /\ AtomicContents' = Contents(Before(t)')
  BY <1>0, <1>1, <1>4, ContentsNow, ContentsThen
<1> QED BY <1>0, <1>5, <1>7, <1>8 DEF Fifo!fvars

LEMMA DataRecvClear ==
  ASSUME LockInv, TypeInv, DataInv, NEW t \in Thread, RecvClear(t)
  PROVE  DataInv' /\ [Fifo!Next]_(Fifo!fvars)
<1>0. /\ Working(t) /\ UNCHANGED <<local, reply>>
      /\ \A s \in Thread : s # t => pc'[s] \notin Work /\ pc[s] \notin Work
  BY AloneInside DEF Working, RecvClear
<1> DEFINE r == Before(t)
           s == [adm_queue_copy_data_from_list(r, TRUE)
                   EXCEPT !.uxMessagesWaiting = r.uxMessagesWaiting - 1]
<1>1. /\ pc[t] = "clear" /\ pc'[t] = "count" /\ ~ local[t].sends /\ RecvHalfDone(t)
      /\ local[t].item = Head(Contents(r))
  BY DEF RecvClear, Goto, LockInv, ControlOK, DataInv, WorkOK
<1>2. /\ q.pcReadFrom \in 0 .. Length - 1
      /\ Ordered(s) /\ Contents(r) \in Seq(Item) /\ Contents(r) # <<>>
      /\ Contents(s) = Tail(Contents(r))
      /\ s = [q EXCEPT !.slot[q.pcReadFrom] = Zero,
                       !.uxMessagesWaiting = local[t].waiting - 1]
  BY <1>1, BeforeFacts
<1> HIDE DEF s, r
<1>3. ~ overrun' /\ q' = [q EXCEPT !.slot[q.pcReadFrom] = Zero]
  BY <1>2, QueueFields DEF RecvClear, InStorageArea
<1>4. ReceivedBy(t)' = s
  <2>1. ReceivedBy(t)' = [q' EXCEPT !.uxMessagesWaiting = local[t].waiting - 1]
    BY <1>0 DEF ReceivedBy
  <2> QED BY <1>2, <1>3, <2>1
<1>5. local[t].item \in Item
  BY <1>1, <1>2, HeadTailProperties
<1>6. WorkOK(t)'
  BY <1>0, <1>1, <1>2, <1>4, <1>5 DEF WorkOK, Ordered
<1>7. DataInv'
  BY <1>0, <1>1, <1>3, <1>6, DataByWork DEF Work
<1>8. /\ AtomicContents = Contents(r)
      /\ AtomicContents' = <<Head(Contents(r))>> \o Tail(Contents(r))
  <2>1. AtomicContents = Contents(r)
    BY <1>0, <1>1, ContentsNow DEF r
  <2>2. AtomicContents' = <<local'[t].item>> \o Contents(ReceivedBy(t)')
    BY <1>0, <1>1, ContentsThen
  <2> QED BY <1>0, <1>1, <1>2, <1>4, <2>1, <2>2
<1>9. AtomicContents' = AtomicContents
  BY <1>2, <1>8, HeadThenTail
<1> QED BY <1>0, <1>7, <1>9 DEF Fifo!fvars

LEMMA DataRecvCount ==
  ASSUME LockInv, TypeInv, DataInv, NEW t \in Thread, RecvCount(t)
  PROVE  DataInv' /\ [Fifo!Next]_(Fifo!fvars)
<1>0. /\ Working(t) /\ UNCHANGED <<local, overrun>>
      /\ \A s \in Thread : s # t => pc'[s] \notin Work /\ pc[s] \notin Work
  BY AloneInside DEF Working, RecvCount
<1> DEFINE item == local[t].item
           c    == Contents(ReceivedBy(t))
<1>1. /\ pc[t] = "count" /\ pc'[t] = "unlock" /\ ~ local[t].sends
      /\ item \in Item /\ Ordered(ReceivedBy(t))
  BY DEF RecvCount, Goto, LockInv, ControlOK, DataInv, WorkOK
<1>2. q' = ReceivedBy(t) /\ reply' = pdPASS(<<TRUE>>, item)
  BY <1>1 DEF RecvCount, ReceivedBy, Asked
<1>3. DataInv'
  <2>1. WorkOK(t)'
    BY <1>1 DEF WorkOK
  <2> QED BY <1>0, <1>1, <1>2, <2>1, DataByWork DEF DataInv
<1>4. AtomicContents = <<item>> \o c
  BY <1>0, <1>1, ContentsNow
<1>5. AtomicContents' = c
  BY <1>0, <1>1, <1>2, ContentsThen DEF Work
<1>6. c \in Seq(Item)
  BY <1>1, SameOperators, ValuesAssumption, LengthAssumption, Ring!ContentsFacts DEF Ordered
<1> HIDE DEF c, item
<1>7. <<item>> \o c # <<>> /\ Head(<<item>> \o c) = item /\ Tail(<<item>> \o c) = c
  BY <1>1, <1>6, HeadThenTail
<1>8. Fifo!Receive
  BY <1>2, <1>4, <1>5, <1>7 DEF Fifo!Receive, pdPASS, Fifo!pdPASS
<1>9. Fifo!Next
  BY <1>8 DEF Fifo!Next
<1> QED BY <1>3, <1>9

\* Steps that leave the queue, and whoever is at work on it, alone.
LEMMA DataStable ==
  ASSUME DataInv, UNCHANGED <<q, reply, overrun>>,
         \A s \in Thread : pc'[s] \in Work <=> pc[s] \in Work,
         \A s \in Thread : pc[s] \in Work => pc'[s] = pc[s] /\ local'[s] = local[s]
  PROVE  DataInv' /\ [Fifo!Next]_(Fifo!fvars)
<1>1. \A s \in Thread : pc[s] \in Work =>
        /\ MovedTo(s)' = MovedTo(s) /\ Before(s)' = Before(s)
        /\ SentBy(s)' = SentBy(s) /\ ReceivedBy(s)' = ReceivedBy(s)
  BY DEF MovedTo, Pointer, WrapUp, Before, SentBy, ReceivedBy
<1>2. ASSUME NEW s \in Thread PROVE WorkOK(s)'
  <2>1. CASE pc[s] \in Work
    <3>1. WorkOK(s)
      BY DEF DataInv
    <3>2. SendHalfDone(s) => SendHalfDone(s)'
      BY <1>1, <2>1 DEF SendHalfDone, Ordered, Contents, QueuedSlot
    <3>3. RecvHalfDone(s) => RecvHalfDone(s)'
      BY <1>1, <2>1 DEF RecvHalfDone, Ordered, WrapUp
    <3>4. pc'[s] = pc[s] /\ local'[s] = local[s] /\ q' = q
      BY <2>1
    <3>5. local[s].item = Head(Contents(Before(s)))
            => (local[s].item = Head(Contents(Before(s))))'
      <4>1. Contents(Before(s))' = Contents(Before(s)')
        BY DEF Contents, QueuedSlot
      <4> QED BY <1>1, <2>1, <3>4, <4>1
    <3>6. Ordered(ReceivedBy(s)) => Ordered(ReceivedBy(s))'
      BY <1>1, <2>1 DEF Ordered
    <3>7. Ordered(q) => Ordered(q)'
      BY <3>4 DEF Ordered
    <3> QED BY <3>1, <3>2, <3>3, <3>4, <3>5, <3>6, <3>7 DEF WorkOK
  <2>2. CASE pc[s] \notin Work
    <3>1. pc'[s] \notin Work
      BY <2>2
    <3> QED BY <3>1 DEF WorkOK, Work
  <2> QED BY <2>1, <2>2
<1>3. DataInv'
  BY <1>2 DEF DataInv, Ordered
<1>4. AtomicContents' = AtomicContents
  <2>1. Moved' = Moved /\ Cleared' = Cleared
    <3>1. \A s \in Thread : s \in Moved' <=> s \in Moved
      BY DEF Moved, Work
    <3>2. \A s \in Thread : s \in Cleared' <=> s \in Cleared
      BY DEF Cleared, Work
    <3>3. Moved \subseteq Thread /\ Moved' \subseteq Thread
          /\ Cleared \subseteq Thread /\ Cleared' \subseteq Thread
      BY DEF Moved, Cleared
    <3> QED BY <3>1, <3>2, <3>3
  <2>2. CASE Moved # {}
    <3>0. PICK t \in Moved : t = (CHOOSE s \in Moved : TRUE)
      BY <2>2
    <3>1. t \in Thread /\ pc[t] \in Work
      BY <3>0 DEF Moved, Work
    <3>2. AtomicContents = Contents(Before(t))
      BY <2>2, <3>0 DEF AtomicContents
    <3>3. (CHOOSE s \in Moved' : TRUE) = t
      BY <2>1, <3>0
    <3>4. AtomicContents' = Contents(Before(t)')
      BY <2>1, <2>2, <3>3 DEF AtomicContents
    <3> QED BY <1>1, <3>1, <3>2, <3>4
  <2>3. CASE Moved = {} /\ Cleared # {}
    <3>0. PICK t \in Cleared : t = (CHOOSE s \in Cleared : TRUE)
      BY <2>3
    <3>1. t \in Thread /\ pc[t] \in Work
      BY <3>0 DEF Cleared, Work
    <3>2. AtomicContents = <<local[t].item>> \o Contents(ReceivedBy(t))
      BY <2>3, <3>0 DEF AtomicContents
    <3>3. (CHOOSE s \in Cleared' : TRUE) = t
      BY <2>1, <3>0
    <3>4. AtomicContents' = <<local'[t].item>> \o Contents(ReceivedBy(t)')
      BY <2>1, <2>3, <3>3 DEF AtomicContents
    <3> QED BY <1>1, <3>1, <3>2, <3>4
  <2>4. CASE Moved = {} /\ Cleared = {}
    BY <2>1, <2>4 DEF AtomicContents, Contents, QueuedSlot
  <2> QED BY <2>2, <2>3, <2>4
<1> QED BY <1>3, <1>4 DEF Fifo!fvars

\* Every step keeps the data invariant and is a step, or a stutter, of the
\* bounded sequence.
LEMMA DataStep ==
  ASSUME LockInv, TypeInv, DataInv, [Next]_vars
  PROVE  DataInv' /\ [Fifo!Next]_(Fifo!fvars)
<1> DEFINE Goal == DataInv' /\ [Fifo!Next]_(Fifo!fvars)
<1>1. ASSUME NEW t \in Thread, Working(t) PROVE Goal
  BY <1>1, DataSendCheck, DataSendRefuse, DataSendWrite, DataSendCount, DataSendMove,
     DataRecvCheck, DataRecvRefuse, DataRecvMove, DataRecvFetch, DataRecvClear, DataRecvCount
     DEF Working, Moving
<1>2. ASSUME NEW t \in Thread, UNCHANGED <<q, reply, overrun>>,
             \A s \in Thread : s # t => local'[s] = local[s],
             pc[t] \notin Work, NEW to, pc' = [pc EXCEPT ![t] = to], to \notin Work
      PROVE  Goal
  <2>1. \A s \in Thread : s # t => pc'[s] = pc[s]
    BY <1>2 DEF TypeInv, TypeOK
  <2>2. pc'[t] \notin Work
    BY <1>2 DEF TypeInv, TypeOK
  <2> QED BY <1>2, <2>1, <2>2, DataStable
<1>3. ASSUME NEW t \in Thread, CreateQueue(t) PROVE Goal
  <2>1. CASE MutexInitDone(t)
    <3>1. UNCHANGED <<q, reply, overrun, local, pc>>
      BY <2>1 DEF MutexInitDone
    <3> QED BY <3>1, DataStable
  <2>2. CASE MutexInitCheck(t) \/ MutexCreate(t) \/ MutexCreateFails(t) \/ MutexMark(t)
    <3>1. /\ UNCHANGED <<q, reply, overrun, local>>
          /\ pc[t] \in {"idle", "create", "mark"}
          /\ \E to \in {"idle", "create", "mark"} : pc' = [pc EXCEPT ![t] = to]
      BY <2>2 DEF MutexInitCheck, MutexCreate, MutexCreateFails, MutexMark, Goto
    <3>2. {"idle", "create", "mark"} \cap Work = {}
      BY DEF Work
    <3> QED BY <1>2, <3>1, <3>2
  <2> QED BY <1>3, <2>1, <2>2 DEF CreateQueue
<1>4. ASSUME NEW t \in Thread, NEW sends, NEW item, Call(t, sends, item) PROVE Goal
  <2>1. /\ UNCHANGED <<q, reply, overrun>> /\ \A s \in Thread : s # t => local'[s] = local[s]
        /\ pc[t] = "idle" /\ pc' = [pc EXCEPT ![t] = "lock"]
    BY <1>4 DEF Call, Goto, TypeInv, TypeOK
  <2>2. "idle" \notin Work /\ "lock" \notin Work
    BY DEF Work
  <2> QED BY <1>2, <2>1, <2>2
<1>5. ASSUME NEW t \in Thread, Lock(t) PROVE Goal
  <2>1. /\ UNCHANGED <<q, reply, overrun, local>>
        /\ pc[t] = "lock" /\ pc' = [pc EXCEPT ![t] = "check"]
    BY <1>5 DEF Lock, Goto
  <2>2. "lock" \notin Work /\ "check" \notin Work
    BY DEF Work
  <2> QED BY <1>2, <2>1, <2>2
<1>6. ASSUME NEW t \in Thread, Unlock(t) PROVE Goal
  <2>1. /\ UNCHANGED <<q, reply, overrun>> /\ \A s \in Thread : s # t => local'[s] = local[s]
        /\ pc[t] = "unlock" /\ pc' = [pc EXCEPT ![t] = "idle"]
    BY <1>6 DEF Unlock, Goto, TypeInv, TypeOK
  <2>2. "unlock" \notin Work /\ "idle" \notin Work
    BY DEF Work
  <2> QED BY <1>2, <2>1, <2>2
<1>7. ASSUME UNCHANGED vars PROVE Goal
  <2>1. UNCHANGED <<q, reply, overrun, local, pc>>
    BY <1>7 DEF vars
  <2> QED BY <2>1, DataStable
<1> HIDE DEF Goal
<1>8. Goal
  BY <1>1, <1>3, <1>4, <1>5, <1>6, <1>7, SyncAssumption DEF Next, Inside, Working
<1> QED BY <1>8 DEF Goal

LEMMA DataInit ==
  ASSUME Init
  PROVE  DataInv /\ Fifo!Init
<1> USE SyncAssumption, LengthAssumption
<1>1. Ring!QueueOK(q) /\ \A t \in Thread : pc[t] = "idle"
  BY SameConstants, ValuesAssumption, Ring!CreateOK DEF Init
<1>2. /\ q.uxMessagesWaiting = 0 /\ q.pcWriteTo = 0 /\ q.pcReadFrom = Length - 1
      /\ q.slot = [k \in 0 .. Length - 1 |-> Zero]
  <2>1. Length * ItemSize = Length
    OBVIOUS
  <2> QED BY <2>1 DEF Init, adm_queue_generic_create, adm_queue_generic_reset
<1>3. QueuedSlot(q, 0) = 0
  BY <1>1, <1>2 DEF QueuedSlot, Ring!QueueOK
<1>4. Ring!RingOK(q)
  BY SameOperators, <1>1, <1>2, <1>3 DEF Ring!RingOK
<1>5. Ring!BlankOK(q)
  <2>1. \A k \in 0 .. Length - 1 : k \in 0 .. Length
    OBVIOUS
  <2>2. \A k \in 0 .. Length : Ring!QueuedSlot(q, k) \in 0 .. Length - 1
    BY <1>1, ValuesAssumption, Ring!QueuedSlotFacts
  <2> QED BY <1>2, <2>1, <2>2 DEF Ring!BlankOK
<1>6. DataInv
  <2>1. ~ overrun
    BY DEF Init
  <2> QED BY <1>1, <1>4, <1>5, <2>1 DEF DataInv, Ordered, WorkOK
<1>7. AtomicContents = Contents(q)
  <2>1. Moved = {} /\ Cleared = {}
    BY <1>1 DEF Moved, Cleared
  <2> QED BY <2>1 DEF AtomicContents
<1>8. Contents(q) = <<>>
  BY <1>2, <1>4, SameOperators, ValuesAssumption, Ring!ContentsFacts, EmptySeq
<1> QED BY <1>6, <1>7, <1>8 DEF Fifo!Init, Init, pdFAIL, Fifo!pdFAIL

SyncInv == LockInv /\ TypeInv /\ DataInv

LEMMA SyncInvariant == ASSUME Disciplined PROVE Spec => []SyncInv
<1>1. Init => SyncInv
  BY LockInit, TypeInit, DataInit DEF SyncInv
<1>2. SyncInv /\ [Next]_vars => SyncInv'
  BY LockStep, TypeStep, DataStep DEF SyncInv
<1> QED BY <1>1, <1>2, PTL DEF Spec

\* Between calls the ring is in order.
LEMMA OrderedBetweenCalls ==
  ASSUME SyncInv, \A t \in Thread : ~ InCall(t)
  PROVE  Ordered(q)
BY DEF SyncInv, DataInv, InCall, Work

\* Though a pointer stands behind the storage until the call that moved it has
\* rewound it, no call ever copies there, and none leaves it there.
THEOREM StaysInStorage == ASSUME Disciplined PROVE Spec => []InStorage
<1>1. SyncInv => InStorage
  <2>1. ASSUME SyncInv, \A t \in Thread : ~ InCall(t)
        PROVE  {q.pcWriteTo, q.pcReadFrom} \subseteq DOMAIN q.slot
    <3>1. Ring!QueueOK(q)
      BY <2>1, OrderedBetweenCalls DEF Ordered, Ring!RingOK
    <3>2. q.pcWriteTo \in 0 .. Length - 1 /\ q.pcReadFrom \in 0 .. Length - 1
      BY <3>1, QueueShape
    <3>3. DOMAIN q.slot = 0 .. Length - 1
      BY <2>1, QueueFields DEF SyncInv
    <3> QED BY <3>2, <3>3
  <2> QED BY <2>1 DEF InStorage, SyncInv, DataInv
<1> QED BY <1>1, SyncInvariant, PTL

\* Under the lock the count that a call reads is still true when it writes it
\* back: whenever no call is under way, it is the number of the items stored.
THEOREM CountIsTrue == ASSUME Disciplined PROVE Spec => []CountIsItems
<1>1. SyncInv => CountIsItems
  BY OrderedBetweenCalls, CountOfItems DEF CountIsItems
<1> QED BY <1>1, SyncInvariant, PTL

\* Calls from any number of threads take effect one at a time, as the operations
\* of the bounded sequence AdmFifo: each at the update of the count.
THEOREM CallsAreAtomic == ASSUME Disciplined PROVE Spec => FifoSpec
<1>1. Init => Fifo!Init
  BY DataInit
<1>2. SyncInv /\ [Next]_vars => [Fifo!Next]_(Fifo!fvars)
  BY DataStep DEF SyncInv
<1> QED BY <1>1, <1>2, SyncInvariant, PTL DEF Spec, FifoSpec, Fifo!Spec

=============================================================================
