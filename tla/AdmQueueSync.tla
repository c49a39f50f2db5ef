---------------------------- MODULE AdmQueueSync ----------------------------
(***************************************************************************)
(* adm_queue_send (to the back) and adm_queue_receive of one queue, called *)
(* by several threads, with the global mutex s_adm_thread_mutex that is    *)
(* meant to make each call atomic, and with adm_thread_mutex_init, which   *)
(* adm_queue_generic_create runs to make that mutex the first time a queue *)
(* is created.  A step reads or writes one field that the threads share:   *)
(* the global, the mutex, the count, a pointer, a slot.                    *)
(*                                                                         *)
(* The queue stores items; one that only counts is in AdmQueue.  A copy to *)
(* or from memory outside the storage ends the run in `overrun`: what      *)
(* follows is undefined.                                                   *)
(*                                                                         *)
(* Main is the thread that calls adm_thread_mutex_init itself before it    *)
(* starts the others, and gives up when that fails, as the main function   *)
(* of adm_os_queue_test.c does.  Where nobody does that, the first queue   *)
(* that one of the Creators makes brings the mutex into being.             *)
(***************************************************************************)
EXTENDS AdmQueueOps, Sequences, FiniteSets

CONSTANTS
  Thread,       \* the calling threads
  Creators,     \* the threads that create queues themselves
  Main,         \* the creator that makes the mutex first, or Nobody
  CreateFails,  \* the allocation in adm_mutex_create may fail
  MaxMutexes,   \* bound: how many mutexes adm_mutex_create may make
  Nobody        \* the holder of a mutex no thread holds

ASSUME SyncAssumption ==
  /\ ItemSize = 1
  /\ Creators \subseteq Thread
  /\ Main \in Creators \cup {Nobody} /\ CreateFails \in BOOLEAN
  /\ MaxMutexes \in Nat \ {0}
  /\ Nobody \notin Thread
  /\ Thread # {}

VARIABLES
  q,         \* the adm_queue_t
  mutex,     \* s_adm_thread_mutex: 0 for NULL, or the number of a mutex
  mutexInit, \* s_adm_thread_mutex_init
  made,      \* how many mutexes adm_mutex_create has made
  holder,    \* who holds each mutex
  shared,    \* the handle of the queue has been given to the threads
  pc,        \* where each thread is
  local,     \* its locals: the call, the mutex it is locking, the count and the
             \* pointer it has read, the item it sends or has fetched
  overrun,   \* a copy has gone outside the storage
  reply      \* what the last call that took effect asked and answers

vars == <<q, mutex, mutexInit, made, holder, shared, pc, local, overrun, reply>>

pdPASS(asked, item) == [asked |-> asked, ok |-> TRUE, item |-> item]
pdFAIL(asked)       == [asked |-> asked, ok |-> FALSE, item |-> NULL]

\* What a call asks: a send with its item and position, a receive with a buffer.
Asked(t) ==
  IF local[t].sends THEN <<local[t].item, ADM_QUEUE_INSERT_TO_BACK>> ELSE <<TRUE>>

Frame == [target |-> 0, waiting |-> 0, at |-> 0, sends |-> FALSE, item |-> NULL]

Mutex == 1 .. MaxMutexes

Init ==
  /\ q = adm_queue_generic_create(Length, ItemSize)
  /\ mutex     = 0
  /\ mutexInit = FALSE
  /\ made      = 0
  /\ holder    = [m \in Mutex |-> Nobody]
  /\ shared    = FALSE
  /\ pc        = [t \in Thread |-> "idle"]
  /\ local     = [t \in Thread |-> Frame]
  /\ overrun   = FALSE
  /\ reply     = pdFAIL(<<>>)

Goto(t, from, to) ==
  /\ ~ overrun
  /\ pc[t] = from /\ pc' = [pc EXCEPT ![t] = to]

-----------------------------------------------------------------------------
(* adm_thread_mutex_init, run by Main or by a thread that creates a queue *)

MutexInitDone(t) ==   \* "if (s_adm_thread_mutex_init > 0) return 1"
  /\ mutexInit
  /\ pc[t] = "idle"
  /\ shared' = TRUE
  /\ UNCHANGED <<q, mutex, mutexInit, made, holder, pc, local, overrun, reply>>
\* Faulty: each new queue makes the mutex again.
MutexInitUnchecked(t) ==
  /\ Goto(t, "idle", "create")
  /\ UNCHANGED <<q, mutex, mutexInit, made, holder, shared, local, overrun, reply>>

MutexInitCheck(t) ==
  /\ ~ mutexInit
  /\ Goto(t, "idle", "create")
  /\ UNCHANGED <<q, mutex, mutexInit, made, holder, shared, local, overrun, reply>>

MutexCreate(t) ==
  /\ Goto(t, "create", "mark")
  /\ made < MaxMutexes
  /\ made' = made + 1
  /\ mutex' = made + 1
  /\ UNCHANGED <<q, mutexInit, holder, shared, local, overrun, reply>>

MutexCreateFails(t) ==
  /\ CreateFails
  /\ Goto(t, "create", "mark")
  /\ mutex' = 0
  /\ UNCHANGED <<q, mutexInit, made, holder, shared, local, overrun, reply>>

\* Main starts the threads if there is a mutex.  From another creator they
\* get the handle of the queue whether or not there is one:
\* adm_queue_generic_create does not look at the result.
MutexMark(t) ==
  /\ Goto(t, "mark", "idle")
  /\ mutexInit' = (mutexInit \/ mutex # 0)
  /\ shared' = (shared \/ t # Main \/ mutex # 0)
  /\ UNCHANGED <<q, mutex, made, holder, local, overrun, reply>>

-----------------------------------------------------------------------------
(* adm_mutex_lock and adm_mutex_unlock on the global; NULL does nothing *)

Call(t, sends, item) ==
  /\ shared
  /\ Goto(t, "idle", "lock")
  /\ local' = [local EXCEPT ![t] = [Frame EXCEPT !.target = mutex,
                                                 !.sends = sends, !.item = item]]
  /\ UNCHANGED <<q, mutex, mutexInit, made, holder, shared, overrun, reply>>
\* Faulty: the lock is taken although another thread holds it.
LockWithoutWaiting(t) ==
  LET m == local[t].target IN
  /\ Goto(t, "lock", "check")
  /\ holder' = IF m = 0 THEN holder ELSE [holder EXCEPT ![m] = t]
  /\ UNCHANGED <<q, mutex, mutexInit, made, shared, local, overrun, reply>>

Lock(t) ==
  LET m == local[t].target IN
  /\ Goto(t, "lock", "check")
  /\ \/ m = 0 /\ UNCHANGED holder
     \/ m # 0 /\ holder[m] = Nobody /\ holder' = [holder EXCEPT ![m] = t]
  /\ UNCHANGED <<q, mutex, mutexInit, made, shared, local, overrun, reply>>

\* The global is read again, and the mutex it names by now is released.
Unlock(t) ==
  /\ Goto(t, "unlock", "idle")
  /\ holder' = IF mutex = 0 THEN holder ELSE [holder EXCEPT ![mutex] = Nobody]
  /\ local' = [local EXCEPT ![t] = Frame]
  /\ UNCHANGED <<q, mutex, mutexInit, made, shared, overrun, reply>>

-----------------------------------------------------------------------------
(* adm_queue_generic_send *)

\* A copy of one item at p stays between pcHead and pcTail.
InStorageArea(p) == p \in DOMAIN q.slot

SendCheck(t) ==
  /\ local[t].sends
  /\ q.uxMessagesWaiting < q.uxLength
  /\ Goto(t, "check", "read")
  /\ UNCHANGED <<q, mutex, mutexInit, made, holder, shared, local, overrun, reply>>
\* Faulty: a refused send returns without unlocking.
SendRefuseLocked(t) ==
  /\ local[t].sends
  /\ q.uxMessagesWaiting >= q.uxLength
  /\ Goto(t, "check", "idle")
  /\ reply' = pdFAIL(Asked(t))
  /\ UNCHANGED <<q, mutex, mutexInit, made, holder, shared, local, overrun>>

\* Faulty: a refused send answers pdPASS.
SendRefusePasses(t) ==
  /\ local[t].sends
  /\ q.uxMessagesWaiting >= q.uxLength
  /\ Goto(t, "check", "unlock")
  /\ reply' = pdPASS(Asked(t), NULL)
  /\ UNCHANGED <<q, mutex, mutexInit, made, holder, shared, local, overrun>>

SendRefuse(t) ==
  /\ local[t].sends
  /\ q.uxMessagesWaiting >= q.uxLength
  /\ Goto(t, "check", "unlock")
  /\ reply' = pdFAIL(Asked(t))
  /\ UNCHANGED <<q, mutex, mutexInit, made, holder, shared, local, overrun>>

\* copy_data2list: the count is read first and written back last.
SendRead(t) ==
  /\ local[t].sends
  /\ Goto(t, "read", "write")
  /\ local' = [local EXCEPT ![t].waiting = q.uxMessagesWaiting]
  /\ UNCHANGED <<q, mutex, mutexInit, made, holder, shared, overrun, reply>>

\* memcpy to pcWriteTo
SendWrite(t) ==
  /\ local[t].sends
  /\ Goto(t, "write", "load")
  /\ overrun' = ~ InStorageArea(q.pcWriteTo)
  /\ q' = IF overrun' THEN q ELSE [q EXCEPT !.slot[q.pcWriteTo] = local[t].item]
  /\ UNCHANGED <<mutex, mutexInit, made, holder, shared, local, reply>>

SendCount(t) ==
  /\ local[t].sends
  /\ Goto(t, "count", "unlock")
  /\ q' = [q EXCEPT !.uxMessagesWaiting = local[t].waiting + 1]
  /\ reply' = pdPASS(Asked(t), NULL)
  /\ UNCHANGED <<mutex, mutexInit, made, holder, shared, local, overrun>>

-----------------------------------------------------------------------------
(* Moving a pointer on: pcWriteTo after the copy of a send, pcReadFrom      *)
(* before the copy of a receive.  `+= uxItemSize` loads it and stores it.   *)

Pointer(t) == IF local[t].sends THEN q.pcWriteTo ELSE q.pcReadFrom
PointTo(t, p) ==
  q' = IF local[t].sends THEN [q EXCEPT !.pcWriteTo = p] ELSE [q EXCEPT !.pcReadFrom = p]
AfterMove(t) == IF local[t].sends THEN "count" ELSE "fetch"

LoadPointer(t) ==
  /\ Goto(t, "load", "store")
  /\ local' = [local EXCEPT ![t].at = Pointer(t)]
  /\ UNCHANGED <<q, mutex, mutexInit, made, holder, shared, overrun, reply>>

StorePointer(t) ==
  /\ Goto(t, "store", "test")
  /\ PointTo(t, local[t].at + q.uxItemSize)
  /\ UNCHANGED <<mutex, mutexInit, made, holder, shared, local, overrun, reply>>
\* Faulty: the pointer wraps one place too late.
TestPointerLate(t) ==
  /\ Goto(t, "test", IF Pointer(t) > q.pcTail THEN "rewind" ELSE AfterMove(t))
  /\ UNCHANGED <<q, mutex, mutexInit, made, holder, shared, local, overrun, reply>>

TestPointer(t) ==
  /\ Goto(t, "test", IF Pointer(t) >= q.pcTail THEN "rewind" ELSE AfterMove(t))
  /\ UNCHANGED <<q, mutex, mutexInit, made, holder, shared, local, overrun, reply>>

RewindPointer(t) ==
  /\ Goto(t, "rewind", AfterMove(t))
  /\ PointTo(t, 0)
  /\ UNCHANGED <<mutex, mutexInit, made, holder, shared, local, overrun, reply>>

-----------------------------------------------------------------------------
(* adm_queue_generic_recv *)
\* Faulty: a receive from an empty queue is let through.
RecvCheckEmpty(t) ==
  /\ ~ local[t].sends
  /\ Goto(t, "check", "load")
  /\ local' = [local EXCEPT ![t].waiting = q.uxMessagesWaiting]
  /\ UNCHANGED <<q, mutex, mutexInit, made, holder, shared, overrun, reply>>

RecvCheck(t) ==
  /\ ~ local[t].sends
  /\ q.uxMessagesWaiting > 0
  /\ Goto(t, "check", "load")
  /\ local' = [local EXCEPT ![t].waiting = q.uxMessagesWaiting]
  /\ UNCHANGED <<q, mutex, mutexInit, made, holder, shared, overrun, reply>>

RecvRefuse(t) ==
  /\ ~ local[t].sends
  /\ q.uxMessagesWaiting = 0
  /\ Goto(t, "check", "unlock")
  /\ reply' = pdFAIL(Asked(t))
  /\ UNCHANGED <<q, mutex, mutexInit, made, holder, shared, local, overrun>>

\* memcpy from pcReadFrom, and memset there
RecvFetch(t) ==
  /\ ~ local[t].sends
  /\ Goto(t, "fetch", "clear")
  /\ overrun' = ~ InStorageArea(q.pcReadFrom)
  /\ local' = IF overrun' THEN local
              ELSE [local EXCEPT ![t].item = q.slot[q.pcReadFrom]]
  /\ UNCHANGED <<q, mutex, mutexInit, made, holder, shared, reply>>

RecvClear(t) ==
  /\ ~ local[t].sends
  /\ Goto(t, "clear", "count")
  /\ overrun' = ~ InStorageArea(q.pcReadFrom)
  /\ q' = IF overrun' THEN q ELSE [q EXCEPT !.slot[q.pcReadFrom] = Zero]
  /\ UNCHANGED <<mutex, mutexInit, made, holder, shared, local, reply>>

\* Faulty: the received item is still counted.
RecvCountKept(t) ==
  /\ ~ local[t].sends
  /\ Goto(t, "count", "unlock")
  /\ reply' = pdPASS(Asked(t), local[t].item)
  /\ UNCHANGED <<q, mutex, mutexInit, made, holder, shared, local, overrun>>

RecvCount(t) ==
  /\ ~ local[t].sends
  /\ Goto(t, "count", "unlock")
  /\ q' = [q EXCEPT !.uxMessagesWaiting = local[t].waiting - 1]
  /\ reply' = pdPASS(Asked(t), local[t].item)
  /\ UNCHANGED <<mutex, mutexInit, made, holder, shared, local, overrun>>

-----------------------------------------------------------------------------

\* Main comes first, where there is one.
CreateQueue(t) ==
  /\ Main = Nobody \/ t = Main \/ shared
  /\ \/ MutexInitDone(t) \/ MutexInitCheck(t)
     \/ MutexCreate(t) \/ MutexCreateFails(t) \/ MutexMark(t)

Inside(t) ==
  \/ SendCheck(t) \/ SendRefuse(t) \/ SendRead(t) \/ SendWrite(t) \/ SendCount(t)
  \/ RecvCheck(t) \/ RecvRefuse(t) \/ RecvFetch(t) \/ RecvClear(t) \/ RecvCount(t)
  \/ LoadPointer(t) \/ StorePointer(t) \/ TestPointer(t) \/ RewindPointer(t)
  \/ Unlock(t)

Next ==
  \E t \in Thread :
    \/ t \in Creators /\ CreateQueue(t)
    \/ \E item \in Item : Call(t, TRUE, item)
    \/ Call(t, FALSE, NULL)
    \/ Lock(t)
    \/ Inside(t)

Spec == Init /\ [][Next]_vars

\* A thread that holds the mutex is scheduled until it has released it.
FairSpec == Spec /\ \A t \in Thread : WF_vars(Inside(t))

-----------------------------------------------------------------------------
(* What the program must respect: Main makes the mutex, or one thread      *)
(* alone does and that does not fail.                                      *)

Disciplined ==
  Main # Nobody \/ (~ CreateFails /\ \A s, t \in Creators : s = t)

-----------------------------------------------------------------------------
(* Properties *)

\* Type invariant.  A pointer may stand behind the storage.
TypeOK ==
  /\ q \in [slot : [0 .. Length - 1 -> Item \cup {Zero}],
            uxLength : {Length}, uxItemSize : {1}, pcTail : {Length},
            uxMessagesWaiting : Nat, pcWriteTo : Nat, pcReadFrom : Nat]
  /\ mutex \in 0 .. MaxMutexes /\ made \in 0 .. MaxMutexes
  /\ mutexInit \in BOOLEAN /\ shared \in BOOLEAN /\ overrun \in BOOLEAN
  /\ holder \in [Mutex -> Thread \cup {Nobody}]
  /\ pc \in [Thread -> {"idle", "create", "mark", "lock", "check", "read", "write",
                        "load", "store", "test", "rewind", "fetch", "clear", "count",
                        "unlock"}]
  /\ local \in [Thread -> [target : 0 .. MaxMutexes, waiting : Nat, at : Nat,
                           sends : BOOLEAN, item : Item \cup {Zero, NULL}]]
  /\ reply \in [asked : (Item \X Position) \cup {<<>>, <<TRUE>>}, ok : BOOLEAN,
                 item : Item \cup {Zero, NULL}]

InCall(t) ==
  pc[t] \in {"check", "read", "write", "load", "store", "test", "rewind", "fetch",
             "clear", "count", "unlock"}

\* No two threads are between adm_mutex_lock and adm_mutex_unlock of a send
\* or a receive.
MutualExclusion ==
  \A s, t \in Thread : InCall(s) /\ InCall(t) => s = t

\* "uxMessagesWaiting: The number of items currently in the queue": whenever
\* no call is under way, the count is the number of slots that hold an item.
CountIsItems ==
  (\A t \in Thread : ~ InCall(t)) =>
    q.uxMessagesWaiting = Cardinality({k \in DOMAIN q.slot : q.slot[k] # Zero})

\* While a call moves a pointer on, it may stand behind the storage; no other call
\* copies there in the meantime, and between calls both pointers are inside.
InStorage ==
  /\ ~ overrun
  /\ (\A t \in Thread : ~ InCall(t)) => {q.pcWriteTo, q.pcReadFrom} \subseteq DOMAIN q.slot

\* A mutex that a thread holds is released again: every way out of a send or
\* a receive, also the refused ones, goes through adm_mutex_unlock.
MutexReleased ==
  \A m \in Mutex, t \in Thread : holder[m] = t ~> holder[m] # t

\* The calls take effect one at a time, as the operations of the bounded
\* sequence AdmFifo: a send or a receive does when it updates the count.  A
\* receive that has moved the read pointer, or cleared the slot, and not yet
\* counted is still to happen: its item is still at the head.
Moved   == {t \in Thread : pc[t] \in {"test", "rewind", "fetch", "clear"} /\ ~ local[t].sends}
Cleared == {t \in Thread : pc[t] = "count" /\ ~ local[t].sends}
Before(t)     == [q EXCEPT !.pcReadFrom = local[t].at]
ReceivedBy(t) == [q EXCEPT !.uxMessagesWaiting = local[t].waiting - 1]

AtomicContents ==
  CASE Moved = {} /\ Cleared = {} -> Contents(q)
    [] Moved # {}                  -> Contents(Before(CHOOSE t \in Moved : TRUE))
    [] Moved = {} /\ Cleared # {}  ->
         LET t == CHOOSE t \in Cleared : TRUE
         IN  <<local[t].item>> \o Contents(ReceivedBy(t))

Fifo == INSTANCE AdmFifo WITH
          queue <- AtomicContents, reply <- reply, Capacity <- Length,
          Back <- ADM_QUEUE_INSERT_TO_BACK, Front <- ADM_QUEUE_INSERT_TO_FRONT,
          Overwrite <- ADM_QUEUE_INSERT_OVERWRITE
FifoSpec == Fifo!Spec

=============================================================================
