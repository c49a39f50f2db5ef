------------------------------ MODULE AdmTimer ------------------------------
(***************************************************************************)
(* One ADM_TIMER_T of os/src/adm_os_timer.c in the hands of its sample     *)
(* there: main starts it (adm_timer_entry_test_start) whenever it likes,   *)
(* it expires over and over, the callback stops and destroys it once it    *)
(* has counted more than Limit expirations, and main stops and destroys it *)
(* whenever it likes (adm_timer_entry_test_stop).  The sample's three      *)
(* timers share nothing.                                                   *)
(*                                                                         *)
(* SIGEV_THREAD runs each expiration on a thread of its own, so callbacks  *)
(* overlap one another and main.  A call reads the struct anew each time   *)
(* it names a field, and the count is incremented in two steps.            *)
(*                                                                         *)
(* External: the POSIX timer.  A pointer or an id that is no longer good   *)
(* ends the run in `fault`: what follows is undefined.                     *)
(***************************************************************************)
EXTENDS Integers

CONSTANTS
  Main,       \* the thread that starts and stops the timer
  Callback,   \* the threads a callback may run on at the same time
  Limit,      \* expirations after which the callback stops the timer
  MaxStarts,  \* bound: how often main starts the timer
  MaxCount    \* bound: no expiration beyond this count

ASSUME TimerAssumption ==
  /\ Main \notin Callback
  /\ Limit \in Nat
  /\ MaxStarts \in Nat /\ MaxCount \in Nat

Actor   == {Main} \cup Callback
Created == 1 .. MaxStarts   \* the kernel timers, named after the start that makes them
Nobody  == "nobody"

VARIABLES
  timer_id,   \* timer->timer_id: the kernel timer it names, 0 for NULL
  arg,        \* timer->arg: FALSE once the struct is cleared
  kernel,     \* the kernel timers: "none", "idle", "armed", "deleted"
  pc,         \* where each actor is
  seen,       \* what each callback has read: arg, then the count
  count,      \* adm_timer_count_test
  starts,     \* how often main has started the timer
  fault,      \* who has used a NULL pointer or the id of a deleted timer
  overtaken,  \* who was busy with the timer while another was deleting it
  crossed     \* the kernel timers that were alive when main started over them,
              \* and those that an overtaken start has made

vars == <<timer_id, arg, kernel, pc, seen, count, starts, fault, overtaken, crossed>>

Init ==
  /\ timer_id = 0 /\ arg = FALSE
  /\ kernel = [g \in Created |-> "none"]
  /\ pc = [a \in Actor |-> "idle"]
  /\ seen = [c \in Callback |-> [arg |-> FALSE, count |-> 0]]
  /\ count = 0 /\ starts = 0
  /\ fault = Nobody /\ overtaken = {} /\ crossed = {}

Alive(g) == g # 0 /\ kernel[g] \in {"idle", "armed"}

Step(a, from, to) ==
  /\ fault = Nobody
  /\ pc[a] = from /\ pc' = [pc EXCEPT ![a] = to]

Move(a, from, to) ==
  /\ Step(a, from, to)
  /\ UNCHANGED <<timer_id, arg, kernel, seen, count, starts, fault, crossed>>

\* Keeps the record of who is inside a callback or a call while another is
\* between deleting the kernel timer and clearing the struct.
Busy(a) == pc[a] \notin {"idle", "running"}
Watched ==
  overtaken' = {a \in Actor : Busy(a)'
                   /\ (a \in overtaken \/ \E b \in Actor \ {a} : pc'[b] = "clear")}

-----------------------------------------------------------------------------
(* Main: adm_timer_entry_test_start, and the call of _test_stop *)

BeginStart ==
  /\ \E from \in {"idle", "running"} : Step(Main, from, "init")
  /\ starts < MaxStarts
  /\ starts' = starts + 1 /\ count' = 0
  /\ UNCHANGED <<timer_id, arg, kernel, seen, fault, crossed>>

\* adm_timer_init: the fields, whatever they were.
SetFields ==
  /\ Step(Main, "init", "create")
  /\ arg' = TRUE
  /\ UNCHANGED <<timer_id, kernel, seen, count, starts, fault, crossed>>

\* timer_create, which may fail; main goes on to adm_timer_start all the same.
CreateTimer ==
  /\ Step(Main, "create", "start")
  /\ \/ /\ timer_id' = starts
        /\ kernel' = [kernel EXCEPT ![starts] = "idle"]
        /\ crossed' = crossed \cup {g \in {timer_id} : Alive(g)}
                               \cup {g \in {starts} : Main \in overtaken}
     \/ UNCHANGED <<timer_id, kernel, crossed>>
  /\ UNCHANGED <<arg, seen, count, starts, fault>>

\* adm_timer_start: nothing happens without an id.
TestIdToStart == Move(Main, "start", IF timer_id = 0 THEN "running" ELSE "arm")

Arm ==
  /\ Step(Main, "arm", IF Alive(timer_id) THEN "running" ELSE "arm")
  /\ IF Alive(timer_id)
     THEN kernel' = [kernel EXCEPT ![timer_id] = "armed"] /\ fault' = fault
     ELSE kernel' = kernel /\ fault' = Main
  /\ UNCHANGED <<timer_id, arg, seen, count, starts, crossed>>

Start == SetFields \/ CreateTimer \/ TestIdToStart \/ Arm

MainStops == Move(Main, "running", "stop")

-----------------------------------------------------------------------------
(* The callback: adm_timer_entry_test_cb1, _cb2, _cb3 *)

\* The timer expires and glibc starts a thread.
Expire(c) ==
  /\ count <= MaxCount
  /\ Move(c, "idle", "enter")
  /\ \E g \in Created : kernel[g] = "armed"

\* sival_ptr->arg
ReadArg(c) ==
  /\ Step(c, "enter", "read")
  /\ seen' = [seen EXCEPT ![c].arg = arg]
  /\ UNCHANGED <<timer_id, arg, kernel, count, starts, fault, crossed>>

\* count++
ReadCount(c) ==
  /\ Step(c, "read", "write")
  /\ seen' = [seen EXCEPT ![c].count = count]
  /\ UNCHANGED <<timer_id, arg, kernel, count, starts, fault, crossed>>

\* Faulty: the count goes down.
WriteCountDown(c) ==
  /\ Step(c, "write", "test")
  /\ count' = seen[c].count - 1
  /\ seen' = [seen EXCEPT ![c].count = 0]
  /\ UNCHANGED <<timer_id, arg, kernel, starts, fault, crossed>>

\* Faulty: a copy of the count is incremented.
WriteCountLocal(c) ==
  /\ Step(c, "write", "test")
  /\ seen' = [seen EXCEPT ![c].count = 0]
  /\ UNCHANGED <<timer_id, arg, kernel, count, starts, fault, crossed>>

WriteCount(c) ==
  /\ Step(c, "write", "test")
  /\ count' = seen[c].count + 1
  /\ seen' = [seen EXCEPT ![c].count = 0]
  /\ UNCHANGED <<timer_id, arg, kernel, starts, fault, crossed>>

\* The log line before the test reads arg->interval_ms.
ReadNull(c) ==
  /\ Step(c, "test", "test")
  /\ ~ seen[c].arg
  /\ fault' = c
  /\ UNCHANGED <<timer_id, arg, kernel, seen, count, starts, crossed>>

TestCount(c) ==
  /\ seen[c].arg
  /\ Move(c, "test", IF count > Limit THEN "stop" ELSE "idle")

-----------------------------------------------------------------------------
(* adm_timer_stop, adm_timer_destroy, called by anybody *)

TestIdToStop(a) == Move(a, "stop", IF timer_id = 0 THEN "destroy" ELSE "settime")

Disarm(a) ==
  /\ Step(a, "settime", "destroy")
  /\ IF Alive(timer_id)
     THEN kernel' = [kernel EXCEPT ![timer_id] = "idle"] /\ fault' = fault
     ELSE kernel' = kernel /\ fault' = a
  /\ UNCHANGED <<timer_id, arg, seen, count, starts, crossed>>

TestIdToDestroy(a) == Move(a, "destroy", IF timer_id = 0 THEN "idle" ELSE "delete")

\* Faulty: the struct is cleared without deleting the kernel timer.
DeleteNothing(a) == Move(a, "delete", "clear")

Delete(a) ==
  /\ Step(a, "delete", "clear")
  /\ IF Alive(timer_id)
     THEN kernel' = [kernel EXCEPT ![timer_id] = "deleted"] /\ fault' = fault
     ELSE kernel' = kernel /\ fault' = a
  /\ UNCHANGED <<timer_id, arg, seen, count, starts, crossed>>

\* Faulty: the struct keeps the id.
ClearNothing(a) == Move(a, "clear", "idle")

\* adm_memset
Clear(a) ==
  /\ Step(a, "clear", "idle")
  /\ timer_id' = 0 /\ arg' = FALSE
  /\ UNCHANGED <<kernel, seen, count, starts, fault, crossed>>

Call(a) ==
  \/ TestIdToStop(a) \/ Disarm(a)
  \/ TestIdToDestroy(a) \/ Delete(a) \/ Clear(a)

Run(c) ==
  ReadArg(c) \/ ReadCount(c) \/ WriteCount(c) \/ ReadNull(c) \/ TestCount(c) \/ Call(c)

Next ==
  /\ \/ BeginStart \/ Start \/ MainStops \/ Call(Main)
     \/ \E c \in Callback : Expire(c) \/ Run(c)
  /\ Watched

Spec == Init /\ [][Next]_vars

\* An armed timer expires again and again, on whatever thread, and threads are
\* scheduled; main need not stop the timer.
FairSpec ==
  /\ Spec
  /\ WF_vars((Start \/ Call(Main)) /\ Watched)
  /\ WF_vars((\E c \in Callback : Expire(c)) /\ Watched)
  /\ \A c \in Callback : WF_vars(Run(c) /\ Watched)

-----------------------------------------------------------------------------
(* Properties *)

\* Type invariant.
TypeOK ==
  /\ timer_id \in 0 .. MaxStarts /\ arg \in BOOLEAN
  /\ kernel \in [Created -> {"none", "idle", "armed", "deleted"}]
  /\ pc \in [Actor -> {"idle", "init", "create", "start", "arm", "running", "stop",
                       "settime", "destroy", "delete", "clear", "enter", "read",
                       "write", "test"}]
  /\ seen \in [Callback -> [arg : BOOLEAN, count : Nat]] /\ count \in Nat
  /\ starts \in 0 .. MaxStarts /\ fault \in Actor \cup {Nobody}
  /\ overtaken \subseteq Actor /\ crossed \subseteq Created

\* A kernel timer nobody can stop would expire for ever.  Whoever stops and
\* destroys the timer, and however often: one that is not deleted is the one the
\* struct names, but for those that main started over while they were alive, and
\* those whose start was overtaken by a deletion, which clears the struct then.
OrphansAreCrossed == \A g \in Created : Alive(g) => timer_id = g \/ g \in crossed

\* The tests of the id and the clearing of the struct make a second stop and
\* destroy harmless, and a late callback too, unless the two overlap: whoever
\* uses NULL or a deleted timer was busy while another was deleting it.  (Or
\* there was an orphan, whose callbacks may do so even if nothing overlaps.)
FaultsAreCrossed == fault # Nobody => fault \in overtaken \/ crossed # {}

\* A timer that was started is disarmed in the end, although callbacks that
\* overlap lose increments of the count, and those of its former life count for
\* it.  (Or there was an orphan, or the run has ended in a fault.)
DisarmedInTheEnd ==
  (\E g \in Created : kernel[g] = "armed")
    ~> (fault # Nobody \/ crossed # {} \/ \A g \in Created : kernel[g] # "armed")
=============================================================================
