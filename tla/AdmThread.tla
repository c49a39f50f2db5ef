------------------------------ MODULE AdmThread ------------------------------
(***************************************************************************)
(* The life of one adm_thread_t of os/src/adm_os_thread.c: the owner       *)
(* creates it, the kernel (ThreadKernel, the new pthread) boots and calls  *)
(* the handler over and over, guests and the owner start, stop, signal it  *)
(* or give it another handler, and the owner destroys it.                  *)
(*                                                                         *)
(* A section between lock and unlock of pThread->lock is one step, except  *)
(* in adm_thread_set_func, whose two writes the kernel can tell apart: it  *)
(* reads the handler without the lock.  The event is only ever signalled:  *)
(* the wait for it in the kernel is commented out.                         *)
(***************************************************************************)
EXTENDS Integers, FiniteSets

CONSTANTS
  Owner,        \* the thread that creates and destroys
  Guest,        \* other threads that were given the handle
  Handler,      \* the <<function, parameter>> pairs in use; function may be NULL
  First,        \* the handler given at creation: NULL from adm_thread_create_noname
  CreateFails,  \* pthread_create may fail
  AwaitBoot,    \* the owner and the guests wait until the kernel has booted
  MaxCalls,     \* bound: calls a guest makes, and the owner before it destroys
  NULL

ASSUME ThreadAssumption ==
  /\ Owner \notin Guest /\ "unlocked" \notin {Owner} \cup Guest
  /\ First \in Handler
  /\ CreateFails \in BOOLEAN /\ AwaitBoot \in BOOLEAN /\ MaxCalls \in Nat

Caller == {Owner} \cup Guest
Unlocked == "unlocked"

VARIABLES
  struct,     \* the memory of the adm_thread_t: "none", "live", "freed"
  state,      \* pThread->state
  isRunning,  \* pThread->isRunning
  hThread,    \* pThread->hThread: FALSE for 0
  id,         \* pThread->id: FALSE for 0
  func,       \* pThread->handleEventFunc
  param,      \* pThread->handleEventParam
  lock,       \* who is inside adm_thread_set_func
  setting,    \* its argument inHandleEventParam
  signaled,   \* event.m_isSignaled
  kernel,     \* where the new thread is
  caller,     \* where each caller is
  stopped,    \* what each caller's last adm_thread_stop returned
  calls,      \* how many calls each caller has made
  launched,   \* how many times pthread_create succeeded
  lateCalls,  \* handler calls begun since a stop cleared isRunning
  aborted     \* "assert", "jump" (to a NULL handler), or "no"

fields == <<state, isRunning, hThread, id, func, param, lock, setting, signaled>>
vars   == <<struct, fields, kernel, caller, stopped, calls, launched,
            lateCalls, aborted>>

Init ==
  /\ struct = "none"
  /\ state = "Down" /\ isRunning = FALSE /\ hThread = FALSE /\ id = FALSE
  /\ func = First[1] /\ param = First[2]
  /\ lock = Unlocked /\ setting = NULL /\ signaled = FALSE
  /\ kernel = "none"
  /\ caller = [c \in Caller |-> "idle"]
  /\ stopped = [c \in Caller |-> FALSE]
  /\ calls = [c \in Caller |-> 0]
  /\ launched = 0 /\ lateCalls = 0
  /\ aborted = "no"

\* The process is still there.
Alive == aborted = "no"

CallerStep(c, from, to) ==
  Alive /\ caller[c] = from /\ caller' = [caller EXCEPT ![c] = to]

KernelStep(from, to) == Alive /\ kernel = from /\ kernel' = to

-----------------------------------------------------------------------------
(* adm_thread_create, _ext2, _byname: a zeroed struct, then start *)

Create ==
  /\ struct = "none"
  /\ CallerStep(Owner, "idle", "create")
  /\ struct' = "live"
  /\ UNCHANGED <<fields, kernel, stopped, calls, launched, lateCalls,
                 aborted>>
\* adm_thread_start when pthread_create succeeds.  A thread that was launched
\* once is not launched again, so a stopped thread stays stopped.
Launch ==
  IF isRunning \/ hThread
  THEN UNCHANGED <<hThread, launched, kernel>>
  ELSE hThread' = TRUE /\ launched' = launched + 1 /\ kernel' = "boot"

StartInCreate ==
  /\ lock = Unlocked
  /\ CallerStep(Owner, "create", "idle")
  /\ Launch
  /\ UNCHANGED <<struct, state, isRunning, id, func, param, lock, setting,
                 signaled, stopped, calls, lateCalls, aborted>>

\* adm_thread_create gives up: it destroys what it made.
StartFailsInCreate ==
  /\ CreateFails
  /\ lock = Unlocked /\ ~ isRunning
  /\ CallerStep(Owner, "create", "destroy")
  /\ state' = "Fault"
  /\ UNCHANGED <<struct, isRunning, hThread, id, func, param, lock,
                 setting, signaled,
                 kernel, stopped, calls, launched, lateCalls, aborted>>

-----------------------------------------------------------------------------
(* Calls on a handle *)

Booted == kernel \notin {"none", "boot"}

\* The owner hands the handle out when adm_thread_create has returned, and
\* takes it back, every guest out of its calls, before it destroys.
MayCall(c) ==
  /\ Alive /\ struct = "live" /\ caller[c] = "idle"
  /\ caller[Owner] = "idle"
  /\ calls[c] < MaxCalls
  /\ AwaitBoot => Booted

Counted(c) == calls' = [calls EXCEPT ![c] = @ + 1]

Start(c) ==
  /\ MayCall(c) /\ Counted(c)
  /\ lock = Unlocked
  /\ Launch
  /\ UNCHANGED <<struct, state, isRunning, id, func, param, lock, setting,
                 signaled, caller, stopped, lateCalls, aborted>>

Signal(c) ==
  /\ MayCall(c) /\ Counted(c)
  /\ signaled' = TRUE
  /\ UNCHANGED <<struct, state, isRunning, hThread, id, func, param, lock,
                 setting, kernel, caller, stopped, launched, lateCalls, aborted>>

(* adm_thread_set_func: lock, write one, write the other, unlock *)
\* Faulty: function and parameter are mixed up.
SetFuncSwapped(c, h) ==
  /\ MayCall(c) /\ Counted(c)
  /\ lock = Unlocked
  /\ caller' = [caller EXCEPT ![c] = "set"]
  /\ lock' = c /\ func' = h[2] /\ setting' = h[1]
  /\ UNCHANGED <<struct, state, isRunning, hThread, id, param, signaled, kernel,
                 stopped, launched, lateCalls, aborted>>

SetFunc(c, h) ==
  /\ MayCall(c) /\ Counted(c)
  /\ lock = Unlocked
  /\ caller' = [caller EXCEPT ![c] = "set"]
  /\ lock' = c /\ func' = h[1] /\ setting' = h[2]
  /\ UNCHANGED <<struct, state, isRunning, hThread, id, param, signaled, kernel,
                 stopped, launched, lateCalls, aborted>>

SetParam(c) ==
  /\ CallerStep(c, "set", "idle")
  /\ param' = setting /\ lock' = Unlocked /\ setting' = NULL
  /\ UNCHANGED <<struct, state, isRunning, hThread, id, func, signaled, kernel,
                 stopped, calls, launched, lateCalls, aborted>>

(* adm_thread_stop: from "stop" the call returns to "idle", from "destroy"  *)
(* it returns into adm_thread_destroy                                       *)

StopCall(c) ==
  /\ MayCall(c) /\ Counted(c)
  /\ caller' = [caller EXCEPT ![c] = "stop"]
  /\ UNCHANGED <<struct, fields, kernel, stopped, launched, lateCalls,
                 aborted>>
\* Faulty: stop never waits for a running thread.
StopNeverWaits(c) ==
  /\ lock = Unlocked
  /\ \/ CallerStep(c, "stop", "idle")
     \/ CallerStep(c, "destroy", "detach")
  /\ stopped' = [stopped EXCEPT ![c] = FALSE]
  /\ UNCHANGED <<struct, fields, kernel, calls, launched, lateCalls,
                 aborted>>

StopNotRunning(c) ==
  /\ lock = Unlocked /\ ~ isRunning
  /\ \/ CallerStep(c, "stop", "idle")
     \/ CallerStep(c, "destroy", "detach")
  /\ stopped' = [stopped EXCEPT ![c] = FALSE]
  /\ UNCHANGED <<struct, fields, kernel, calls, launched, lateCalls,
                 aborted>>
\* Faulty: the flag the kernel looks at stays set.
StopClearForgotten(c) ==
  /\ lock = Unlocked /\ isRunning
  /\ \/ CallerStep(c, "stop", "stop signal")
     \/ CallerStep(c, "destroy", "destroy signal")
  /\ UNCHANGED <<struct, fields, kernel, stopped, calls, launched,
                 lateCalls, aborted>>

StopClear(c) ==
  /\ lock = Unlocked /\ isRunning
  /\ \/ CallerStep(c, "stop", "stop signal")
     \/ CallerStep(c, "destroy", "destroy signal")
  /\ isRunning' = FALSE
  /\ lateCalls' = 0
  /\ UNCHANGED <<struct, state, hThread, id, func, param, lock,
                 setting, signaled,
                 kernel, stopped, calls, launched, aborted>>

StopSignal(c) ==
  /\ \/ CallerStep(c, "stop signal", "stop poll")
     \/ CallerStep(c, "destroy signal", "destroy poll")
  /\ signaled' = TRUE
  /\ UNCHANGED <<struct, state, isRunning, hThread, id, func, param, lock,
                 setting, kernel, stopped, calls, launched, lateCalls, aborted>>
\* Faulty: the state is not looked at.
StopPollOnce(c) ==
  /\ lock = Unlocked
  /\ \/ CallerStep(c, "stop poll", "idle")
     \/ CallerStep(c, "destroy poll", "join")
  /\ stopped' = [stopped EXCEPT ![c] = TRUE]
  /\ UNCHANGED <<struct, fields, kernel, calls, launched, lateCalls,
                 aborted>>

\* The loop that sleeps and looks at the state again.
StopPoll(c) ==
  /\ lock = Unlocked /\ state = "Down"
  /\ \/ CallerStep(c, "stop poll", "idle")
     \/ CallerStep(c, "destroy poll", "join")
  /\ stopped' = [stopped EXCEPT ![c] = TRUE]
  /\ UNCHANGED <<struct, fields, kernel, calls, launched, lateCalls,
                 aborted>>

(* adm_thread_destroy *)

Destroy ==
  /\ struct = "live"
  /\ CallerStep(Owner, "idle", "destroy")
  /\ \A g \in Guest : caller[g] = "idle"
  /\ AwaitBoot => Booted
  /\ UNCHANGED <<struct, fields, kernel, stopped, calls, launched,
                 lateCalls, aborted>>

Join ==
  /\ CallerStep(Owner, "join", "free")
  /\ kernel = "returned"
  /\ UNCHANGED <<struct, fields, kernel, stopped, calls, launched,
                 lateCalls, aborted>>

\* pthread_detach of the thread named by id; without one it fails, and the
\* assertion on its result ends the process.
Detach ==
  /\ IF id THEN CallerStep(Owner, "detach", "free") /\ UNCHANGED aborted
     ELSE Alive /\ caller[Owner] = "detach" /\ aborted' = "assert" /\ UNCHANGED caller
  /\ UNCHANGED <<struct, fields, kernel, stopped, calls, launched,
                 lateCalls>>

Free ==
  /\ CallerStep(Owner, "free", "done")
  /\ struct' = "freed"
  /\ UNCHANGED <<fields, kernel, stopped, calls, launched, lateCalls,
                 aborted>>

-----------------------------------------------------------------------------
(* ThreadKernel and adm_thread_handle_queue *)

KernelBoot ==
  /\ lock = Unlocked
  /\ KernelStep("boot", "loop")
  /\ state' = "Waiting" /\ isRunning' = TRUE /\ id' = TRUE
  /\ UNCHANGED <<struct, hThread, func, param, lock,
                 setting, signaled, caller,
                 stopped, calls, launched, lateCalls, aborted>>
\* Faulty: the kernel does not look at isRunning.
KernelCheckAlwaysOn ==
  /\ lock = Unlocked
  /\ KernelStep("loop", "func") /\ state' = "Busy"
  /\ UNCHANGED <<struct, isRunning, hThread, id, func, param, lock, setting,
                 signaled, caller, stopped, calls, launched, lateCalls,
                 aborted>>

KernelCheck ==
  /\ lock = Unlocked
  /\ IF isRunning
     THEN KernelStep("loop", "func") /\ state' = "Busy"
     ELSE KernelStep("loop", "down") /\ state' = "ShuttingDown"
  /\ UNCHANGED <<struct, isRunning, hThread, id, func, param, lock,
                 setting, signaled,
                 caller, stopped, calls, launched, lateCalls, aborted>>

\* Without a handler isOk is never assigned: it may be read as anything.
KernelNoFunc ==
  /\ func = NULL
  /\ KernelStep("func", "ok") \/ KernelStep("func", "fail")
  /\ UNCHANGED <<struct, fields, caller, stopped, calls, launched,
                 lateCalls, aborted>>

KernelFunc ==
  /\ func # NULL
  /\ KernelStep("func", "call")
  /\ UNCHANGED <<struct, fields, caller, stopped, calls, launched,
                 lateCalls, aborted>>

\* The call reads function and parameter again, still without the lock.
KernelCall ==
  /\ IF func # NULL
     THEN /\ KernelStep("call", "handler")
          /\ lateCalls' = IF isRunning THEN 0 ELSE lateCalls + 1
          /\ UNCHANGED aborted
     ELSE /\ Alive /\ kernel = "call"
          /\ aborted' = "jump"
          /\ UNCHANGED <<kernel, lateCalls>>
  /\ UNCHANGED <<struct, fields, caller, stopped, calls, launched>>

KernelReturn ==
  /\ KernelStep("handler", "ok") \/ KernelStep("handler", "fail")
  /\ UNCHANGED <<struct, fields, caller, stopped, calls, launched, lateCalls,
                 aborted>>

KernelResult ==
  /\ lock = Unlocked
  /\ \/ KernelStep("ok", "loop") /\ state' = "Waiting"
     \/ KernelStep("fail", "down") /\ state' = "ShuttingDown"
  /\ UNCHANGED <<struct, isRunning, hThread, id, func, param, lock,
                 setting, signaled,
                 caller, stopped, calls, launched, lateCalls, aborted>>
\* Faulty: the last state is never reported.
KernelDownSilent ==
  /\ lock = Unlocked
  /\ KernelStep("down", "exit")
  /\ isRunning' = FALSE
  /\ UNCHANGED <<struct, state, hThread, id, func, param, lock, setting, signaled,
                 caller, stopped, calls, launched, lateCalls, aborted>>

\* Faulty: the id is forgotten when the thread ends.
KernelDownForgetsId ==
  /\ lock = Unlocked
  /\ KernelStep("down", "exit")
  /\ state' = "Down" /\ isRunning' = FALSE /\ id' = FALSE
  /\ UNCHANGED <<struct, hThread, func, param, lock, setting, signaled,
                 caller, stopped, calls, launched, lateCalls, aborted>>

KernelDown ==
  /\ lock = Unlocked
  /\ KernelStep("down", "exit")
  /\ state' = "Down" /\ isRunning' = FALSE
  /\ UNCHANGED <<struct, hThread, id, func, param, lock,
                 setting, signaled,
                 caller, stopped, calls, launched, lateCalls, aborted>>

KernelExit ==
  /\ KernelStep("exit", "returned")
  /\ UNCHANGED <<struct, fields, caller, stopped, calls, launched,
                 lateCalls, aborted>>

-----------------------------------------------------------------------------

Kernel == \/ KernelBoot \/ KernelCheck \/ KernelNoFunc \/ KernelFunc
          \/ KernelCall \/ KernelReturn \/ KernelResult \/ KernelDown
          \/ KernelExit

\* The rest of a call once begun.
Continue(c) == \/ SetParam(c) \/ StopNotRunning(c) \/ StopClear(c)
               \/ StopSignal(c) \/ StopPoll(c)

OwnerStep == \/ Create \/ StartInCreate \/ StartFailsInCreate
             \/ Destroy \/ Join \/ Detach \/ Free

Begin(c) == \/ Start(c) \/ Signal(c) \/ StopCall(c)
            \/ \E h \in Handler : SetFunc(c, h)

Next ==
  \/ Kernel
  \/ OwnerStep
  \/ \E c \in Caller : Begin(c) \/ Continue(c)

Spec == Init /\ [][Next]_vars

\* The scheduler runs the kernel, whose handler returns, and every call that
\* was begun; nobody has to begin one.
FairSpec ==
  /\ Spec
  /\ WF_vars(Kernel)
  /\ WF_vars(Join \/ Detach \/ Free)
  /\ \A c \in Caller : WF_vars(Continue(c))

-----------------------------------------------------------------------------
(* Properties *)

TypeOK ==
  /\ struct \in {"none", "live", "freed"}
  /\ state \in {"Down", "Busy", "Waiting", "ShuttingDown", "Fault"}
  /\ isRunning \in BOOLEAN /\ hThread \in BOOLEAN /\ id \in BOOLEAN
  /\ func \in {h[1] : h \in Handler} /\ param \in {h[2] : h \in Handler}
  /\ lock \in Caller \cup {Unlocked} /\ setting \in {h[2] : h \in Handler} \cup {NULL}
  /\ signaled \in BOOLEAN
  /\ kernel \in {"none", "boot", "loop", "func", "call", "handler", "ok",
                 "fail", "down", "exit", "returned"}
  /\ caller \in [Caller -> {"idle", "create", "set", "stop", "stop signal",
                            "stop poll", "destroy", "destroy signal",
                            "destroy poll", "join", "detach", "free", "done"}]
  /\ stopped \in [Caller -> BOOLEAN]
  /\ calls \in [Caller -> 0 .. MaxCalls] /\ launched \in Nat
  /\ lateCalls \in Nat /\ aborted \in {"no", "assert", "jump"}

\* After adm_thread_destroy has freed the struct neither the kernel nor a
\* guest touches it any more.
NoUseAfterFree ==
  struct = "freed" => /\ kernel \in {"none", "exit", "returned"}
                      /\ \A g \in Guest : caller[g] = "idle"

\* The result of adm_thread_stop can be trusted: once it was TRUE for some
\* caller the kernel is past its last handler call and its last use of the
\* struct, and it stays there.
StopMeansDown ==
  (\E c \in Caller : stopped[c]) => kernel \in {"exit", "returned"}

\* From the moment a stop has cleared isRunning, the handler is begun once
\* more at most: when the kernel had already looked.
OneLateCall == lateCalls <= 1

\* The one way to the failing assertion of adm_thread_destroy, once calls wait
\* for the boot: a thread that could not be launched.  A thread that ran has
\* an id to detach, however it ended and whoever stopped it.
OnlyUnlaunchedFails == aborted = "assert" => launched = 0

\* adm_thread_destroy asserts that pthread_detach succeeded.
DetachSucceeds == aborted # "assert"

\* A caller in the poll loop of adm_thread_stop gets out of it, and an owner
\* that destroys gets done: the stop reaches the kernel at every point of
\* its loop, and nobody waits for a thread that will not end.  Only the end of
\* the process comes in between.
StopReturns ==
  \A c \in Caller :
    caller[c] \in {"stop poll", "destroy poll"} ~>
      caller[c] \notin {"stop poll", "destroy poll"} \/ ~ Alive
DestroyEnds == caller[Owner] = "destroy" ~> struct = "freed" \/ ~ Alive

=============================================================================
