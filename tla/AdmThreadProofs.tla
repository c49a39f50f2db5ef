--------------------------- MODULE AdmThreadProofs ---------------------------
(***************************************************************************)
(* Proofs about AdmThread, for any number of guests, handlers and calls.   *)
(***************************************************************************)
EXTENDS AdmThread, TLAPS

Looping == {"loop", "func", "call", "handler", "ok", "fail", "down"}
Over    == {"exit", "returned"}
Polling == {"stop signal", "stop poll", "destroy signal", "destroy poll"}
Ending  == {"destroy", "destroy signal", "destroy poll", "join", "detach",
            "free", "done"}

\* The lock is held by the one caller between the two writes of
\* adm_thread_set_func, and the parameter it will write is that of a handler.
SetInv ==
  /\ \A c \in Caller : caller[c] = "set" => lock = c
  /\ lock # Unlocked => caller[lock] = "set" /\ setting \in {h[2] : h \in Handler}

\* What the fields of the struct say about the kernel.
KernelInv ==
  /\ hThread <=> kernel # "none"
  /\ launched = IF hThread THEN 1 ELSE 0
  /\ id <=> Booted
  /\ isRunning => kernel \in Looping
  /\ kernel \in Looping => state \in {"Busy", "Waiting", "ShuttingDown"}
  /\ kernel \in Over => state = "Down"

\* Where the callers can be while the owner creates or destroys.
CallerInv ==
  /\ struct = "none" => kernel = "none" /\ \A c \in Caller : caller[c] = "idle"
  /\ struct = "freed" => caller[Owner] = "done"
  /\ caller[Owner] = "create" => kernel = "none"
  /\ \A g \in Guest : caller[g] \in {"idle", "set", "stop", "stop signal", "stop poll"}
  /\ caller[Owner] \in {"create"} \cup Ending => \A g \in Guest : caller[g] = "idle"

\* Who waits in adm_thread_stop waits for a kernel that has booted; and a
\* kernel that has booted and may not run on is over, or somebody waits.
StopInv ==
  /\ \A c \in Caller : caller[c] \in Polling => Booted
  /\ Booted /\ ~ isRunning => kernel \in Over \/ \E c \in Caller : caller[c] \in Polling
  /\ \A c \in Caller : stopped[c] => kernel \in Over

\* A kernel that has called the handler after a stop does not get past its next
\* look at isRunning.
LateInv ==
  /\ lateCalls \in 0 .. 1
  /\ lateCalls = 1 => ~ isRunning /\ kernel \notin {"none", "boot", "func", "call"}

\* The owner frees the struct when there is no kernel, or when it is over.
DestroyInv ==
  /\ caller[Owner] = "join" => kernel \in Over
  /\ aborted = "assert" => caller[Owner] = "detach" /\ ~ id
  /\ AwaitBoot /\ caller[Owner] \in Ending => kernel # "boot"
  /\ AwaitBoot /\ caller[Owner] \in {"detach", "free", "done"} =>
       kernel \in {"none"} \cup Over

ThreadInv == TypeOK /\ SetInv /\ KernelInv /\ CallerInv /\ StopInv
             /\ LateInv /\ DestroyInv

-----------------------------------------------------------------------------

LEMMA ThreadInit == Init => ThreadInv
<1> SUFFICES ASSUME Init PROVE ThreadInv
  OBVIOUS
<1> USE ThreadAssumption DEF Init, Caller
<1>1. TypeOK
  <2>1. func \in {h[1] : h \in Handler} /\ param \in {h[2] : h \in Handler}
    OBVIOUS
  <2>2. calls \in [Caller -> 0 .. MaxCalls]
    <3>1. 0 \in 0 .. MaxCalls
      OBVIOUS
    <3> QED BY <3>1
  <2>3. caller \in [Caller -> {"idle"}] /\ stopped \in [Caller -> BOOLEAN]
    OBVIOUS
  <2> QED BY <2>1, <2>2, <2>3 DEF TypeOK, Unlocked
<1>2. SetInv /\ CallerInv
  BY DEF SetInv, CallerInv, Ending, Unlocked
<1>3. KernelInv
  BY DEF KernelInv, Booted, Looping, Over
<1>4. StopInv
  BY DEF StopInv, Booted, Polling
<1>5. LateInv
  BY DEF LateInv
<1>6. DestroyInv
  BY DEF DestroyInv, Ending
<1> QED BY <1>1, <1>2, <1>3, <1>4, <1>5, <1>6 DEF ThreadInv

\* The type invariant in three parts.
Functions  == {h[1] : h \in Handler}
Parameters == {h[2] : h \in Handler}

HandlerTypes ==
  func \in Functions /\ param \in Parameters /\ setting \in Parameters \cup {NULL}

FieldTypes ==
  /\ struct \in {"none", "live", "freed"}
  /\ state \in {"Down", "Busy", "Waiting", "ShuttingDown", "Fault"}
  /\ isRunning \in BOOLEAN /\ hThread \in BOOLEAN /\ id \in BOOLEAN
  /\ lock \in Caller \cup {Unlocked} /\ signaled \in BOOLEAN
  /\ kernel \in {"none", "boot"} \cup Looping \cup Over
  /\ launched \in Nat /\ lateCalls \in Nat /\ aborted \in {"no", "assert", "jump"}

CallerTypes ==
  /\ caller \in [Caller -> {"idle", "create", "set", "stop", "stop signal",
                            "stop poll", "destroy", "destroy signal",
                            "destroy poll", "join", "detach", "free", "done"}]
  /\ stopped \in [Caller -> BOOLEAN] /\ calls \in [Caller -> 0 .. MaxCalls]

LEMMA TypeParts == TypeOK <=> HandlerTypes /\ FieldTypes /\ CallerTypes
BY DEF TypeOK, HandlerTypes, FieldTypes, CallerTypes, Functions, Parameters,
       Looping, Over

LEMMA LaunchTypes ==
  ASSUME FieldTypes, Launch
  PROVE  /\ hThread' \in BOOLEAN /\ launched' \in Nat
         /\ kernel' \in {"none", "boot"} \cup Looping \cup Over
<1>1. CASE UNCHANGED <<hThread, launched, kernel>>
  BY <1>1 DEF FieldTypes
<1>2. CASE hThread' = TRUE /\ launched' = launched + 1 /\ kernel' = "boot"
  <2>1. launched' \in Nat
    BY <1>2 DEF FieldTypes
  <2>2. hThread' \in BOOLEAN
    BY <1>2
  <2> QED BY <1>2, <2>1, <2>2
<1> QED BY <1>1, <1>2 DEF Launch

\* Nothing is launched twice.
LEMMA LaunchFacts ==
  ASSUME KernelInv, Launch
  PROVE  \/ UNCHANGED <<hThread, launched, kernel>>
         \/ /\ kernel = "none" /\ kernel' = "boot"
            /\ hThread' /\ launched' = 1
<1>1. CASE UNCHANGED <<hThread, launched, kernel>>
  BY <1>1
<1>2. CASE ~ hThread /\ hThread' = TRUE /\ launched' = launched + 1 /\ kernel' = "boot"
  <2>1. kernel = "none" /\ launched = 0
    BY <1>2 DEF KernelInv
  <2>2. launched' = 1
    BY <1>2, <2>1
  <2> QED BY <1>2, <2>1, <2>2
<1> QED BY <1>1, <1>2 DEF Launch

LEMMA KernelPlaces ==
  ASSUME FieldTypes, KernelInv, Booted, state = "Down"
  PROVE  kernel \in Over
BY DEF FieldTypes, KernelInv, Booted, Looping

LEMMA CountedTypes ==
  ASSUME CallerTypes, NEW c \in Caller, MayCall(c), Counted(c)
  PROVE  calls' \in [Caller -> 0 .. MaxCalls]
<1>1. calls \in [Caller -> 0 .. MaxCalls] /\ calls[c] \in 0 .. MaxCalls
  BY DEF CallerTypes
<1>2. calls[c] + 1 \in 0 .. MaxCalls
  BY <1>1, ThreadAssumption DEF MayCall
<1> QED BY <1>1, <1>2 DEF Counted

LEMMA HandlerFacts == \A h \in Handler : h[1] \in Functions /\ h[2] \in Parameters
BY DEF Functions, Parameters

LEMMA HandlerTypeStep ==
  ASSUME HandlerTypes, CallerTypes, SetInv, [Next]_vars
  PROVE  HandlerTypes'
<1> USE ThreadAssumption, HandlerFacts DEF HandlerTypes, CallerTypes,
        SetInv, CallerStep, KernelStep, fields, Caller, Unlocked
<1>1. CASE KernelBoot
  BY <1>1 DEF KernelBoot
<1>2. CASE KernelCheck
  BY <1>2 DEF KernelCheck
<1>3. CASE KernelNoFunc
  BY <1>3 DEF KernelNoFunc
<1>4. CASE KernelFunc
  BY <1>4 DEF KernelFunc
<1>5. CASE KernelCall
  BY <1>5 DEF KernelCall
<1>6. CASE KernelReturn
  BY <1>6 DEF KernelReturn
<1>7. CASE KernelResult
  BY <1>7 DEF KernelResult
<1>8. CASE KernelDown
  BY <1>8 DEF KernelDown
<1>9. CASE KernelExit
  BY <1>9 DEF KernelExit
<1>10. CASE Create
  BY <1>10 DEF Create
<1>11. CASE StartInCreate
  BY <1>11 DEF StartInCreate, Launch
<1>12. CASE StartFailsInCreate
  BY <1>12 DEF StartFailsInCreate
<1>13. CASE Destroy
  BY <1>13 DEF Destroy
<1>14. CASE Join
  BY <1>14 DEF Join
<1>15. CASE Detach
  BY <1>15 DEF Detach
<1>16. CASE Free
  BY <1>16 DEF Free
<1>17. ASSUME NEW c \in Caller, Start(c) PROVE HandlerTypes'
  BY <1>17 DEF Start, MayCall, Counted, Launch
<1>18. ASSUME NEW c \in Caller, Signal(c) PROVE HandlerTypes'
  BY <1>18 DEF Signal, MayCall, Counted
<1>19. ASSUME NEW c \in Caller, StopCall(c) PROVE HandlerTypes'
  BY <1>19 DEF StopCall, MayCall, Counted
<1>20. ASSUME NEW c \in Caller, SetParam(c) PROVE HandlerTypes'
  BY <1>20 DEF SetParam
<1>21. ASSUME NEW c \in Caller, StopNotRunning(c) PROVE HandlerTypes'
  BY <1>21 DEF StopNotRunning
<1>22. ASSUME NEW c \in Caller, StopClear(c) PROVE HandlerTypes'
  BY <1>22 DEF StopClear
<1>23. ASSUME NEW c \in Caller, StopSignal(c) PROVE HandlerTypes'
  BY <1>23 DEF StopSignal
<1>24. ASSUME NEW c \in Caller, StopPoll(c) PROVE HandlerTypes'
  BY <1>24 DEF StopPoll
<1>25. ASSUME NEW c \in Caller, NEW h \in Handler, SetFunc(c, h) PROVE HandlerTypes'
  BY <1>25 DEF SetFunc, MayCall, Counted
<1>26. CASE UNCHANGED vars
  BY <1>26 DEF vars
<1> QED
  BY <1>1, <1>2, <1>3, <1>4, <1>5, <1>6, <1>7, <1>8, <1>9, <1>10, <1>11,
     <1>12, <1>13, <1>14, <1>15, <1>16, <1>17, <1>18, <1>19, <1>20, <1>21,
     <1>22, <1>23, <1>24, <1>25, <1>26
     DEF Next, Kernel, OwnerStep, Begin, Continue

LEMMA FieldTypeStep ==
  ASSUME FieldTypes, [Next]_vars
  PROVE  FieldTypes'
<1> USE ThreadAssumption DEF FieldTypes, CallerStep, KernelStep, fields,
        Caller, Looping, Over
<1>1. CASE KernelBoot
  BY <1>1 DEF KernelBoot
<1>2. CASE KernelCheck
  BY <1>2 DEF KernelCheck
<1>3. CASE KernelNoFunc
  BY <1>3 DEF KernelNoFunc
<1>4. CASE KernelFunc
  BY <1>4 DEF KernelFunc
<1>5. CASE KernelCall
  BY <1>5 DEF KernelCall
<1>6. CASE KernelReturn
  BY <1>6 DEF KernelReturn
<1>7. CASE KernelResult
  BY <1>7 DEF KernelResult
<1>8. CASE KernelDown
  BY <1>8 DEF KernelDown
<1>9. CASE KernelExit
  BY <1>9 DEF KernelExit
<1>10. CASE Create
  BY <1>10 DEF Create
<1>11. CASE StartInCreate
  <2>1. /\ hThread' \in BOOLEAN /\ launched' \in Nat
        /\ kernel' \in {"none", "boot"} \cup Looping \cup Over
    BY <1>11, LaunchTypes DEF StartInCreate
  <2> QED BY <1>11, <2>1 DEF StartInCreate
<1>12. CASE StartFailsInCreate
  BY <1>12 DEF StartFailsInCreate
<1>13. CASE Destroy
  BY <1>13 DEF Destroy
<1>14. CASE Join
  BY <1>14 DEF Join
<1>15. CASE Detach
  BY <1>15 DEF Detach
<1>16. CASE Free
  BY <1>16 DEF Free
<1>17. ASSUME NEW c \in Caller, Start(c) PROVE FieldTypes'
  <2>1. /\ hThread' \in BOOLEAN /\ launched' \in Nat
        /\ kernel' \in {"none", "boot"} \cup Looping \cup Over
    BY <1>17, LaunchTypes DEF Start
  <2> QED BY <1>17, <2>1 DEF Start
<1>18. ASSUME NEW c \in Caller, Signal(c) PROVE FieldTypes'
  BY <1>18 DEF Signal, MayCall, Counted
<1>19. ASSUME NEW c \in Caller, StopCall(c) PROVE FieldTypes'
  BY <1>19 DEF StopCall, MayCall, Counted
<1>20. ASSUME NEW c \in Caller, SetParam(c) PROVE FieldTypes'
  BY <1>20 DEF SetParam
<1>21. ASSUME NEW c \in Caller, StopNotRunning(c) PROVE FieldTypes'
  BY <1>21 DEF StopNotRunning
<1>22. ASSUME NEW c \in Caller, StopClear(c) PROVE FieldTypes'
  BY <1>22 DEF StopClear
<1>23. ASSUME NEW c \in Caller, StopSignal(c) PROVE FieldTypes'
  <2>1. signaled' \in BOOLEAN
    BY <1>23 DEF StopSignal
  <2>2. UNCHANGED <<struct, state, isRunning, hThread, id, lock, kernel, launched,
                    lateCalls, aborted>>
    BY <1>23 DEF StopSignal
  <2> QED BY <2>1, <2>2
<1>24. ASSUME NEW c \in Caller, StopPoll(c) PROVE FieldTypes'
  BY <1>24 DEF StopPoll
<1>25. ASSUME NEW c \in Caller, NEW h \in Handler, SetFunc(c, h) PROVE FieldTypes'
  BY <1>25 DEF SetFunc, MayCall, Counted
<1>26. CASE UNCHANGED vars
  BY <1>26 DEF vars
<1> QED
  BY <1>1, <1>2, <1>3, <1>4, <1>5, <1>6, <1>7, <1>8, <1>9, <1>10, <1>11,
     <1>12, <1>13, <1>14, <1>15, <1>16, <1>17, <1>18, <1>19, <1>20, <1>21,
     <1>22, <1>23, <1>24, <1>25, <1>26
     DEF Next, Kernel, OwnerStep, Begin, Continue

LEMMA CallerTypeStep ==
  ASSUME CallerTypes, [Next]_vars
  PROVE  CallerTypes'
<1> USE ThreadAssumption DEF CallerTypes, CallerStep, KernelStep, fields,
        Caller
<1>1. CASE KernelBoot
  BY <1>1 DEF KernelBoot
<1>2. CASE KernelCheck
  BY <1>2 DEF KernelCheck
<1>3. CASE KernelNoFunc
  BY <1>3 DEF KernelNoFunc
<1>4. CASE KernelFunc
  BY <1>4 DEF KernelFunc
<1>5. CASE KernelCall
  BY <1>5 DEF KernelCall
<1>6. CASE KernelReturn
  BY <1>6 DEF KernelReturn
<1>7. CASE KernelResult
  BY <1>7 DEF KernelResult
<1>8. CASE KernelDown
  BY <1>8 DEF KernelDown
<1>9. CASE KernelExit
  BY <1>9 DEF KernelExit
<1>10. CASE Create
  BY <1>10 DEF Create
<1>11. CASE StartInCreate
  BY <1>11 DEF StartInCreate, Launch
<1>12. CASE StartFailsInCreate
  BY <1>12 DEF StartFailsInCreate
<1>13. CASE Destroy
  BY <1>13 DEF Destroy
<1>14. CASE Join
  BY <1>14 DEF Join
<1>15. CASE Detach
  BY <1>15 DEF Detach
<1>16. CASE Free
  BY <1>16 DEF Free
<1>17. ASSUME NEW c \in Caller, Start(c) PROVE CallerTypes'
  <2>1. calls' \in [Caller -> 0 .. MaxCalls] /\ UNCHANGED stopped
    BY <1>17, CountedTypes DEF Start
  <2> QED BY <1>17, <2>1 DEF Start
<1>18. ASSUME NEW c \in Caller, Signal(c) PROVE CallerTypes'
  <2>1. calls' \in [Caller -> 0 .. MaxCalls] /\ UNCHANGED stopped
    BY <1>18, CountedTypes DEF Signal
  <2> QED BY <1>18, <2>1 DEF Signal
<1>19. ASSUME NEW c \in Caller, StopCall(c) PROVE CallerTypes'
  <2>1. calls' \in [Caller -> 0 .. MaxCalls] /\ UNCHANGED stopped
    BY <1>19, CountedTypes DEF StopCall
  <2> QED BY <1>19, <2>1 DEF StopCall
<1>20. ASSUME NEW c \in Caller, SetParam(c) PROVE CallerTypes'
  BY <1>20 DEF SetParam
<1>21. ASSUME NEW c \in Caller, StopNotRunning(c) PROVE CallerTypes'
  BY <1>21 DEF StopNotRunning
<1>22. ASSUME NEW c \in Caller, StopClear(c) PROVE CallerTypes'
  BY <1>22 DEF StopClear
<1>23. ASSUME NEW c \in Caller, StopSignal(c) PROVE CallerTypes'
  BY <1>23 DEF StopSignal
<1>24. ASSUME NEW c \in Caller, StopPoll(c) PROVE CallerTypes'
  BY <1>24 DEF StopPoll
<1>25. ASSUME NEW c \in Caller, NEW h \in Handler, SetFunc(c, h) PROVE CallerTypes'
  <2>1. calls' \in [Caller -> 0 .. MaxCalls] /\ UNCHANGED stopped
    BY <1>25, CountedTypes DEF SetFunc
  <2> QED BY <1>25, <2>1 DEF SetFunc
<1>26. CASE UNCHANGED vars
  BY <1>26 DEF vars
<1> QED
  BY <1>1, <1>2, <1>3, <1>4, <1>5, <1>6, <1>7, <1>8, <1>9, <1>10, <1>11,
     <1>12, <1>13, <1>14, <1>15, <1>16, <1>17, <1>18, <1>19, <1>20, <1>21,
     <1>22, <1>23, <1>24, <1>25, <1>26
     DEF Next, Kernel, OwnerStep, Begin, Continue

LEMMA SetStep ==
  ASSUME TypeOK, SetInv, [Next]_vars
  PROVE  SetInv'
<1> USE ThreadAssumption DEF TypeOK, SetInv, CallerStep, KernelStep, fields,
        Caller, Unlocked
<1>1. CASE KernelBoot
  BY <1>1 DEF KernelBoot
<1>2. CASE KernelCheck
  BY <1>2 DEF KernelCheck
<1>3. CASE KernelNoFunc
  BY <1>3 DEF KernelNoFunc
<1>4. CASE KernelFunc
  BY <1>4 DEF KernelFunc
<1>5. CASE KernelCall
  BY <1>5 DEF KernelCall
<1>6. CASE KernelReturn
  BY <1>6 DEF KernelReturn
<1>7. CASE KernelResult
  BY <1>7 DEF KernelResult
<1>8. CASE KernelDown
  BY <1>8 DEF KernelDown
<1>9. CASE KernelExit
  BY <1>9 DEF KernelExit
<1>10. CASE Create
  BY <1>10 DEF Create
<1>11. CASE StartInCreate
  BY <1>11 DEF StartInCreate, Launch
<1>12. CASE StartFailsInCreate
  BY <1>12 DEF StartFailsInCreate
<1>13. CASE Destroy
  BY <1>13 DEF Destroy
<1>14. CASE Join
  BY <1>14 DEF Join
<1>15. CASE Detach
  BY <1>15 DEF Detach
<1>16. CASE Free
  BY <1>16 DEF Free
<1>17. ASSUME NEW c \in Caller, Start(c) PROVE SetInv'
  BY <1>17 DEF Start, MayCall, Counted, Launch
<1>18. ASSUME NEW c \in Caller, Signal(c) PROVE SetInv'
  BY <1>18 DEF Signal, MayCall, Counted
<1>19. ASSUME NEW c \in Caller, StopCall(c) PROVE SetInv'
  BY <1>19 DEF StopCall, MayCall, Counted
<1>20. ASSUME NEW c \in Caller, SetParam(c) PROVE SetInv'
  BY <1>20 DEF SetParam
<1>21. ASSUME NEW c \in Caller, StopNotRunning(c) PROVE SetInv'
  BY <1>21 DEF StopNotRunning
<1>22. ASSUME NEW c \in Caller, StopClear(c) PROVE SetInv'
  BY <1>22 DEF StopClear
<1>23. ASSUME NEW c \in Caller, StopSignal(c) PROVE SetInv'
  BY <1>23 DEF StopSignal
<1>24. ASSUME NEW c \in Caller, StopPoll(c) PROVE SetInv'
  BY <1>24 DEF StopPoll
<1>25. ASSUME NEW c \in Caller, NEW h \in Handler, SetFunc(c, h) PROVE SetInv'
  BY <1>25 DEF SetFunc, MayCall, Counted
<1>26. CASE UNCHANGED vars
  BY <1>26 DEF vars
<1> QED
  BY <1>1, <1>2, <1>3, <1>4, <1>5, <1>6, <1>7, <1>8, <1>9, <1>10, <1>11,
     <1>12, <1>13, <1>14, <1>15, <1>16, <1>17, <1>18, <1>19, <1>20, <1>21,
     <1>22, <1>23, <1>24, <1>25, <1>26
     DEF Next, Kernel, OwnerStep, Begin, Continue

LEMMA KernelStepInv ==
  ASSUME CallerTypes, KernelInv, CallerInv, [Next]_vars
  PROVE  KernelInv'
<1> USE ThreadAssumption DEF CallerTypes, KernelInv, CallerInv, CallerStep,
        KernelStep, fields, Caller, Booted, Looping, Over
<1>1. CASE KernelBoot
  BY <1>1 DEF KernelBoot
<1>2. CASE KernelCheck
  BY <1>2 DEF KernelCheck
<1>3. CASE KernelNoFunc
  BY <1>3 DEF KernelNoFunc
<1>4. CASE KernelFunc
  BY <1>4 DEF KernelFunc
<1>5. CASE KernelCall
  BY <1>5 DEF KernelCall
<1>6. CASE KernelReturn
  BY <1>6 DEF KernelReturn
<1>7. CASE KernelResult
  BY <1>7 DEF KernelResult
<1>8. CASE KernelDown
  BY <1>8 DEF KernelDown
<1>9. CASE KernelExit
  BY <1>9 DEF KernelExit
<1>10. CASE Create
  BY <1>10 DEF Create
<1>11. CASE StartInCreate
  <2>1. UNCHANGED <<isRunning, id, state>>
    BY <1>11 DEF StartInCreate
  <2>2. CASE UNCHANGED <<hThread, launched, kernel>>
    BY <2>1, <2>2
  <2>3. CASE kernel = "none" /\ kernel' = "boot" /\ hThread' /\ launched' = 1
    <3>1. ~ id /\ ~ isRunning
      BY <2>3
    <3>2. launched' = IF hThread' THEN 1 ELSE 0
      BY <2>3
    <3> QED BY <2>1, <2>3, <3>1, <3>2
  <2> QED BY <1>11, <2>2, <2>3, LaunchFacts DEF StartInCreate
<1>12. CASE StartFailsInCreate
  BY <1>12 DEF StartFailsInCreate
<1>13. CASE Destroy
  BY <1>13 DEF Destroy
<1>14. CASE Join
  BY <1>14 DEF Join
<1>15. CASE Detach
  BY <1>15 DEF Detach
<1>16. CASE Free
  BY <1>16 DEF Free
<1>17. ASSUME NEW c \in Caller, Start(c) PROVE KernelInv'
  <2>1. UNCHANGED <<isRunning, id, state>>
    BY <1>17 DEF Start
  <2>2. CASE UNCHANGED <<hThread, launched, kernel>>
    BY <2>1, <2>2
  <2>3. CASE kernel = "none" /\ kernel' = "boot" /\ hThread' /\ launched' = 1
    <3>1. ~ id /\ ~ isRunning
      BY <2>3
    <3>2. launched' = IF hThread' THEN 1 ELSE 0
      BY <2>3
    <3> QED BY <2>1, <2>3, <3>1, <3>2
  <2> QED BY <1>17, <2>2, <2>3, LaunchFacts DEF Start
<1>18. ASSUME NEW c \in Caller, Signal(c) PROVE KernelInv'
  BY <1>18 DEF Signal, MayCall, Counted
<1>19. ASSUME NEW c \in Caller, StopCall(c) PROVE KernelInv'
  BY <1>19 DEF StopCall, MayCall, Counted
<1>20. ASSUME NEW c \in Caller, SetParam(c) PROVE KernelInv'
  BY <1>20 DEF SetParam
<1>21. ASSUME NEW c \in Caller, StopNotRunning(c) PROVE KernelInv'
  BY <1>21 DEF StopNotRunning
<1>22. ASSUME NEW c \in Caller, StopClear(c) PROVE KernelInv'
  BY <1>22 DEF StopClear
<1>23. ASSUME NEW c \in Caller, StopSignal(c) PROVE KernelInv'
  BY <1>23 DEF StopSignal
<1>24. ASSUME NEW c \in Caller, StopPoll(c) PROVE KernelInv'
  BY <1>24 DEF StopPoll
<1>25. ASSUME NEW c \in Caller, NEW h \in Handler, SetFunc(c, h) PROVE KernelInv'
  BY <1>25 DEF SetFunc, MayCall, Counted
<1>26. CASE UNCHANGED vars
  BY <1>26 DEF vars
<1> QED
  BY <1>1, <1>2, <1>3, <1>4, <1>5, <1>6, <1>7, <1>8, <1>9, <1>10, <1>11,
     <1>12, <1>13, <1>14, <1>15, <1>16, <1>17, <1>18, <1>19, <1>20, <1>21,
     <1>22, <1>23, <1>24, <1>25, <1>26
     DEF Next, Kernel, OwnerStep, Begin, Continue

LEMMA CallerStepInv ==
  ASSUME CallerTypes, CallerInv, KernelInv, [Next]_vars
  PROVE  CallerInv'
<1> USE ThreadAssumption DEF CallerTypes, CallerInv, KernelInv, CallerStep,
        KernelStep, fields, Caller, Booted, Looping, Over, Ending
<1>1. CASE KernelBoot
  BY <1>1 DEF KernelBoot
<1>2. CASE KernelCheck
  BY <1>2 DEF KernelCheck
<1>3. CASE KernelNoFunc
  BY <1>3 DEF KernelNoFunc
<1>4. CASE KernelFunc
  BY <1>4 DEF KernelFunc
<1>5. CASE KernelCall
  BY <1>5 DEF KernelCall
<1>6. CASE KernelReturn
  BY <1>6 DEF KernelReturn
<1>7. CASE KernelResult
  BY <1>7 DEF KernelResult
<1>8. CASE KernelDown
  BY <1>8 DEF KernelDown
<1>9. CASE KernelExit
  BY <1>9 DEF KernelExit
<1>10. CASE Create
  BY <1>10 DEF Create
<1>11. CASE StartInCreate
  BY <1>11 DEF StartInCreate, Launch
<1>12. CASE StartFailsInCreate
  BY <1>12 DEF StartFailsInCreate
<1>13. CASE Destroy
  BY <1>13 DEF Destroy
<1>14. CASE Join
  BY <1>14 DEF Join
<1>15. CASE Detach
  BY <1>15 DEF Detach
<1>16. CASE Free
  BY <1>16 DEF Free
<1>17. ASSUME NEW c \in Caller, Start(c) PROVE CallerInv'
  BY <1>17 DEF Start, MayCall, Counted, Launch
<1>18. ASSUME NEW c \in Caller, Signal(c) PROVE CallerInv'
  BY <1>18 DEF Signal, MayCall, Counted
<1>19. ASSUME NEW c \in Caller, StopCall(c) PROVE CallerInv'
  BY <1>19 DEF StopCall, MayCall, Counted
<1>20. ASSUME NEW c \in Caller, SetParam(c) PROVE CallerInv'
  BY <1>20 DEF SetParam
<1>21. ASSUME NEW c \in Caller, StopNotRunning(c) PROVE CallerInv'
  BY <1>21 DEF StopNotRunning
<1>22. ASSUME NEW c \in Caller, StopClear(c) PROVE CallerInv'
  BY <1>22 DEF StopClear
<1>23. ASSUME NEW c \in Caller, StopSignal(c) PROVE CallerInv'
  BY <1>23 DEF StopSignal
<1>24. ASSUME NEW c \in Caller, StopPoll(c) PROVE CallerInv'
  BY <1>24 DEF StopPoll
<1>25. ASSUME NEW c \in Caller, NEW h \in Handler, SetFunc(c, h) PROVE CallerInv'
  BY <1>25 DEF SetFunc, MayCall, Counted
<1>26. CASE UNCHANGED vars
  BY <1>26 DEF vars
<1> QED
  BY <1>1, <1>2, <1>3, <1>4, <1>5, <1>6, <1>7, <1>8, <1>9, <1>10, <1>11,
     <1>12, <1>13, <1>14, <1>15, <1>16, <1>17, <1>18, <1>19, <1>20, <1>21,
     <1>22, <1>23, <1>24, <1>25, <1>26
     DEF Next, Kernel, OwnerStep, Begin, Continue

LEMMA StopStep ==
  ASSUME FieldTypes, CallerTypes, KernelInv, StopInv, [Next]_vars
  PROVE  StopInv'
<1> USE ThreadAssumption DEF CallerTypes, StopInv, CallerStep, KernelStep,
        fields, Caller, Booted, Looping, Over, Polling
<1>1. CASE KernelBoot
  BY <1>1 DEF KernelBoot
<1>2. CASE KernelCheck
  BY <1>2 DEF KernelCheck
<1>3. CASE KernelNoFunc
  BY <1>3 DEF KernelNoFunc
<1>4. CASE KernelFunc
  BY <1>4 DEF KernelFunc
<1>5. CASE KernelCall
  BY <1>5 DEF KernelCall
<1>6. CASE KernelReturn
  BY <1>6 DEF KernelReturn
<1>7. CASE KernelResult
  BY <1>7 DEF KernelResult
<1>8. CASE KernelDown
  <2>1. /\ UNCHANGED <<caller, stopped>>
        /\ kernel' \in Over /\ ~ isRunning'
    BY <1>8 DEF KernelDown
  <2> QED BY <2>1
<1>9. CASE KernelExit
  BY <1>9 DEF KernelExit
<1>10. CASE Create
  BY <1>10 DEF Create
<1>11. CASE StartInCreate
  <2>1. /\ UNCHANGED <<isRunning, stopped>>
        /\ \A b \in Caller : caller'[b] \in Polling <=> caller[b] \in Polling
    BY <1>11 DEF StartInCreate
  <2>2. UNCHANGED kernel \/ (kernel = "none" /\ kernel' = "boot")
    BY <1>11, LaunchFacts DEF StartInCreate
  <2> QED BY <2>1, <2>2
<1>12. CASE StartFailsInCreate
  BY <1>12 DEF StartFailsInCreate
<1>13. CASE Destroy
  BY <1>13 DEF Destroy
<1>14. CASE Join
  BY <1>14 DEF Join
<1>15. CASE Detach
  BY <1>15 DEF Detach
<1>16. CASE Free
  BY <1>16 DEF Free
<1>17. ASSUME NEW c \in Caller, Start(c) PROVE StopInv'
  <2>1. /\ UNCHANGED <<isRunning, stopped>>
        /\ \A b \in Caller : caller'[b] \in Polling <=> caller[b] \in Polling
    BY <1>17 DEF Start
  <2>2. UNCHANGED kernel \/ (kernel = "none" /\ kernel' = "boot")
    BY <1>17, LaunchFacts DEF Start
  <2> QED BY <2>1, <2>2
<1>18. ASSUME NEW c \in Caller, Signal(c) PROVE StopInv'
  BY <1>18 DEF Signal, MayCall, Counted
<1>19. ASSUME NEW c \in Caller, StopCall(c) PROVE StopInv'
  BY <1>19 DEF StopCall, MayCall, Counted
<1>20. ASSUME NEW c \in Caller, SetParam(c) PROVE StopInv'
  BY <1>20 DEF SetParam
<1>21. ASSUME NEW c \in Caller, StopNotRunning(c) PROVE StopInv'
  BY <1>21 DEF StopNotRunning
<1>22. ASSUME NEW c \in Caller, StopClear(c) PROVE StopInv'
  <2>1. UNCHANGED <<kernel, stopped>> /\ isRunning
    BY <1>22 DEF StopClear
  <2>2. caller'[c] \in Polling /\ \A b \in Caller : b # c => caller'[b] = caller[b]
    BY <1>22 DEF StopClear
  <2>3. Booted
    BY <2>1 DEF KernelInv
  <2>4. \A b \in Caller : caller'[b] \in Polling => Booted'
    BY <2>1, <2>3
  <2>5. \E b \in Caller : caller'[b] \in Polling
    BY <2>2
  <2>6. \A b \in Caller : stopped'[b] => kernel' \in Over
    BY <2>1
  <2> QED BY <2>1, <2>4, <2>5, <2>6
<1>23. ASSUME NEW c \in Caller, StopSignal(c) PROVE StopInv'
  BY <1>23 DEF StopSignal
<1>24. ASSUME NEW c \in Caller, StopPoll(c) PROVE StopInv'
  <2>1. state = "Down" /\ UNCHANGED <<kernel, isRunning>>
    BY <1>24 DEF StopPoll
  <2>2. Booted
    BY <1>24 DEF StopPoll
  <2>3. kernel \in Over
    BY <2>1, <2>2, KernelPlaces DEF KernelInv
  <2>4. \A b \in Caller : caller'[b] \in Polling => caller[b] \in Polling
    BY <1>24 DEF StopPoll
  <2> QED BY <2>1, <2>3, <2>4
<1>25. ASSUME NEW c \in Caller, NEW h \in Handler, SetFunc(c, h) PROVE StopInv'
  BY <1>25 DEF SetFunc, MayCall, Counted
<1>26. CASE UNCHANGED vars
  BY <1>26 DEF vars
<1> QED
  BY <1>1, <1>2, <1>3, <1>4, <1>5, <1>6, <1>7, <1>8, <1>9, <1>10, <1>11,
     <1>12, <1>13, <1>14, <1>15, <1>16, <1>17, <1>18, <1>19, <1>20, <1>21,
     <1>22, <1>23, <1>24, <1>25, <1>26
     DEF Next, Kernel, OwnerStep, Begin, Continue

LEMMA LateStep ==
  ASSUME KernelInv, LateInv, [Next]_vars
  PROVE  LateInv'
<1> USE ThreadAssumption DEF LateInv, CallerStep, KernelStep, fields, Caller
<1>1. CASE KernelBoot
  BY <1>1 DEF KernelBoot
<1>2. CASE KernelCheck
  BY <1>2 DEF KernelCheck
<1>3. CASE KernelNoFunc
  BY <1>3 DEF KernelNoFunc
<1>4. CASE KernelFunc
  BY <1>4 DEF KernelFunc
<1>5. CASE KernelCall
  BY <1>5 DEF KernelCall
<1>6. CASE KernelReturn
  BY <1>6 DEF KernelReturn
<1>7. CASE KernelResult
  BY <1>7 DEF KernelResult
<1>8. CASE KernelDown
  BY <1>8 DEF KernelDown
<1>9. CASE KernelExit
  BY <1>9 DEF KernelExit
<1>10. CASE Create
  BY <1>10 DEF Create
<1>11. CASE StartInCreate
  <2>1. UNCHANGED <<isRunning, lateCalls>>
    BY <1>11 DEF StartInCreate
  <2>2. UNCHANGED kernel \/ (kernel = "none" /\ kernel' = "boot")
    BY <1>11, LaunchFacts DEF StartInCreate
  <2> QED BY <2>1, <2>2
<1>12. CASE StartFailsInCreate
  BY <1>12 DEF StartFailsInCreate
<1>13. CASE Destroy
  BY <1>13 DEF Destroy
<1>14. CASE Join
  BY <1>14 DEF Join
<1>15. CASE Detach
  BY <1>15 DEF Detach
<1>16. CASE Free
  BY <1>16 DEF Free
<1>17. ASSUME NEW c \in Caller, Start(c) PROVE LateInv'
  <2>1. UNCHANGED <<isRunning, lateCalls>>
    BY <1>17 DEF Start
  <2>2. UNCHANGED kernel \/ (kernel = "none" /\ kernel' = "boot")
    BY <1>17, LaunchFacts DEF Start
  <2> QED BY <2>1, <2>2
<1>18. ASSUME NEW c \in Caller, Signal(c) PROVE LateInv'
  BY <1>18 DEF Signal, MayCall, Counted
<1>19. ASSUME NEW c \in Caller, StopCall(c) PROVE LateInv'
  BY <1>19 DEF StopCall, MayCall, Counted
<1>20. ASSUME NEW c \in Caller, SetParam(c) PROVE LateInv'
  BY <1>20 DEF SetParam
<1>21. ASSUME NEW c \in Caller, StopNotRunning(c) PROVE LateInv'
  BY <1>21 DEF StopNotRunning
<1>22. ASSUME NEW c \in Caller, StopClear(c) PROVE LateInv'
  <2>1. lateCalls' = 0
    BY <1>22 DEF StopClear
  <2> QED BY <2>1
<1>23. ASSUME NEW c \in Caller, StopSignal(c) PROVE LateInv'
  BY <1>23 DEF StopSignal
<1>24. ASSUME NEW c \in Caller, StopPoll(c) PROVE LateInv'
  BY <1>24 DEF StopPoll
<1>25. ASSUME NEW c \in Caller, NEW h \in Handler, SetFunc(c, h) PROVE LateInv'
  BY <1>25 DEF SetFunc, MayCall, Counted
<1>26. CASE UNCHANGED vars
  BY <1>26 DEF vars
<1> QED
  BY <1>1, <1>2, <1>3, <1>4, <1>5, <1>6, <1>7, <1>8, <1>9, <1>10, <1>11,
     <1>12, <1>13, <1>14, <1>15, <1>16, <1>17, <1>18, <1>19, <1>20, <1>21,
     <1>22, <1>23, <1>24, <1>25, <1>26
     DEF Next, Kernel, OwnerStep, Begin, Continue

LEMMA DestroyStep ==
  ASSUME FieldTypes, CallerTypes, KernelInv, CallerInv, StopInv, DestroyInv, [Next]_vars
  PROVE  DestroyInv'
<1> USE ThreadAssumption DEF CallerTypes, KernelInv, CallerInv, StopInv,
        DestroyInv, CallerStep, KernelStep, fields, Caller, Booted, Looping,
        Over, Polling, Ending
<1>1. CASE KernelBoot
  <2>1. kernel = "boot" /\ kernel' = "loop" /\ UNCHANGED <<caller, aborted>>
    BY <1>1 DEF KernelBoot
  <2>2. aborted # "assert"
    BY <1>1 DEF KernelBoot, Alive
  <2> QED BY <2>1, <2>2
<1>2. CASE KernelCheck
  BY <1>2 DEF KernelCheck
<1>3. CASE KernelNoFunc
  BY <1>3 DEF KernelNoFunc
<1>4. CASE KernelFunc
  BY <1>4 DEF KernelFunc
<1>5. CASE KernelCall
  BY <1>5 DEF KernelCall
<1>6. CASE KernelReturn
  BY <1>6 DEF KernelReturn
<1>7. CASE KernelResult
  BY <1>7 DEF KernelResult
<1>8. CASE KernelDown
  BY <1>8 DEF KernelDown
<1>9. CASE KernelExit
  BY <1>9 DEF KernelExit
<1>10. CASE Create
  BY <1>10 DEF Create
<1>11. CASE StartInCreate
  BY <1>11 DEF StartInCreate, Launch
<1>12. CASE StartFailsInCreate
  BY <1>12 DEF StartFailsInCreate
<1>13. CASE Destroy
  BY <1>13 DEF Destroy
<1>14. CASE Join
  BY <1>14 DEF Join
<1>15. CASE Detach
  BY <1>15 DEF Detach
<1>16. CASE Free
  BY <1>16 DEF Free
<1>17. ASSUME NEW c \in Caller, Start(c) PROVE DestroyInv'
  BY <1>17 DEF Start, MayCall, Counted, Launch
<1>18. ASSUME NEW c \in Caller, Signal(c) PROVE DestroyInv'
  BY <1>18 DEF Signal, MayCall, Counted
<1>19. ASSUME NEW c \in Caller, StopCall(c) PROVE DestroyInv'
  BY <1>19 DEF StopCall, MayCall, Counted
<1>20. ASSUME NEW c \in Caller, SetParam(c) PROVE DestroyInv'
  BY <1>20 DEF SetParam
<1>21. ASSUME NEW c \in Caller, StopNotRunning(c) PROVE DestroyInv'
  BY <1>21 DEF StopNotRunning
<1>22. ASSUME NEW c \in Caller, StopClear(c) PROVE DestroyInv'
  BY <1>22 DEF StopClear
<1>23. ASSUME NEW c \in Caller, StopSignal(c) PROVE DestroyInv'
  BY <1>23 DEF StopSignal
<1>24. ASSUME NEW c \in Caller, StopPoll(c) PROVE DestroyInv'
  <2>1. state = "Down" /\ UNCHANGED <<kernel, id, aborted>>
    BY <1>24 DEF StopPoll
  <2>2. Booted
    BY <1>24 DEF StopPoll
  <2>3. kernel \in Over
    BY <2>1, <2>2, KernelPlaces
  <2>4. aborted = "no"
    BY <1>24 DEF StopPoll, Alive
  <2>5. caller'[Owner] \in {caller[Owner], "idle", "join"}
    BY <1>24 DEF StopPoll
  <2> QED BY <2>1, <2>3, <2>4, <2>5
<1>25. ASSUME NEW c \in Caller, NEW h \in Handler, SetFunc(c, h) PROVE DestroyInv'
  BY <1>25 DEF SetFunc, MayCall, Counted
<1>26. CASE UNCHANGED vars
  BY <1>26 DEF vars
<1> QED
  BY <1>1, <1>2, <1>3, <1>4, <1>5, <1>6, <1>7, <1>8, <1>9, <1>10, <1>11,
     <1>12, <1>13, <1>14, <1>15, <1>16, <1>17, <1>18, <1>19, <1>20, <1>21,
     <1>22, <1>23, <1>24, <1>25, <1>26
     DEF Next, Kernel, OwnerStep, Begin, Continue

-----------------------------------------------------------------------------

LEMMA ThreadStep == ThreadInv /\ [Next]_vars => ThreadInv'
<1> SUFFICES ASSUME ThreadInv, [Next]_vars PROVE ThreadInv'
  OBVIOUS
<1>1. HandlerTypes /\ FieldTypes /\ CallerTypes
  BY TypeParts DEF ThreadInv
<1>2. HandlerTypes' /\ FieldTypes' /\ CallerTypes'
  BY <1>1, HandlerTypeStep, FieldTypeStep, CallerTypeStep DEF ThreadInv
<1>3. TypeOK'
  BY <1>2 DEF TypeOK, HandlerTypes, FieldTypes, CallerTypes, Functions,
              Parameters, Looping, Over
<1>4. SetInv' /\ KernelInv' /\ CallerInv'
  BY <1>1, SetStep, KernelStepInv, CallerStepInv DEF ThreadInv
<1>5. StopInv' /\ LateInv' /\ DestroyInv'
  BY <1>1, StopStep, LateStep, DestroyStep DEF ThreadInv
<1> QED BY <1>3, <1>4, <1>5 DEF ThreadInv

\* The inductive invariant holds always: the handler calls, the kernel, the
\* callers and the stops agree with the fields of the struct.
THEOREM ThreadInvariant == Spec => []ThreadInv
BY ThreadInit, ThreadStep, PTL DEF Spec

\* The fields of the struct, the places of the kernel and of the callers keep
\* to the values the code gives them.
THEOREM ThreadTypes == Spec => []TypeOK
BY ThreadInvariant, PTL DEF ThreadInv

\* For any number of callers: when adm_thread_stop has returned TRUE to one of
\* them, the kernel is past its last handler call and its last use of the struct.
THEOREM StopIsTrue == Spec => []StopMeansDown
<1>1. ThreadInv => StopMeansDown
  BY DEF ThreadInv, StopInv, StopMeansDown, Over
<1> QED BY <1>1, ThreadInvariant, PTL

\* However many stops and signals overlap, the handler is begun at most once
\* more after a stop has cleared isRunning.
THEOREM AtMostOneLateCall == Spec => []OneLateCall
<1>1. ThreadInv => OneLateCall
  <2> SUFFICES ASSUME LateInv PROVE OneLateCall
    BY DEF ThreadInv
  <2> QED BY DEF LateInv, OneLateCall
<1> QED BY <1>1, ThreadInvariant, PTL

\* When callers wait for the kernel to boot, adm_thread_destroy frees the
\* struct only after the kernel has used it for the last time, and no guest is
\* inside a call.
THEOREM FreedIsUnused == AwaitBoot => (Spec => []NoUseAfterFree)
<1> SUFFICES ASSUME AwaitBoot PROVE Spec => []NoUseAfterFree
  OBVIOUS
<1>1. ThreadInv => NoUseAfterFree
  BY DEF ThreadInv, CallerInv, DestroyInv, NoUseAfterFree, Over, Ending
<1> QED BY <1>1, ThreadInvariant, PTL

\* When callers wait for the kernel to boot, only a thread that pthread_create
\* never launched can fail the assertion on pthread_detach.
THEOREM DetachFailsUnlaunched == AwaitBoot => (Spec => []OnlyUnlaunchedFails)
<1> SUFFICES ASSUME AwaitBoot PROVE Spec => []OnlyUnlaunchedFails
  OBVIOUS
<1>1. ThreadInv => OnlyUnlaunchedFails
  <2> SUFFICES ASSUME ThreadInv, aborted = "assert" PROVE launched = 0
    BY DEF OnlyUnlaunchedFails
  <2>1. kernel \in {"none"} \cup Over /\ ~ id
    BY DEF ThreadInv, DestroyInv
  <2>2. kernel = "none"
    BY <2>1 DEF ThreadInv, KernelInv, Booted, Over
  <2> QED BY <2>2 DEF ThreadInv, KernelInv
<1> QED BY <1>1, ThreadInvariant, PTL

=============================================================================
