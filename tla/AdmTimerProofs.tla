--------------------------- MODULE AdmTimerProofs ---------------------------
(***************************************************************************)
(* Proofs about AdmTimer, for every number of callbacks, every limit, and  *)
(* however often and whenever the timer is started.                        *)
(***************************************************************************)
EXTENDS AdmTimer, TLAPS

\* While anybody is between the delete and the clearing, there is no kernel
\* timer but those main has started over, and who is busy besides is overtaken.
TimerInv ==
  /\ TypeOK
  /\ OrphansAreCrossed
  /\ \A a \in Actor : pc[a] = "clear" => \A g \in Created : Alive(g) => g \in crossed
  /\ \A a \in Actor : Busy(a) /\ (\E b \in Actor \ {a} : pc[b] = "clear") => a \in overtaken
  /\ \A a \in overtaken : Busy(a)
  /\ pc[Main] \in {"init", "create"} => starts \in Created

LEMMA TimerInit == Init => TimerInv
<1> SUFFICES ASSUME Init PROVE TimerInv
  OBVIOUS
<1> USE TimerAssumption DEF Init
<1>1. TypeOK
  <2>0. 0 \in 0 .. MaxStarts
    OBVIOUS
  <2>1. /\ timer_id \in 0 .. MaxStarts /\ starts \in 0 .. MaxStarts /\ count \in Nat
        /\ arg \in BOOLEAN
    BY <2>0
  <2>2. kernel \in [Created -> {"none", "idle", "armed", "deleted"}]
    OBVIOUS
  <2>3. seen \in [Callback -> [arg : BOOLEAN, count : Nat]]
    OBVIOUS
  <2> QED BY <2>1, <2>2, <2>3 DEF TypeOK
<1>2. \A g \in Created : ~ Alive(g)
  BY DEF Alive, Created
<1>3. \A a \in Actor : ~ Busy(a) /\ pc[a] = "idle"
  BY DEF Busy
<1>4. Main \in Actor
  BY DEF Actor
<1> QED
  BY <1>1, <1>2, <1>3, <1>4 DEF TimerInv, OrphansAreCrossed

\* Who is overtaken stays so while he is busy, and who is busy while another is
\* at the clearing is overtaken.
LEMMA WatchedFacts ==
  ASSUME Watched
  PROVE  /\ \A a \in Actor : Busy(a)' /\ a \in overtaken => a \in overtaken'
         /\ \A a \in Actor : Busy(a)' /\ (\E b \in Actor \ {a} : pc'[b] = "clear")
                             => a \in overtaken'
         /\ \A a \in overtaken' : Busy(a)'
         /\ \A a \in Actor : a \in overtaken' =>
              a \in overtaken \/ \E b \in Actor \ {a} : pc'[b] = "clear"
         /\ overtaken' \subseteq Actor
BY DEF Watched

\* A step by which no kernel timer comes to life and none that is alive loses
\* its name, and which is not main's making a timer, keeps the invariant if it
\* keeps the types.
LEMMA TimerMove ==
  ASSUME TimerInv, Watched, TypeOK', NEW a \in Actor, NEW from, NEW to,
         Step(a, from, to), UNCHANGED <<starts, crossed>>,
         to \notin {"init", "create"},
         \A g \in Created : Alive(g)' =>
           Alive(g) /\ (g \in crossed \/ (timer_id' = timer_id /\ to # "clear"))
  PROVE  TimerInv'
<1> USE DEF TimerInv, Step
<1>1. \A b \in Actor : b # a => pc'[b] = pc[b]
  BY DEF TypeOK
<1>2. pc'[a] = to /\ pc[a] = from
  BY DEF TypeOK
<1>3. Main \in Actor /\ Callback \subseteq Actor
  BY DEF Actor
<1>4. OrphansAreCrossed'
  BY DEF OrphansAreCrossed
<1>5. \A b \in Actor : pc'[b] = "clear" => \A g \in Created : Alive(g)' => g \in crossed
  BY <1>1, <1>2
<1>6. pc'[Main] \in {"init", "create"} => a # Main /\ pc'[Main] = pc[Main]
  BY <1>1, <1>2, <1>3
<1> QED BY <1>4, <1>5, <1>6, WatchedFacts

LEMMA TimerDelete ==
  ASSUME TimerInv, Watched, NEW a \in Actor, Delete(a)
  PROVE  TimerInv'
<1>1. TypeOK'
  BY DEF Delete, TimerInv, TypeOK, Watched, Alive, Created, Step
<1>2. \A g \in Created : Alive(g)' => Alive(g) /\ g \in crossed
  BY DEF Delete, TimerInv, Alive, TypeOK, OrphansAreCrossed, Created
<1>3. Step(a, "delete", "clear") /\ UNCHANGED <<starts, crossed>>
  BY DEF Delete
<1> QED BY <1>1, <1>2, <1>3, TimerMove

LEMMA TimerClear ==
  ASSUME TimerInv, Watched, NEW a \in Actor, Clear(a)
  PROVE  TimerInv'
<1> USE TimerAssumption DEF TimerInv, Clear
<1>1. TypeOK'
  <2>0. 0 \in 0 .. MaxStarts
    OBVIOUS
  <2>1. timer_id' \in 0 .. MaxStarts /\ arg' \in BOOLEAN
    BY <2>0
  <2> QED BY <2>1 DEF TypeOK, Watched, Step
<1>2. \A g \in Created : Alive(g)' => Alive(g) /\ g \in crossed
  BY DEF Alive, Step
<1>3. Step(a, "clear", "idle") /\ UNCHANGED <<starts, crossed>>
  OBVIOUS
<1> QED BY <1>1, <1>2, <1>3, TimerMove

LEMMA TimerDisarm ==
  ASSUME TimerInv, Watched, NEW a \in Actor, Disarm(a)
  PROVE  TimerInv'
<1> USE TimerAssumption DEF TimerInv, Disarm
<1>1. TypeOK'
  BY DEF TypeOK, Watched, Alive, Created, Step
<1>2. \A g \in Created : Alive(g)' => Alive(g)
  BY DEF Alive, TypeOK
<1>3. Step(a, "settime", "destroy") /\ UNCHANGED <<timer_id, starts, crossed>>
  OBVIOUS
<1> QED BY <1>1, <1>2, <1>3, TimerMove

LEMMA TimerArm ==
  ASSUME TimerInv, Watched, Arm
  PROVE  TimerInv'
<1> USE TimerAssumption DEF TimerInv, Arm
<1>0. Main \in Actor
  BY DEF Actor
<1>1. TypeOK'
  BY DEF TypeOK, Watched, Alive, Created, Step, Actor
<1>2. \A g \in Created : Alive(g)' => Alive(g)
  BY DEF Alive, TypeOK
<1>3. /\ Step(Main, "arm", IF Alive(timer_id) THEN "running" ELSE "arm")
      /\ UNCHANGED <<timer_id, starts, crossed>>
  OBVIOUS
<1>4. (IF Alive(timer_id) THEN "running" ELSE "arm") \in {"running", "arm"}
  OBVIOUS
<1> QED BY <1>0, <1>1, <1>2, <1>3, <1>4, TimerMove

\* A step of Move: only the program counter changes.
LEMMA TimerMoves ==
  ASSUME TimerInv, Watched, NEW a \in Actor, NEW from, NEW to, Move(a, from, to),
         to \in {"running", "stop", "settime", "destroy", "delete", "enter", "idle", "arm"}
  PROVE  TimerInv'
<1>1. TypeOK'
  BY DEF Move, Step, TimerInv, TypeOK, Watched
<1>2. \A g \in Created : Alive(g)' => Alive(g)
  BY DEF Move, Alive
<1>3. Step(a, from, to) /\ UNCHANGED <<timer_id, starts, crossed>>
  BY DEF Move
<1> QED BY <1>1, <1>2, <1>3, TimerMove

LEMMA TimerBeginStart ==
  ASSUME TimerInv, Watched, BeginStart
  PROVE  TimerInv'
<1> USE TimerAssumption DEF TimerInv, BeginStart, Step
<1>0. Main \in Actor /\ Callback \subseteq Actor /\ Main \notin Callback
  BY DEF Actor
<1>1. /\ pc'[Main] = "init" /\ \A b \in Actor : b # Main => pc'[b] = pc[b]
      /\ pc[Main] \in {"idle", "running"}
  BY <1>0 DEF TypeOK
<1>2. starts' \in Created
  BY DEF TypeOK, Created
<1>3. TypeOK'
  <2>1. starts' \in 0 .. MaxStarts /\ count' \in Nat
    BY <1>2 DEF Created
  <2>2. pc' \in [Actor -> {"idle", "init", "create", "start", "arm", "running", "stop",
                       "settime", "destroy", "delete", "clear", "enter", "read",
                       "write", "test"}]
    BY DEF TypeOK
  <2> QED BY <2>1, <2>2, WatchedFacts DEF TypeOK
<1>4. \A g : Alive(g)' <=> Alive(g)
  BY DEF Alive
<1>5. OrphansAreCrossed'
  BY <1>4 DEF OrphansAreCrossed
<1>6. \A b \in Actor : pc'[b] = "clear" => \A g \in Created : Alive(g)' => g \in crossed'
  BY <1>0, <1>1, <1>4
<1> QED BY <1>2, <1>3, <1>5, <1>6, WatchedFacts

LEMMA TimerSetFields ==
  ASSUME TimerInv, Watched, SetFields
  PROVE  TimerInv'
<1> USE TimerAssumption DEF TimerInv, SetFields, Step
<1>0. Main \in Actor /\ Callback \subseteq Actor /\ Main \notin Callback
  BY DEF Actor
<1>1. /\ pc'[Main] = "create" /\ \A b \in Actor : b # Main => pc'[b] = pc[b]
      /\ pc[Main] = "init"
  BY <1>0 DEF TypeOK
<1>3. TypeOK'
  <2>2. pc' \in [Actor -> {"idle", "init", "create", "start", "arm", "running", "stop",
                       "settime", "destroy", "delete", "clear", "enter", "read",
                       "write", "test"}]
    BY DEF TypeOK
  <2> QED BY <2>2, WatchedFacts DEF TypeOK
<1>4. \A g : Alive(g)' <=> Alive(g)
  BY DEF Alive
<1>5. OrphansAreCrossed'
  BY <1>4 DEF OrphansAreCrossed
<1>6. \A b \in Actor : pc'[b] = "clear" => \A g \in Created : Alive(g)' => g \in crossed'
  BY <1>0, <1>1, <1>4
<1> QED BY <1>1, <1>3, <1>5, <1>6, WatchedFacts

\* The timer the struct named, if it is alive, is crossed from now on; and if
\* anybody is at the clearing then main has been overtaken, and so the new one is.
LEMMA TimerCreate ==
  ASSUME TimerInv, Watched, CreateTimer
  PROVE  TimerInv'
<1> USE TimerAssumption DEF TimerInv, CreateTimer, Step
<1>0. Main \in Actor /\ Callback \subseteq Actor /\ Main \notin Callback
  BY DEF Actor
<1>1. /\ pc'[Main] = "start" /\ \A b \in Actor : b # Main => pc'[b] = pc[b]
      /\ pc[Main] = "create" /\ Busy(Main) /\ starts \in Created
  BY <1>0 DEF TypeOK, Busy
<1>2. CASE UNCHANGED <<timer_id, kernel, crossed>>
  <2>1. TypeOK'
    BY <1>2, WatchedFacts DEF TypeOK
  <2>2. \A g \in Created : Alive(g)' => Alive(g)
    BY <1>2 DEF Alive
  <2>3. Step(Main, "create", "start") /\ UNCHANGED <<starts, crossed, timer_id>>
    BY <1>2
  <2> HIDE DEF TimerInv, CreateTimer, Step
  <2> QED BY <1>0, <2>1, <2>2, <2>3, TimerMove
<1>3. CASE /\ timer_id' = starts /\ kernel' = [kernel EXCEPT ![starts] = "idle"]
           /\ crossed' = crossed \cup {g \in {timer_id} : Alive(g)}
                                  \cup {g \in {starts} : Main \in overtaken}
  <2>0. timer_id # 0 => timer_id \in Created
    BY DEF TypeOK, Created
  <2>1. crossed' \subseteq Created /\ crossed \subseteq crossed'
    <3>1. {g \in {timer_id} : Alive(g)} \subseteq Created
      BY <2>0 DEF Alive
    <3>2. {g \in {starts} : Main \in overtaken} \subseteq Created
      BY <1>1
    <3> QED BY <1>3, <3>1, <3>2 DEF TypeOK
  <2>2. TypeOK'
    <3>1. pc' \in [Actor -> {"idle", "init", "create", "start", "arm", "running", "stop",
                       "settime", "destroy", "delete", "clear", "enter", "read",
                       "write", "test"}]
      BY DEF TypeOK
    <3>2. timer_id' \in 0 .. MaxStarts
      BY <1>3 DEF TypeOK
    <3>3. kernel' \in [Created -> {"none", "idle", "armed", "deleted"}]
      BY <1>3 DEF TypeOK
    <3> QED BY <2>1, <3>1, <3>2, <3>3, WatchedFacts DEF TypeOK
  <2>3. \A g \in Created : Alive(g)' => g = starts \/ Alive(g)
    BY <1>3 DEF Alive, TypeOK
  <2>4. OrphansAreCrossed'
    BY <1>3, <2>1, <2>3 DEF OrphansAreCrossed
  <2>5. ASSUME NEW b \in Actor, pc'[b] = "clear", NEW g \in Created, Alive(g)'
        PROVE  g \in crossed'
    <3>1. b # Main /\ pc[b] = "clear"
      BY <1>1, <2>5
    <3>2. Main \in overtaken
      BY <1>0, <1>1, <3>1
    <3> QED BY <1>3, <2>3, <2>5, <3>1, <3>2
  <2> QED BY <1>1, <2>2, <2>4, <2>5, WatchedFacts
<1> QED BY <1>2, <1>3

LEMMA TimerCall ==
  ASSUME TimerInv, Watched, NEW a \in Actor, Call(a)
  PROVE  TimerInv'
<1>1. CASE TestIdToStop(a)
  BY <1>1, TimerMoves DEF TestIdToStop
<1>2. CASE Disarm(a)
  BY <1>2, TimerDisarm
<1>3. CASE TestIdToDestroy(a)
  BY <1>3, TimerMoves DEF TestIdToDestroy
<1>4. CASE Delete(a)
  BY <1>4, TimerDelete
<1>5. CASE Clear(a)
  BY <1>5, TimerClear
<1> QED BY <1>1, <1>2, <1>3, <1>4, <1>5 DEF Call

LEMMA TimerStart ==
  ASSUME TimerInv, Watched, Start
  PROVE  TimerInv'
<1>0. Main \in Actor
  BY DEF Actor
<1>1. CASE SetFields
  BY <1>1, TimerSetFields
<1>2. CASE CreateTimer
  BY <1>2, TimerCreate
<1>3. CASE TestIdToStart
  BY <1>0, <1>3, TimerMoves DEF TestIdToStart
<1>4. CASE Arm
  BY <1>4, TimerArm
<1> QED BY <1>1, <1>2, <1>3, <1>4 DEF Start

\* A step of a callback that leaves the struct and the kernel timers alone.
LEMMA TimerCallback ==
  ASSUME TimerInv, Watched, NEW c \in Callback, NEW from, NEW to, Step(c, from, to),
         to \in {"read", "write", "test"},
         UNCHANGED <<timer_id, arg, kernel, starts, crossed>>,
         seen' \in [Callback -> [arg : BOOLEAN, count : Nat]],
         count' \in Nat, fault' \in Actor \cup {Nobody}
  PROVE  TimerInv'
<1>0. c \in Actor
  BY DEF Actor
<1>1. TypeOK'
  <2>1. pc' \in [Actor -> {"idle", "init", "create", "start", "arm", "running", "stop",
                       "settime", "destroy", "delete", "clear", "enter", "read",
                       "write", "test"}]
    BY DEF TimerInv, TypeOK, Step
  <2> QED BY <2>1, WatchedFacts DEF TimerInv, TypeOK
<1>2. \A g \in Created : Alive(g)' => Alive(g)
  BY DEF Alive
<1> QED BY <1>0, <1>1, <1>2, TimerMove

LEMMA TimerRun ==
  ASSUME TimerInv, Watched, NEW c \in Callback, Run(c) \/ Expire(c)
  PROVE  TimerInv'
<1>0. c \in Actor
  BY DEF Actor
<1> USE DEF TimerInv
<1>1. CASE Expire(c)
  BY <1>0, <1>1, TimerMoves DEF Expire
<1>2. CASE ReadArg(c)
  <2>1. seen' \in [Callback -> [arg : BOOLEAN, count : Nat]]
    BY <1>2 DEF ReadArg, TypeOK
  <2> QED BY <1>2, <2>1, TimerCallback DEF ReadArg, TypeOK
<1>3. CASE ReadCount(c)
  <2>1. seen' \in [Callback -> [arg : BOOLEAN, count : Nat]]
    BY <1>3 DEF ReadCount, TypeOK
  <2> QED BY <1>3, <2>1, TimerCallback DEF ReadCount, TypeOK
<1>4. CASE WriteCount(c)
  <2>1. seen' \in [Callback -> [arg : BOOLEAN, count : Nat]] /\ count' \in Nat
    BY <1>4 DEF WriteCount, TypeOK
  <2> QED BY <1>4, <2>1, TimerCallback DEF WriteCount, TypeOK
<1>5. CASE ReadNull(c)
  BY <1>0, <1>5, TimerCallback DEF ReadNull, TypeOK
<1>6. CASE TestCount(c)
  BY <1>0, <1>6, TimerMoves DEF TestCount
<1>7. CASE Call(c)
  BY <1>0, <1>7, TimerCall
<1> QED BY <1>1, <1>2, <1>3, <1>4, <1>5, <1>6, <1>7 DEF Run

LEMMA TimerStep == TimerInv /\ [Next]_vars => TimerInv'
<1> SUFFICES ASSUME TimerInv, [Next]_vars PROVE TimerInv'
  OBVIOUS
<1>0. Main \in Actor
  BY DEF Actor
<1>1. CASE UNCHANGED vars
  BY <1>1 DEF vars, TimerInv, TypeOK, OrphansAreCrossed, Alive, Busy
<1>2. CASE BeginStart /\ Watched
  BY <1>2, TimerBeginStart
<1>3. CASE Start /\ Watched
  BY <1>3, TimerStart
<1>4. CASE MainStops /\ Watched
  BY <1>0, <1>4, TimerMoves DEF MainStops
<1>5. CASE Call(Main) /\ Watched
  BY <1>0, <1>5, TimerCall
<1>6. CASE (\E c \in Callback : Expire(c) \/ Run(c)) /\ Watched
  BY <1>6, TimerRun
<1> QED BY <1>1, <1>2, <1>3, <1>4, <1>5, <1>6 DEF Next

\* The type invariant, for any number of callbacks.
THEOREM TimerTypes == Spec => []TypeOK
<1>1. TimerInv => TypeOK
  BY DEF TimerInv
<1> QED BY <1>1, TimerInit, TimerStep, PTL DEF Spec

\* Whenever main starts the timer, and however callbacks and main overlap in
\* adm_timer_stop and adm_timer_destroy, a kernel timer that is neither deleted
\* nor named by the struct is one main started over, or made while overtaken.
THEOREM OrphansAreNamed == Spec => []OrphansAreCrossed
<1>1. TimerInv => OrphansAreCrossed
  BY DEF TimerInv
<1> QED BY <1>1, TimerInit, TimerStep, PTL DEF Spec

-----------------------------------------------------------------------------
(* Who faults was overtaken *)

\* The id of the struct is that of a live timer, except while somebody is about
\* to clear it.  Unless he was overtaken, an actor can rely on what he has tested
\* or read: the id he found not NULL is good; and the argument is there, unless
\* a callback came from an orphan.
OvertakenInv ==
  /\ timer_id # 0 => arg \/ crossed # {}
  /\ pc[Main] = "create" => arg \/ Main \in overtaken
  /\ timer_id # 0 => Alive(timer_id) \/ \E b \in Actor : pc[b] = "clear"
  /\ \A a \in Actor :
       pc[a] \in {"settime", "delete", "arm"} => a \in overtaken \/ Alive(timer_id)
  /\ \A c \in Callback : pc[c] = "enter" => c \in overtaken \/ arg \/ crossed # {}
  /\ \A c \in Callback :
       pc[c] \in {"read", "write", "test"} => c \in overtaken \/ seen[c].arg \/ crossed # {}
  /\ FaultsAreCrossed

LEMMA OvertakenInit == Init => OvertakenInv
BY DEF Init, OvertakenInv, FaultsAreCrossed, Actor

\* A step of a after which the id, the argument and the fault are in order: who
\* else is busy keeps what he relies on, and a has just tested or read it.
LEMMA OvertakenStepOf ==
  ASSUME TimerInv, OvertakenInv, Watched, NEW a \in Actor, NEW from, NEW to,
         Step(a, from, to), crossed \subseteq crossed',
         timer_id' # 0 => arg' \/ crossed' # {},
         timer_id' # 0 => Alive(timer_id)' \/ \E b \in Actor : pc'[b] = "clear",
         fault' # Nobody => fault' \in overtaken' \/ crossed' # {},
         \A b \in Actor \ {a} : Busy(b) /\ b \notin overtaken' =>
            (arg => arg') /\ (Alive(timer_id) => Alive(timer_id)'),
         \A c \in Callback : c # a => seen'[c] = seen[c],
         a = Main /\ to = "create" => arg',
         to \in {"settime", "delete", "arm"} => a \in overtaken' \/ Alive(timer_id)',
         to = "enter" => arg' \/ crossed' # {},
         to \in {"read", "write", "test"} => a \in overtaken \/ seen'[a].arg \/ crossed' # {}
  PROVE  OvertakenInv'
<1> USE DEF OvertakenInv, Step
<1>0. Main \in Actor /\ Callback \subseteq Actor
  BY DEF Actor
<1>1. \A b \in Actor : b # a => pc'[b] = pc[b] /\ (Busy(b)' <=> Busy(b))
  BY DEF TimerInv, TypeOK, Busy
<1>2. pc'[a] = to /\ pc[a] = from
  BY DEF TimerInv, TypeOK
<1>3. \A b \in Actor : b # a /\ b \in overtaken /\ Busy(b) => b \in overtaken'
  BY <1>1, WatchedFacts
<1>4. crossed # {} => crossed' # {}
  OBVIOUS
<1>5. pc'[Main] = "create" => arg' \/ Main \in overtaken'
  BY <1>0, <1>1, <1>2, <1>3 DEF Busy
<1>6. ASSUME NEW b \in Actor, pc'[b] \in {"settime", "delete", "arm"}
      PROVE  b \in overtaken' \/ Alive(timer_id)'
  <2>1. CASE b # a
    BY <1>1, <1>3, <1>6, <2>1 DEF Busy
  <2>2. CASE b = a
    BY <1>2, <1>6, <2>2
  <2> QED BY <2>1, <2>2
<1>7. ASSUME NEW c \in Callback, pc'[c] = "enter"
      PROVE  c \in overtaken' \/ arg' \/ crossed' # {}
  BY <1>0, <1>1, <1>2, <1>3, <1>4, <1>7 DEF Busy
<1>8. ASSUME NEW c \in Callback, pc'[c] \in {"read", "write", "test"}
      PROVE  c \in overtaken' \/ seen'[c].arg \/ crossed' # {}
  <2>1. CASE c # a
    BY <1>0, <1>1, <1>3, <1>4, <1>8, <2>1 DEF Busy
  <2>2. CASE c = a
    BY <1>2, <1>8, <2>2, WatchedFacts DEF Busy
  <2> QED BY <2>1, <2>2
<1>9. FaultsAreCrossed'
  BY DEF FaultsAreCrossed
<1> QED BY <1>5, <1>6, <1>7, <1>8, <1>9

\* A step that changes neither the struct nor the kernel timers, to or from the
\* clearing by nobody.
LEMMA OvertakenMove ==
  ASSUME TimerInv, OvertakenInv, Watched, NEW a \in Actor, NEW from, NEW to,
         Step(a, from, to), UNCHANGED <<timer_id, arg, kernel, fault, crossed>>,
         from # "clear", to \notin {"clear", "create"},
         to \in {"settime", "delete", "arm"} => timer_id # 0,
         to = "enter" => arg \/ crossed # {},
         to \in {"read", "write", "test"} => a \in overtaken \/ seen'[a].arg \/ crossed # {},
         \A c \in Callback : c # a => seen'[c] = seen[c]
  PROVE  OvertakenInv'
<1>1. Alive(timer_id)' <=> Alive(timer_id)
  BY DEF Alive
<1>2. \A b \in Actor : pc[b] = "clear" => pc'[b] = "clear" /\ b # a
  BY DEF Step, TimerInv, TypeOK
<1>3. to \in {"settime", "delete", "arm"} => a \in overtaken' \/ Alive(timer_id)'
  <2>1. to \in {"settime", "delete", "arm"} => Busy(a)'
    BY DEF Busy, Step, TimerInv, TypeOK
  <2> QED BY <1>1, <1>2, <2>1, WatchedFacts DEF OvertakenInv
<1>4. fault' = Nobody
  BY DEF Step
<1>5. timer_id' # 0 => Alive(timer_id)' \/ \E b \in Actor : pc'[b] = "clear"
  BY <1>1, <1>2 DEF OvertakenInv
<1> QED BY <1>1, <1>3, <1>4, <1>5, OvertakenStepOf DEF OvertakenInv

LEMMA OvertakenBeginStart ==
  ASSUME TimerInv, OvertakenInv, Watched, BeginStart
  PROVE  OvertakenInv'
<1>1. Main \in Actor
  BY DEF Actor
<1>2. PICK from \in {"idle", "running"} : Step(Main, from, "init")
  BY DEF BeginStart
<1> QED BY <1>1, <1>2, OvertakenMove DEF BeginStart, Step

LEMMA OvertakenSetFields ==
  ASSUME TimerInv, OvertakenInv, Watched, SetFields
  PROVE  OvertakenInv'
<1> USE DEF SetFields
<1>1. Main \in Actor /\ Step(Main, "init", "create")
  BY DEF Actor
<1>2. Alive(timer_id)' <=> Alive(timer_id)
  BY DEF Alive
<1>3. \A b \in Actor : pc[b] = "clear" => pc'[b] = "clear"
  BY <1>1 DEF Step, TimerInv, TypeOK
<1>4. timer_id' # 0 => Alive(timer_id)' \/ \E b \in Actor : pc'[b] = "clear"
  BY <1>2, <1>3 DEF OvertakenInv
<1>5. fault' = Nobody
  BY <1>1 DEF Step
<1> QED BY <1>1, <1>2, <1>4, <1>5, OvertakenStepOf

LEMMA OvertakenCreate ==
  ASSUME TimerInv, OvertakenInv, Watched, CreateTimer
  PROVE  OvertakenInv'
<1> USE DEF CreateTimer
<1>1. Main \in Actor /\ Step(Main, "create", "start") /\ UNCHANGED <<arg, seen, fault>>
  BY DEF Actor
<1>2. CASE UNCHANGED <<timer_id, kernel, crossed>>
  BY <1>1, <1>2, OvertakenMove
<1>3. CASE /\ timer_id' = starts /\ kernel' = [kernel EXCEPT ![starts] = "idle"]
           /\ crossed' = crossed \cup {g \in {timer_id} : Alive(g)}
                                  \cup {g \in {starts} : Main \in overtaken}
  <2>1. starts \in Created /\ pc[Main] = "create"
    BY <1>1 DEF TimerInv, Step
  <2>2. Alive(timer_id)'
    BY <1>3, <2>1 DEF Alive, TimerInv, TypeOK, Created
  <2>3. Main \in overtaken => crossed' # {}
    BY <1>3
  <2>4. arg' \/ crossed' # {}
    BY <1>1, <2>1, <2>3 DEF OvertakenInv
  <2>5. fault' = Nobody /\ crossed \subseteq crossed'
    BY <1>1, <1>3 DEF Step
  <2> QED BY <1>1, <2>2, <2>4, <2>5, OvertakenStepOf
<1> QED BY <1>2, <1>3

\* Who arms, disarms or deletes without having been overtaken finds the timer
\* alive.
LEMMA OvertakenArm ==
  ASSUME TimerInv, OvertakenInv, Watched, Arm
  PROVE  OvertakenInv'
<1> USE DEF Arm
<1>0. Main \in Actor
  BY DEF Actor
<1>1. Alive(timer_id)' <=> Alive(timer_id)
  BY DEF TimerInv, TypeOK, Alive, Created
<1>2. CASE Alive(timer_id)
  <2>1. Step(Main, "arm", "running") /\ fault' = Nobody
    BY <1>2 DEF Step
  <2> QED BY <1>0, <1>1, <1>2, <2>1, OvertakenStepOf DEF OvertakenInv
<1>3. CASE ~ Alive(timer_id)
  <2>1. Step(Main, "arm", "arm") /\ fault' = Main
    BY <1>3
  <2>2. Busy(Main)' /\ Main \in overtaken
    BY <1>0, <1>3, <2>1 DEF Step, Busy, TimerInv, TypeOK, OvertakenInv
  <2>3. Main \in overtaken'
    BY <1>0, <2>2, WatchedFacts
  <2>4. pc' = pc
    BY <1>0, <2>1 DEF Step, TimerInv, TypeOK
  <2>5. timer_id' # 0 => Alive(timer_id)' \/ \E b \in Actor : pc'[b] = "clear"
    BY <1>1, <2>4 DEF OvertakenInv
  <2> QED BY <1>0, <1>1, <2>1, <2>3, <2>5, OvertakenStepOf DEF OvertakenInv
<1> QED BY <1>2, <1>3

LEMMA OvertakenDisarm ==
  ASSUME TimerInv, OvertakenInv, Watched, NEW a \in Actor, Disarm(a)
  PROVE  OvertakenInv'
<1> USE DEF Disarm
<1>1. Step(a, "settime", "destroy") /\ Busy(a)'
  BY DEF Step, Busy, TimerInv, TypeOK
<1>2. Alive(timer_id)' <=> Alive(timer_id)
  BY DEF TimerInv, TypeOK, Alive, Created
<1>3. fault' # Nobody => fault' \in overtaken'
  BY <1>1, WatchedFacts DEF Step, OvertakenInv
<1>4. timer_id' # 0 => Alive(timer_id)' \/ \E b \in Actor : pc'[b] = "clear"
  BY <1>1, <1>2 DEF OvertakenInv, Step, TimerInv, TypeOK
<1> QED BY <1>1, <1>2, <1>3, <1>4, OvertakenStepOf DEF OvertakenInv

LEMMA OvertakenDelete ==
  ASSUME TimerInv, OvertakenInv, Watched, NEW a \in Actor, Delete(a)
  PROVE  OvertakenInv'
<1> USE DEF Delete
<1>1. Step(a, "delete", "clear") /\ Busy(a)' /\ pc'[a] = "clear"
  BY DEF Step, Busy, TimerInv, TypeOK
<1>2. fault' # Nobody => fault' \in overtaken'
  BY <1>1, WatchedFacts DEF Step, OvertakenInv
<1>3. \A b \in Actor \ {a} : Busy(b) => b \in overtaken'
  <2>1. \A b \in Actor \ {a} : Busy(b) => Busy(b)'
    BY <1>1 DEF Step, Busy, TimerInv, TypeOK
  <2> QED BY <1>1, <2>1, WatchedFacts
<1> QED BY <1>1, <1>2, <1>3, OvertakenStepOf DEF OvertakenInv

\* Whoever is busy at the clearing is overtaken by then.
LEMMA OvertakenClear ==
  ASSUME TimerInv, OvertakenInv, Watched, NEW a \in Actor, Clear(a)
  PROVE  OvertakenInv'
<1> USE DEF Clear
<1>1. Step(a, "clear", "idle") /\ timer_id' = 0
  OBVIOUS
<1>2. fault' = Nobody
  BY DEF Step
<1>3. \A b \in Actor \ {a} : Busy(b) => b \in overtaken'
  <2>1. \A b \in Actor \ {a} : Busy(b) => Busy(b)' /\ b \in overtaken
    BY <1>1 DEF Step, Busy, TimerInv, TypeOK
  <2> QED BY <2>1, WatchedFacts
<1> QED BY <1>1, <1>2, <1>3, OvertakenStepOf

LEMMA OvertakenCall ==
  ASSUME TimerInv, OvertakenInv, Watched, NEW a \in Actor, Call(a)
  PROVE  OvertakenInv'
<1>1. CASE TestIdToStop(a)
  <2>1. Step(a, "stop", IF timer_id = 0 THEN "destroy" ELSE "settime")
    BY <1>1 DEF TestIdToStop, Move
  <2> QED BY <1>1, <2>1, OvertakenMove DEF TestIdToStop, Move
<1>2. CASE Disarm(a)
  BY <1>2, OvertakenDisarm
<1>3. CASE TestIdToDestroy(a)
  <2>1. Step(a, "destroy", IF timer_id = 0 THEN "idle" ELSE "delete")
    BY <1>3 DEF TestIdToDestroy, Move
  <2> QED BY <1>3, <2>1, OvertakenMove DEF TestIdToDestroy, Move
<1>4. CASE Delete(a)
  BY <1>4, OvertakenDelete
<1>5. CASE Clear(a)
  BY <1>5, OvertakenClear
<1> QED BY <1>1, <1>2, <1>3, <1>4, <1>5 DEF Call

LEMMA OvertakenStart ==
  ASSUME TimerInv, OvertakenInv, Watched, Start
  PROVE  OvertakenInv'
<1>1. CASE SetFields
  BY <1>1, OvertakenSetFields
<1>2. CASE CreateTimer
  BY <1>2, OvertakenCreate
<1>3. CASE TestIdToStart
  <2>1. /\ Main \in Actor /\ Step(Main, "start", IF timer_id = 0 THEN "running" ELSE "arm")
        /\ UNCHANGED <<timer_id, arg, kernel, seen, fault, crossed>>
    BY <1>3 DEF TestIdToStart, Move, Actor
  <2> QED BY <2>1, OvertakenMove
<1>4. CASE Arm
  BY <1>4, OvertakenArm
<1> QED BY <1>1, <1>2, <1>3, <1>4 DEF Start

LEMMA OvertakenRun ==
  ASSUME TimerInv, OvertakenInv, Watched, NEW c \in Callback, Run(c) \/ Expire(c)
  PROVE  OvertakenInv'
<1>0. c \in Actor /\ DOMAIN seen = Callback
  BY DEF Actor, TimerInv, TypeOK
<1>1. CASE Expire(c)
  <2>1. Step(c, "idle", "enter") /\ UNCHANGED <<timer_id, arg, kernel, seen, fault, crossed>>
    BY <1>1 DEF Expire, Move
  <2>2. arg \/ crossed # {}
    BY <1>1 DEF Expire, TimerInv, OrphansAreCrossed, Alive, Created, OvertakenInv
  <2> QED BY <1>0, <2>1, <2>2, OvertakenMove
<1>2. CASE ReadArg(c)
  <2>1. /\ Step(c, "enter", "read") /\ UNCHANGED <<timer_id, arg, kernel, fault, crossed>>
        /\ seen'[c].arg = arg /\ \A d \in Callback : d # c => seen'[d] = seen[d]
    BY <1>0, <1>2 DEF ReadArg, TimerInv, TypeOK
  <2>2. c \in overtaken \/ arg \/ crossed # {}
    BY <2>1 DEF OvertakenInv, Step
  <2> QED BY <1>0, <2>1, <2>2, OvertakenMove
<1>3. CASE ReadCount(c)
  <2>1. /\ Step(c, "read", "write") /\ UNCHANGED <<timer_id, arg, kernel, fault, crossed>>
        /\ seen'[c].arg = seen[c].arg /\ \A d \in Callback : d # c => seen'[d] = seen[d]
    BY <1>0, <1>3 DEF ReadCount, TimerInv, TypeOK
  <2>2. c \in overtaken \/ seen[c].arg \/ crossed # {}
    BY <2>1 DEF OvertakenInv, Step
  <2> QED BY <1>0, <2>1, <2>2, OvertakenMove
<1>4. CASE WriteCount(c)
  <2>1. /\ Step(c, "write", "test") /\ UNCHANGED <<timer_id, arg, kernel, fault, crossed>>
        /\ seen'[c].arg = seen[c].arg /\ \A d \in Callback : d # c => seen'[d] = seen[d]
    BY <1>0, <1>4 DEF WriteCount, TimerInv, TypeOK
  <2>2. c \in overtaken \/ seen[c].arg \/ crossed # {}
    BY <2>1 DEF OvertakenInv, Step
  <2> QED BY <1>0, <2>1, <2>2, OvertakenMove
<1>5. CASE ReadNull(c)
  <2>1. /\ Step(c, "test", "test") /\ fault' = c
        /\ UNCHANGED <<timer_id, arg, kernel, seen, crossed>>
    BY <1>5 DEF ReadNull
  <2>2. c \in overtaken \/ crossed # {}
    BY <1>5, <2>1 DEF ReadNull, Step, OvertakenInv
  <2>3. Busy(c)' /\ pc' = pc
    BY <1>0, <2>1 DEF Step, Busy, TimerInv, TypeOK
  <2>4. c \in overtaken' \/ crossed' # {}
    BY <1>0, <2>1, <2>2, <2>3, WatchedFacts
  <2>5. Alive(timer_id)' <=> Alive(timer_id)
    BY <2>1 DEF Alive
  <2>6. timer_id' # 0 => Alive(timer_id)' \/ \E b \in Actor : pc'[b] = "clear"
    BY <2>1, <2>3, <2>5 DEF OvertakenInv
  <2> QED BY <1>0, <2>1, <2>2, <2>4, <2>5, <2>6, OvertakenStepOf DEF OvertakenInv
<1>6. CASE TestCount(c)
  <2>1. /\ Step(c, "test", IF count > Limit THEN "stop" ELSE "idle")
        /\ UNCHANGED <<timer_id, arg, kernel, seen, fault, crossed>>
    BY <1>6 DEF TestCount, Move
  <2> QED BY <1>0, <2>1, OvertakenMove
<1>7. CASE Call(c)
  BY <1>0, <1>7, OvertakenCall
<1> QED BY <1>1, <1>2, <1>3, <1>4, <1>5, <1>6, <1>7 DEF Run

LEMMA OvertakenStep == TimerInv /\ OvertakenInv /\ [Next]_vars => OvertakenInv'
<1> SUFFICES ASSUME TimerInv, OvertakenInv, [Next]_vars PROVE OvertakenInv'
  OBVIOUS
<1>0. Main \in Actor
  BY DEF Actor
<1>1. CASE UNCHANGED vars
  BY <1>1 DEF vars, OvertakenInv, FaultsAreCrossed, Alive
<1>2. CASE BeginStart /\ Watched
  BY <1>2, OvertakenBeginStart
<1>3. CASE Start /\ Watched
  BY <1>3, OvertakenStart
<1>4. CASE MainStops /\ Watched
  <2>1. /\ Step(Main, "running", "stop")
        /\ UNCHANGED <<timer_id, arg, kernel, seen, fault, crossed>>
    BY <1>4 DEF MainStops, Move
  <2> QED BY <1>0, <1>4, <2>1, OvertakenMove
<1>5. CASE Call(Main) /\ Watched
  BY <1>0, <1>5, OvertakenCall
<1>6. CASE (\E c \in Callback : Expire(c) \/ Run(c)) /\ Watched
  BY <1>6, OvertakenRun
<1> QED BY <1>1, <1>2, <1>3, <1>4, <1>5, <1>6 DEF Next

\* Whenever main starts the timer: who uses NULL, or the id of a timer that is
\* deleted, was busy with the timer while another was deleting it, or main has
\* started over a timer that was alive, or while it was overtaken itself.
THEOREM FaultsAreNamed == Spec => []FaultsAreCrossed
<1>1. OvertakenInv => FaultsAreCrossed
  BY DEF OvertakenInv
<1> QED BY <1>1, TimerInit, TimerStep, OvertakenInit, OvertakenStep, PTL DEF Spec
=============================================================================
