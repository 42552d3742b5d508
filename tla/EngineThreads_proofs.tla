------------------------ MODULE EngineThreads_proofs ------------------------
(***************************************************************************)
(* For every set of tasks and times: the task runner of the platform       *)
(* thread implements the task bag, and the message loop of an engine       *)
(* thread never sleeps over a task.                                        *)
(***************************************************************************)
EXTENDS TaskRunner, MessageLoop, TLAPS

RunnerInv == RunnerTypeOK /\ NoneOvertaken

(* The invariant holds at the start.                                       *)
LEMMA RunnerInitInv == RunnerInit => RunnerInv
BY EngineTimeAssumption DEF RunnerInit, RunnerInv, RunnerTypeOK, NoneOvertaken

(* Every step of the runner keeps it.  Of the ids it needs that a new task *)
(* has a higher one than all that wait; of TakeExpired that what it leaves *)
(* is later than the clock it has read.                                    *)
LEMMA RunnerStepInv == RunnerInv /\ [RunnerNext]_runnerVars => RunnerInv'
<1> USE EngineTimeAssumption DEF RunnerInv, RunnerTypeOK, NoneOvertaken
<1> SUFFICES ASSUME RunnerInv, [RunnerNext]_runnerVars PROVE RunnerInv'
  OBVIOUS
<1>1. CASE \E task \in PlatformTasks, time \in Times : Enqueue(task, time)
  <2>1. PICK task \in PlatformTasks, time \in Times : Enqueue(task, time)
    BY <1>1
  <2> DEFINE e == [id |-> enqueued, time |-> time, task |-> task]
  <2>2. e \in RunnerEntries /\ queue' = queue \cup {e} /\ e.id = enqueued
    BY <2>1 DEF Enqueue, RunnerEntries
  <2>3. RunnerTypeOK'
    BY <2>1, <2>2 DEF Enqueue, RunnerEntries
  <2>4. NoneOvertaken'
    BY <2>1, <2>2 DEF Enqueue, RunnerEntries
  <2> QED BY <2>3, <2>4
<1>2. CASE ReadClock
  BY <1>2 DEF ReadClock, RunnerEntries
<1>3. CASE TakeExpired
  <2>1. RunnerTypeOK'
    BY <1>3 DEF TakeExpired, Expired, RunnerEntries
  <2>2. ASSUME NEW d \in due', NEW q \in queue' PROVE q.time > d.time
    <3>1. d.time <= at /\ ~(q.time <= at) /\ d \in RunnerEntries /\ q \in RunnerEntries
      BY <1>3, <2>2 DEF TakeExpired, Expired
    <3>2. d.time \in Nat /\ q.time \in Nat /\ at \in Nat
      BY <3>1 DEF RunnerEntries
    <3> QED BY <3>1, <3>2
  <2> QED BY <2>1, <2>2
<1>4. CASE Finish
  BY <1>4 DEF Finish, RunnerEntries
<1>5. CASE RunnerTick
  BY <1>5 DEF RunnerTick, runnerState, Passes, RunnerEntries
<1>6. CASE \E e \in due : RunTask(e)
  BY <1>6 DEF RunTask, RunnerEntries
<1>7. CASE UNCHANGED runnerVars
  BY <1>7 DEF runnerVars, runnerState
<1> QED BY <1>1, <1>2, <1>3, <1>4, <1>5, <1>6, <1>7 DEF RunnerNext

(* A step of the runner is a step of the bag of all tasks that wait, or    *)
(* none.                                                                   *)
LEMMA RunnerStepBag == RunnerInv /\ [RunnerNext]_runnerVars => [RunnerBag!Next]_(RunnerBag!vars)
<1> USE EngineTimeAssumption
<1> SUFFICES ASSUME RunnerInv, [RunnerNext]_runnerVars PROVE [RunnerBag!Next]_(RunnerBag!vars)
  OBVIOUS
<1>1. CASE \E task \in PlatformTasks, time \in Times : Enqueue(task, time)
  <2>1. PICK task \in PlatformTasks, time \in Times : Enqueue(task, time)
    BY <1>1
  <2>2. RunnerBag!Post(task, time)
    BY <2>1 DEF Enqueue, RunnerBag!Post
  <2> QED BY <2>2 DEF RunnerBag!Next
<1>2. CASE ReadClock
  BY <1>2 DEF ReadClock, RunnerBag!vars
<1>3. CASE TakeExpired
  <2>1. due = {}
    BY <1>3 DEF RunnerInv, RunnerTypeOK, TakeExpired
  <2> QED BY <1>3, <2>1 DEF TakeExpired, Expired, RunnerBag!vars
<1>4. CASE Finish
  BY <1>4 DEF Finish, RunnerBag!Return, RunnerBag!Next
<1>5. CASE RunnerTick
  BY <1>5 DEF RunnerTick, runnerState, Passes, RunnerBag!Tick, RunnerBag!Next
<1>6. CASE \E e \in due : RunTask(e)
  <2>1. PICK e \in due : RunTask(e)
    BY <1>6
  <2>2. e \in RunnerEntries /\ e.id \in Nat /\ e.time \in Nat
    BY DEF RunnerInv, RunnerTypeOK, RunnerEntries
  <2>3. e \notin queue /\ e.time <= now
    BY <2>1, <2>2 DEF RunnerInv, RunnerTypeOK
  <2>4. ASSUME NEW f \in queue \cup due PROVE ~RunnerBag!Precedes(f, e)
    <3>1. f.id \in Nat /\ f.time \in Nat
      BY DEF RunnerInv, RunnerTypeOK, RunnerEntries
    <3>2. CASE f \in due
      BY <2>1, <2>2, <3>1, <3>2 DEF RunTask, RunnerBag!Precedes
    <3>3. CASE f \in queue
      BY <2>2, <3>1, <3>3 DEF RunnerInv, NoneOvertaken, RunnerBag!Precedes
    <3> QED BY <3>2, <3>3
  <2>5. RunnerBag!Run(e)
    BY <2>1, <2>3, <2>4 DEF RunTask, RunnerBag!Run
  <2> QED BY <2>5 DEF RunnerBag!Next
<1>7. CASE UNCHANGED runnerVars
  BY <1>7 DEF runnerVars, runnerState, RunnerBag!vars
<1> QED BY <1>1, <1>2, <1>3, <1>4, <1>5, <1>6, <1>7 DEF RunnerNext

(* For every set of tasks and times: what runs was due, and nothing posted *)
(* before it for no later time is left behind.                             *)
THEOREM RunnerSafe == RunnerSpec => [](RunnerTypeOK /\ NoneOvertaken)
<1> QED BY RunnerInitInv, RunnerStepInv, PTL DEF RunnerSpec, RunnerInv

(* The task runner implements the task bag.                                *)
THEOREM RunnerImplementsBag == RunnerSpec => RunsEachOnce
<1>1. RunnerInit => RunnerBag!Init
  BY DEF RunnerInit, RunnerBag!Init
<1> QED
  BY <1>1, RunnerInitInv, RunnerStepInv, RunnerStepBag, PTL
  DEF RunnerSpec, RunsEachOnce, RunnerBag!Spec

-----------------------------------------------------------------------------
\* Except between RunTasks and the next look at the queue, the earliest task is
\* announced.
Announced ==
  loop # "flush" => \A e \in tasks : hasWakeup = TRUE /\ wakeupTime <= e.time

\* What a sleeping loop knows is what is announced, unless it is being notified.
Informed ==
  \/ notify
  \/ /\ loop = "waits" => ~hasWakeup
     /\ loop = "waitsFor" => hasWakeup /\ until <= wakeupTime

LoopInv == LoopTypeOK /\ Announced /\ Informed

(* After WakeUp(t) a time no later than t is announced, and no later than  *)
(* any that was; a change is notified.                                     *)
LEMMA WakeUpAnnounces ==
  ASSUME LoopTypeOK, NEW t \in Times, WakeUp(t)
  PROVE  /\ hasWakeup' = TRUE /\ wakeupTime' \in Times /\ wakeupTime' <= t
         /\ ~hasWakeup \/ wakeupTime' <= wakeupTime
         /\ notify' \in BOOLEAN /\ (~notify \/ notify')
         /\ notify' \/ (hasWakeup /\ wakeupTime' = wakeupTime)
<1>1. t \in Nat /\ wakeupTime \in Nat /\ wakeupTime \in Times
  BY EngineTimeAssumption DEF LoopTypeOK
<1>2. CASE hasWakeup /\ wakeupTime <= t
  BY <1>1, <1>2 DEF LoopTypeOK, WakeUp
<1>3. CASE ~(hasWakeup /\ wakeupTime <= t)
  <2>1. hasWakeup' = TRUE /\ wakeupTime' = t /\ notify' = TRUE
    BY <1>3 DEF WakeUp
  <2>2. hasWakeup = FALSE \/ t <= wakeupTime
    BY <1>1, <1>3 DEF LoopTypeOK
  <2> QED BY <1>1, <2>1, <2>2
<1> QED BY <1>2, <1>3

(* The invariant holds at the start.                                       *)
LEMMA LoopInitInv == LoopInit => LoopInv
<1> SUFFICES ASSUME LoopInit PROVE LoopInv
  OBVIOUS
<1>1. now \in Nat /\ flushed = now /\ flushed <= now
  BY EngineTimeAssumption DEF LoopInit
<1>2. LoopTypeOK
  <2>1. /\ running \in BOOLEAN /\ hasWakeup \in BOOLEAN /\ notify \in BOOLEAN
        /\ registered \in Nat
    BY DEF LoopInit
  <2> QED BY <1>1, <2>1 DEF LoopInit, LoopTypeOK
<1>3. Announced /\ Informed
  BY DEF LoopInit, Announced, Informed
<1> QED BY <1>2, <1>3 DEF LoopInv

(* Every step keeps the types.                                             *)
LEMMA LoopStepType == LoopTypeOK /\ [LoopNext]_loopVars => LoopTypeOK'
<1> SUFFICES ASSUME LoopTypeOK, [LoopNext]_loopVars PROVE LoopTypeOK'
  OBVIOUS
<1> USE EngineTimeAssumption DEF LoopTypeOK
<1>1. CASE \E task \in LoopTasks, time \in Times : Register(task, time)
  <2>1. PICK task \in LoopTasks, time \in Times : Register(task, time)
    BY <1>1
  <2>2. hasWakeup' = TRUE /\ wakeupTime' \in Times /\ notify' \in BOOLEAN
    BY <2>1, WakeUpAnnounces DEF Register
  <2>3. tasks' \subseteq LoopEntries
    BY <2>1 DEF Register, LoopEntries
  <2> QED BY <2>1, <2>2, <2>3 DEF Register
<1>2. CASE Notify
  <2>1. loop' \in {loop, "check"}
    BY <1>2 DEF Notify
  <2> QED BY <1>2, <2>1 DEF Notify
<1>3. CASE Terminate
  BY <1>3 DEF Terminate
<1>4. CASE Start \/ Leave \/ Wait \/ WaitEnds \/ Spurious \/ TaskDone
  BY <1>4 DEF Start, Leave, Wait, WaitEnds, Spurious, TaskDone, lock
<1>5. CASE WaitFor
  BY <1>5 DEF WaitFor, lock
<1>6. CASE RunTasks
  <2>1. now \in Nat /\ flushed' <= now'
    BY <1>6 DEF RunTasks
  <2>2. hasWakeup' \in BOOLEAN
    BY <1>6 DEF RunTasks
  <2> QED BY <1>6, <2>1, <2>2 DEF RunTasks
<1>7. CASE \E e \in tasks : NextTask(e)
  <2>1. PICK e \in tasks : NextTask(e)
    BY <1>7
  <2>2. e.time \in Times
    BY DEF LoopEntries
  <2>3. wakeupTime' \in Times /\ hasWakeup' = TRUE /\ notify' \in BOOLEAN
    BY <2>1, <2>2, WakeUpAnnounces DEF NextTask
  <2> QED BY <2>1, <2>3 DEF NextTask
<1>8. CASE NoneDue
  <2>1. CASE \E e \in tasks : WakeUp(e.time)
    BY <1>8, <2>1, WakeUpAnnounces DEF NoneDue, LoopEntries
  <2>2. CASE UNCHANGED <<hasWakeup, wakeupTime, notify>>
    BY <1>8, <2>2 DEF NoneDue
  <2> QED BY <1>8, <2>1, <2>2 DEF NoneDue
<1>9. CASE LoopTick
  BY <1>9 DEF LoopTick, Passes, lock
<1>10. CASE UNCHANGED loopVars
  BY <1>10 DEF loopVars, lock
<1> QED
  BY <1>1, <1>2, <1>3, <1>4, <1>5, <1>6, <1>7, <1>8, <1>9, <1>10 DEF LoopNext

(* Every step keeps the announcements.                                     *)
LEMMA LoopStepInv == LoopInv /\ [LoopNext]_loopVars => (Announced /\ Informed)'
<1> SUFFICES ASSUME LoopInv, [LoopNext]_loopVars PROVE (Announced /\ Informed)'
  OBVIOUS
<1> USE EngineTimeAssumption DEF LoopInv, Announced, Informed
<1>t. /\ LoopTypeOK
      /\ {now, until, wakeupTime} \subseteq Nat
      /\ \A e \in tasks : e.time \in Times /\ e.time \in Nat
  BY DEF LoopTypeOK, LoopEntries
<1>1. CASE \E task \in LoopTasks, time \in Times : Register(task, time)
  <2>1. PICK task \in LoopTasks, time \in Times : Register(task, time)
    BY <1>1
  <2>2. /\ hasWakeup' = TRUE /\ wakeupTime' \in Nat /\ wakeupTime' <= time
        /\ ~hasWakeup \/ wakeupTime' <= wakeupTime
        /\ notify' \/ (~notify /\ hasWakeup /\ wakeupTime' = wakeupTime)
    BY <2>1, <1>t, WakeUpAnnounces DEF Register, LoopTypeOK
  <2>3. \A e \in tasks' : e \in tasks \/ e.time = time
    BY <2>1 DEF Register
  <2>4. UNCHANGED <<loop, until>> /\ time \in Nat
    BY <2>1 DEF Register
  <2>5. Announced'
    BY <1>t, <2>2, <2>3, <2>4
  <2>6. Informed'
    BY <1>t, <2>2, <2>4
  <2> QED BY <2>5, <2>6
<1>2. CASE Notify
  BY <1>2 DEF Notify, Waiting
<1>3. CASE Terminate
  BY <1>3 DEF Terminate
<1>4. CASE Start \/ Leave \/ Wait \/ WaitEnds \/ Spurious \/ TaskDone
  BY <1>4 DEF Start, Leave, Wait, WaitEnds, Spurious, TaskDone, Waiting, lock
<1>5. CASE WaitFor
  BY <1>5, <1>t DEF WaitFor, lock
<1>6. CASE RunTasks
  BY <1>6 DEF RunTasks
<1>7. CASE \E e \in tasks : NextTask(e)
  <2>1. PICK e \in tasks : NextTask(e)
    BY <1>7
  <2>2. hasWakeup' = TRUE /\ wakeupTime' \in Nat /\ wakeupTime' <= e.time
    BY <2>1, <1>t, WakeUpAnnounces DEF NextTask
  <2>3. \A f \in tasks' : e.time <= f.time
    BY <2>1, <1>t DEF NextTask, IsTop
  <2> QED BY <2>1, <2>2, <2>3, <1>t DEF NextTask
<1>8. CASE NoneDue
  <2>1. CASE tasks = {}
    BY <1>8, <2>1 DEF NoneDue
  <2>2. CASE \E e \in tasks : IsTop(e) /\ WakeUp(e.time)
    <3>1. PICK e \in tasks : IsTop(e) /\ WakeUp(e.time)
      BY <2>2
    <3>2. hasWakeup' = TRUE /\ wakeupTime' \in Nat /\ wakeupTime' <= e.time
      BY <3>1, <1>t, WakeUpAnnounces
    <3>3. \A f \in tasks : e.time <= f.time
      BY <3>1, <1>t DEF IsTop
    <3> QED BY <1>8, <3>2, <3>3, <1>t DEF NoneDue
  <2> QED BY <1>8, <2>1, <2>2 DEF NoneDue
<1>9. CASE LoopTick
  BY <1>9 DEF LoopTick, Passes, lock
<1>10. CASE UNCHANGED loopVars
  BY <1>10 DEF loopVars, lock
<1> QED
  BY <1>1, <1>2, <1>3, <1>4, <1>5, <1>6, <1>7, <1>8, <1>9, <1>10 DEF LoopNext

(* For every set of tasks and times: a loop that sleeps has no task that   *)
(* would be due before it wakes up.                                        *)
THEOREM NoLostWakeUp == LoopSpec => []NeverOversleeps
<1>1. LoopInv => NeverOversleeps
  <2> SUFFICES ASSUME LoopInv, ~notify
               PROVE /\ loop = "waits" => tasks = {}
                     /\ loop = "waitsFor" => \A e \in tasks : until <= e.time
    BY DEF NeverOversleeps
  <2>1. /\ {until, wakeupTime} \subseteq Nat
        /\ \A e \in tasks : e.time \in Nat
    BY EngineTimeAssumption DEF LoopInv, LoopTypeOK, LoopEntries
  <2> QED BY <2>1 DEF LoopInv, Announced, Informed
<1>2. LoopInv /\ [LoopNext]_loopVars => LoopInv'
  BY LoopStepType, LoopStepInv DEF LoopInv
<1> QED BY <1>1, <1>2, LoopInitInv, PTL DEF LoopSpec
=============================================================================
