---------------------------- MODULE MessageLoop ----------------------------
(***************************************************************************)
(* The message loop of an engine thread (patches/flutter-engine/files/fml/ *)
(* platform/horizon/message_loop_horizon.cc): one thread waits on a        *)
(* condition variable, with or without a time limit, until a task is due;  *)
(* others announce tasks with WakeUp.                                      *)
(*                                                                         *)
(* The queue itself is fml's and not in the repository.  What the loop     *)
(* needs of it is told by the comment at :70-72: a task that is posted is  *)
(* announced, and RunExpiredTasksNow announces what comes next each time   *)
(* it looks at the queue.                                                  *)
(***************************************************************************)
EXTENDS EngineTime

CONSTANT LoopTasks

VARIABLES
  tasks,     (* fml's queue *)
  loop,      (* where the loop's thread stands *)
  flushed,   (* RunExpiredTasksNow: the time it runs tasks up to *)
  until,     (* cv_.wait_for: the time the wait ends *)
  running, hasWakeup, wakeupTime,
  notify,    (* a WakeUp or Terminate has left the mutex and not yet notified *)
  registered

lock == <<running, hasWakeup, wakeupTime, notify>>
loopVars == <<tasks, loop, flushed, until, lock, registered, now>>

LoopEntries == [id : Nat, time : Times, task : LoopTasks]

LoopInit ==
  /\ tasks = {} /\ registered = 0 /\ now \in Times
  /\ loop = "new" /\ flushed = now /\ until = now
  /\ running = FALSE /\ hasWakeup = FALSE /\ wakeupTime = now /\ notify = FALSE

\* Fault: a time that is announced already is announced again by any later one.
WakeUpLatest(time) ==
  IF hasWakeup /\ time <= wakeupTime THEN UNCHANGED <<hasWakeup, wakeupTime, notify>>
  ELSE hasWakeup' = TRUE /\ wakeupTime' = time /\ notify' = TRUE

\* Fault: the announcement is not followed by a notification.
WakeUpSilent(time) ==
  /\ hasWakeup' = TRUE
  /\ wakeupTime' = IF hasWakeup /\ wakeupTime <= time THEN wakeupTime ELSE time
  /\ UNCHANGED notify

\* WakeUp's critical section; the notification follows it.
WakeUp(time) ==
  IF hasWakeup /\ wakeupTime <= time THEN UNCHANGED <<hasWakeup, wakeupTime, notify>>
  ELSE hasWakeup' = TRUE /\ wakeupTime' = time /\ notify' = TRUE

\* fml: a task is put into the queue and announced, on any thread.
Register(task, time) ==
  /\ tasks' = tasks \cup {[id |-> registered, time |-> time, task |-> task]}
  /\ registered' = registered + 1
  /\ WakeUp(time)
  /\ UNCHANGED <<loop, flushed, until, running, now>>

Waiting == loop \in {"waits", "waitsFor"}

\* cv_.notify_all
Notify ==
  /\ notify /\ notify' = FALSE
  /\ loop' = IF Waiting THEN "check" ELSE loop
  /\ UNCHANGED <<tasks, flushed, until, running, hasWakeup, wakeupTime, registered, now>>

Terminate ==
  /\ running' = FALSE /\ notify' = TRUE
  /\ UNCHANGED <<tasks, loop, flushed, until, hasWakeup, wakeupTime, registered, now>>

-----------------------------------------------------------------------------
Start ==
  /\ loop = "new"
  /\ loop' = "check" /\ running' = TRUE
  /\ UNCHANGED <<tasks, flushed, until, hasWakeup, wakeupTime, notify, registered, now>>

Leave ==
  /\ loop = "check" /\ ~running
  /\ loop' = "left"
  /\ UNCHANGED <<tasks, flushed, until, lock, registered, now>>

Wait ==
  /\ loop = "check" /\ running /\ ~hasWakeup
  /\ loop' = "waits"
  /\ UNCHANGED <<tasks, flushed, until, lock, registered, now>>

WaitFor ==
  /\ loop = "check" /\ running /\ hasWakeup /\ wakeupTime > now
  /\ loop' = "waitsFor" /\ until' = wakeupTime
  /\ UNCHANGED <<tasks, flushed, lock, registered, now>>

\* A condition variable may wake up without a reason.
Spurious ==
  /\ Waiting
  /\ loop' = "check"
  /\ UNCHANGED <<tasks, flushed, until, lock, registered, now>>

WaitEnds ==
  /\ loop = "waitsFor" /\ now >= until
  /\ loop' = "check"
  /\ UNCHANGED <<tasks, flushed, until, lock, registered, now>>

\* The announcement is taken before RunExpiredTasksNow is called.
RunTasks ==
  /\ loop = "check" /\ running /\ hasWakeup /\ wakeupTime <= now
  /\ loop' = "flush" /\ flushed' = now /\ hasWakeup' = FALSE
  /\ UNCHANGED <<tasks, until, running, wakeupTime, notify, registered, now>>

\* fml: the first of the queue by time, then by order of posting.
IsTop(e) ==
  /\ e \in tasks
  /\ \A f \in tasks : e.time < f.time \/ (e.time = f.time /\ e.id <= f.id)

\* fml: announces the first of the queue; runs it if it is due.
NextTask(e) ==
  /\ loop = "flush" /\ IsTop(e) /\ e.time <= flushed
  /\ WakeUp(e.time)
  /\ tasks' = tasks \ {e} /\ loop' = "task"
  /\ UNCHANGED <<flushed, until, running, registered, now>>

NoneDue ==
  /\ loop = "flush"
  /\ \/ tasks = {} /\ UNCHANGED <<hasWakeup, wakeupTime, notify>>
     \/ \E e \in tasks : IsTop(e) /\ e.time > flushed /\ WakeUp(e.time)
  /\ loop' = "check"
  /\ UNCHANGED <<tasks, flushed, until, running, registered, now>>

\* The task returns.
TaskDone ==
  /\ loop = "task"
  /\ loop' = "flush"
  /\ UNCHANGED <<tasks, flushed, until, lock, registered, now>>

LoopTick ==
  /\ Passes
  /\ UNCHANGED <<tasks, loop, flushed, until, lock, registered>>

LoopNext ==
  \/ \E task \in LoopTasks, time \in Times : Register(task, time)
  \/ Notify \/ Terminate
  \/ Start \/ Leave \/ Wait \/ WaitFor \/ WaitEnds \/ Spurious \/ RunTasks
  \/ (\E e \in tasks : NextTask(e)) \/ NoneDue \/ TaskDone
  \/ LoopTick

LoopSpec == LoopInit /\ [][LoopNext]_loopVars

-----------------------------------------------------------------------------
(* Every variable of the loop has its type, and a flush works with a time  *)
(* that has come.                                                          *)
LoopTypeOK ==
  /\ tasks \subseteq LoopEntries /\ registered \in Nat
  /\ loop \in {"new", "check", "waits", "waitsFor", "flush", "task", "left"}
  /\ now \in Times /\ flushed \in Times /\ until \in Times /\ wakeupTime \in Times
  /\ running \in BOOLEAN /\ hasWakeup \in BOOLEAN /\ notify \in BOOLEAN
  /\ flushed <= now

(* No wake-up is lost: a loop that sleeps, and to which no notification is *)
(* on its way, has no task that is due before its time limit, and without  *)
(* one it has no task at all (Run, WakeUp).                                *)
NeverOversleeps ==
  ~notify =>
    /\ loop = "waits" => tasks = {}
    /\ loop = "waitsFor" => \A e \in tasks : until <= e.time
=============================================================================
