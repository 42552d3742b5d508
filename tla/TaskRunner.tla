----------------------------- MODULE TaskRunner -----------------------------
(***************************************************************************)
(* The task runner of the platform thread (embedder/src/engine/            *)
(* task_runner.cpp).  The engine posts from any of its threads; the main   *)
(* loop takes the expired tasks out of the queue in one critical section   *)
(* and runs them after it, so that a task may post others.                 *)
(***************************************************************************)
EXTENDS EngineTime

CONSTANT PlatformTasks

VARIABLES
  queue,    (* queue_; an entry's id is its place in the order of posting *)
  due,      (* those taken out by the call under way *)
  entry,    (* the one of them that runs: none or one *)
  at,       (* that call's "now" *)
  runner,   (* "idle", "clock" (time read, lock not yet taken) or "runs" *)
  enqueued

runnerState == <<queue, due, entry, at, runner, enqueued>>
runnerVars == <<runnerState, now>>

RunnerEntries == [id : Nat, time : Times, task : PlatformTasks]

RunnerInit ==
  /\ queue = {} /\ due = {} /\ entry = {} /\ enqueued = 0
  /\ runner = "idle" /\ now \in Times /\ at = now

\* PostTaskCallback, on any thread.
Enqueue(task, time) ==
  /\ queue' = queue \cup {[id |-> enqueued, time |-> time, task |-> task]}
  /\ enqueued' = enqueued + 1
  /\ UNCHANGED <<due, entry, at, runner, now>>

\* RunExpiredTasks reads the clock before it takes the lock.
ReadClock ==
  /\ runner = "idle"
  /\ runner' = "clock" /\ at' = now
  /\ UNCHANGED <<queue, due, entry, enqueued, now>>

Expired == {e \in queue : e.time <= at}

\* Fault: a task that takes another's place runs and is not taken out.
KeepExpired ==
  /\ runner = "clock"
  /\ runner' = "runs" /\ due' = Expired
  /\ UNCHANGED <<queue, entry, at, enqueued, now>>

TakeExpired ==
  /\ runner = "clock"
  /\ runner' = "runs"
  /\ due' = Expired /\ queue' = queue \ Expired
  /\ UNCHANGED <<entry, at, enqueued, now>>

\* The next of them, in the order of posting.
RunTask(e) ==
  /\ runner = "runs" /\ e \in due
  /\ \A f \in due : e.id <= f.id
  /\ due' = due \ {e} /\ entry' = {e}
  /\ UNCHANGED <<queue, at, runner, enqueued, now>>

Finish ==
  /\ runner = "runs" /\ due = {}
  /\ runner' = "idle" /\ entry' = {}
  /\ UNCHANGED <<queue, due, at, enqueued, now>>

RunnerTick ==
  /\ Passes
  /\ UNCHANGED runnerState

RunnerNext ==
  \/ \E task \in PlatformTasks, time \in Times : Enqueue(task, time)
  \/ ReadClock \/ TakeExpired \/ Finish \/ RunnerTick
  \/ \E e \in due : RunTask(e)

RunnerSpec == RunnerInit /\ [][RunnerNext]_runnerVars

-----------------------------------------------------------------------------
(* Every variable of the runner has its type; ids are below the count, and *)
(* what runs has been taken out and is due.                                *)
RunnerTypeOK ==
  /\ queue \subseteq RunnerEntries /\ due \subseteq RunnerEntries
  /\ \A e \in queue \cup due : e.id < enqueued
  /\ entry \subseteq RunnerEntries
  /\ queue \cap due = {} /\ \A d \in due : d.time <= at
  /\ enqueued \in Nat /\ now \in Times /\ at \in Times /\ at <= now
  /\ runner \in {"idle", "clock", "runs"}
  /\ runner # "runs" => due = {}

(* A task left in the queue while earlier ones run is later than they:     *)
(* what was posted before a task that is about to run, for no later time,  *)
(* is among those taken out before it (RunExpiredTasks).                   *)
NoneOvertaken ==
  \A d \in due, q \in queue : q.id < d.id => q.time > d.time

RunnerBag ==
  INSTANCE TaskBag WITH Tasks <- PlatformTasks, pending <- queue \cup due,
                        current <- entry, posted <- enqueued

(* The runner is a task bag: however posts, the reading of the clock and   *)
(* the critical section interleave, nothing is lost, run twice, run early  *)
(* or overtaken.                                                           *)
RunsEachOnce == RunnerBag!Spec
=============================================================================
