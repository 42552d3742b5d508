------------------------------ MODULE TaskBag ------------------------------
(***************************************************************************)
(* What the engine expects of a task runner: every task it posts runs      *)
(* once, one at a time, not before its time, and not before one that was   *)
(* posted earlier for the same or an earlier time.  Nothing is said of     *)
(* tasks that became due out of the order in which they were posted.       *)
(***************************************************************************)
EXTENDS Naturals

CONSTANTS Tasks, Times   (* points of time: natural numbers *)

VARIABLES
  pending,   (* the tasks that were posted and have not run *)
  current,   (* the one that runs: a set of at most one *)
  posted,    (* how many were posted, which numbers them *)
  now

vars == <<pending, current, posted, now>>

Entries == [id : Nat, time : Times, task : Tasks]

Precedes(e, f) == e.id < f.id /\ e.time <= f.time

Init == pending = {} /\ current = {} /\ posted = 0 /\ now \in Times

Post(task, time) ==
  /\ pending' = pending \cup {[id |-> posted, time |-> time, task |-> task]}
  /\ posted' = posted + 1
  /\ UNCHANGED <<current, now>>

Run(e) ==
  /\ e.time <= now
  /\ \A f \in pending : ~Precedes(f, e)
  /\ pending' = pending \ {e} /\ current' = {e}
  /\ UNCHANGED <<posted, now>>

Return == current' = {} /\ UNCHANGED <<pending, posted, now>>

Tick == now' \in Times /\ now' > now /\ UNCHANGED <<pending, current, posted>>

Next ==
  \/ \E task \in Tasks, time \in Times : Post(task, time)
  \/ \E e \in pending : Run(e)
  \/ Return \/ Tick

Spec == Init /\ [][Next]_vars
=============================================================================
