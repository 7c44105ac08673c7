---------------------------- MODULE TaskLifecycle ----------------------------
(***************************************************************************)
(* What the task hub promises of a background task, without runs, handles, *)
(* cancellations or deliveries: how the status in the registry moves, and  *)
(* that a task is never executed twice at a time.  TaskHub implements it.  *)
(***************************************************************************)
CONSTANTS Tasks

VARIABLES
  status,    \* the status of a task's registry entry
  executing  \* the tasks that have an execution under way

lifeVars == <<status, executing>>

Finished == {"done", "failed", "cancelled"}
Resumable == Finished \cup {"waiting"}
Statuses == {"absent", "running", "deleted"} \cup Resumable

Init ==
  /\ status = [t \in Tasks |-> "absent"]
  /\ executing = {}

\* A task is created once, and executed from then on.
Create(t) ==
  /\ status[t] = "absent"
  /\ status' = [status EXCEPT ![t] = "running"]
  /\ executing' = executing \cup {t}

\* A finished or waiting task that nothing executes is executed again.
Resume(t) ==
  /\ status[t] \in Resumable
  /\ t \notin executing
  /\ status' = [status EXCEPT ![t] = "running"]
  /\ executing' = executing \cup {t}

\* The execution ends, and its outcome is the status unless the entry is gone.
Outcome(t) ==
  /\ t \in executing
  /\ executing' = executing \ {t}
  /\ \E s \in Resumable :
       status' = IF status[t] = "running" THEN [status EXCEPT ![t] = s] ELSE status

\* The execution ends before it began, and leaves no outcome.
Vanish(t) ==
  /\ t \in executing
  /\ executing' = executing \ {t}
  /\ UNCHANGED status

\* A finished task is deleted; any entry is dropped once its folder is gone.
Delete(t) ==
  /\ status[t] # "absent"
  /\ status' = [status EXCEPT ![t] = "deleted"]
  /\ UNCHANGED executing

\* The process died: what was running has failed, nothing else has changed.
Restart ==
  /\ status' = [t \in Tasks |-> IF status[t] = "running" THEN "failed" ELSE status[t]]
  /\ executing' = {}

Next ==
  \/ \E t \in Tasks :
       Create(t) \/ Resume(t) \/ Outcome(t) \/ Vanish(t) \/ Delete(t)
  \/ Restart

Spec == Init /\ [][Next]_lifeVars
=============================================================================
