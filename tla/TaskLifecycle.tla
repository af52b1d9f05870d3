---------------------------- MODULE TaskLifecycle ----------------------------
(***************************************************************************)
(* What the daemon promises about the status of a task, whatever engine     *)
(* runs it: a task is created (or restored from disk), then moves only      *)
(* along the lifecycle of nova-core-model, is put back to Queued by a       *)
(* redownload, and once deleted never comes back.                           *)
(***************************************************************************)
EXTENDS TaskState

VARIABLE state

Unborn  == "Unborn"
Deleted == "Deleted"

Init == state \in {Unborn, "Paused", "Failed"}

\* A new task starts at once or waits in the queue.
Create == state = Unborn /\ state' \in {"Preparing", "Queued"}

\* transition_task_state
Transition ==
  /\ state \in TaskStates
  /\ \E next \in TaskStates :
        CanTransition(state, next) /\ state' = next

\* restart_task_state
Restart ==
  /\ \E next \in TaskStates :
        CanRestart(state, next) /\ state' = next

Delete == state \in TaskStates /\ state' = Deleted

Next == Create \/ Transition \/ Restart \/ Delete

Spec == Init /\ [][Next]_state

=============================================================================
