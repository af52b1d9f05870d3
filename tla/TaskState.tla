------------------------------ MODULE TaskState ------------------------------
(***************************************************************************)
(* The platform-neutral task lifecycle of crates/nova-core-model: the       *)
(* states of a download task, which of them occupy an engine slot, and the  *)
(* transitions that transition_task_state and restart_task_state accept.    *)
(* Every engine (libcurl, native media, torrent, Android) goes through      *)
(* these two tables; there is no state in this module, only the tables.     *)
(***************************************************************************)

TaskStates == {"Queued", "Preparing", "Probing", "Downloading", "Pausing",
               "Paused", "Retrying", "Recovering", "Verifying", "Finalizing",
               "Completed", "Failed", "Interrupted"}

\* TaskState::is_active: the states in which a worker occupies a slot.
ActiveStates == {"Preparing", "Probing", "Downloading", "Pausing", "Retrying",
                 "Recovering", "Verifying", "Finalizing"}

IsActive(s) == s \in ActiveStates

\* What may follow each state in the ordinary lifecycle.
Successors(s) ==
  CASE s = "Queued"      -> {"Preparing", "Paused", "Failed"}
    [] s = "Preparing"   -> {"Probing", "Downloading", "Pausing", "Paused", "Failed"}
    [] s = "Probing"     -> {"Downloading", "Pausing", "Paused", "Retrying",
                             "Recovering", "Failed"}
    [] s = "Downloading" -> {"Pausing", "Paused", "Retrying", "Recovering",
                             "Verifying", "Failed"}
    [] s = "Pausing"     -> {"Paused", "Failed"}
    [] s = "Paused"      -> {"Queued", "Failed"}
    [] s = "Retrying"    -> {"Probing", "Downloading", "Recovering", "Pausing",
                             "Paused", "Failed"}
    [] s = "Recovering"  -> {"Probing", "Downloading", "Retrying", "Pausing",
                             "Paused", "Failed"}
    [] s = "Verifying"   -> {"Finalizing", "Pausing", "Paused", "Failed"}
    [] s = "Finalizing"  -> {"Completed", "Pausing", "Paused", "Failed"}
    [] s = "Failed"      -> {"Queued", "Paused"}
    [] s = "Interrupted" -> {"Paused", "Queued", "Failed"}
    [] OTHER             -> {}                    \* Completed is terminal

\* TaskState::can_transition_to: a state may always "move" to itself.
CanTransition(s, next) == s = next \/ next \in Successors(s)

\* TaskState::can_restart_to: a redownload may go to Queued from any state.
CanRestart(s, next) == s \in TaskStates /\ next = "Queued"

=============================================================================
