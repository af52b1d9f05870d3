--------------------------- MODULE MCLiveRecording ---------------------------
(* Small instances of LiveRecording for TLC. *)
EXTENDS LiveRecording

\* Nothing is claimed of the files once an old run has written to them, and
\* at most one old run lives beside the task's own.
OneOldRun ==
    ~ mingled /\ Cardinality({r \in Runs : w[r].at # "none"}) <= 2

=============================================================================
