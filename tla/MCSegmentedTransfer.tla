------------------------ MODULE MCSegmentedTransfer ------------------------
(* SegmentedTransfer for TLC. *)
EXTENDS SegmentedTransfer
=============================================================================
