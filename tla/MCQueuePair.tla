----------------------------- MODULE MCQueuePair -----------------------------
(* Model-checking instance of QueuePair. *)
EXTENDS QueuePair
=============================================================================
