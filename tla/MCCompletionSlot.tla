--------------------------- MODULE MCCompletionSlot ---------------------------
(* Model-checking instance of CompletionSlot. *)
EXTENDS CompletionSlot
=============================================================================
