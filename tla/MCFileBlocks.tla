----------------------------- MODULE MCFileBlocks -----------------------------
(* Model-checking instance of FileBlocks. *)
EXTENDS FileBlocks
=============================================================================
