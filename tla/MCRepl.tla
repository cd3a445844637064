-------------------------------- MODULE MCRepl --------------------------------
(* Model-checking instance of Repl. *)
EXTENDS Repl
=============================================================================
