------------------------------ MODULE MCLauncher ------------------------------
(* Model-checking instance of Launcher. *)
EXTENDS Launcher
=============================================================================
