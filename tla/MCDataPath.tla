------------------------------ MODULE MCDataPath ------------------------------
(* Model-checking instance of DataPath.  The contents a caller writes are     *)
(* only ever compared with one another, so they are interchangeable.          *)
EXTENDS DataPath, TLC

ContentsSymmetry == Permutations(Contents)
=============================================================================
