----------------------------- MODULE MCBlockMap -------------------------------
(* Model-checking instance of BlockMap: numbers of one and two digits, written *)
(* and unwritten extents, adjacent and out of order, a file without any.       *)
EXTENDS BlockMap

MCMaps == {[lba_size |-> 12, extents |-> <<<<3, 10, 0>>, <<13, 1, 1>>>>],
           [lba_size |-> 12, extents |-> <<<<11, 2, 1>>, <<1, 10, 0>>>>],
           [lba_size |-> 14, extents |-> << >>]}
=============================================================================
