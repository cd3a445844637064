------------------------------ MODULE MCTransfer ------------------------------
(* Model-checking instance of Transfer: the code's own sizes. *)
EXTENDS Transfer

\* Formats by index: 512, 4096, 8192 and 32 bytes; 16 (format 4), below what the u16
\* block count can carry; 2^14 (format 5), of which a read can be longer than a
\* usize, and 2^29 (format 6), which is one itself, of the 29 bits there are here.
\* Format 16 is the first one FIDXU is needed for.
Lbads == [i \in 0 .. 63 |-> CASE i = 1 -> 12 [] i = 2 -> 13 [] i = 3 -> 5
                              [] i = 4 -> 4 [] i = 5 -> 14 [] i = 6 -> 29
                              [] i = 16 -> 12 [] OTHER -> 9]
Ms == [i \in 0 .. 63 |-> IF i = 0 THEN 8 ELSE 0]

\* flbas of the formats; 16 is format 0 with its 8 bytes of metadata interleaved,
\* 32 is format 16.
MCNamespaces ==
  {[flbas |-> flbas, lbads |-> Lbads, ms |-> Ms]
     : flbas \in {0, 1, 2, 3, 4, 5, 6, 16, 32}}

MCBars == {[length |-> 16384, dstrd |-> 0],
           [length |-> 4096 + 4 * 2 ^ 17, dstrd |-> 15],
           [length |-> 4096 + 3 * 2 ^ 17, dstrd |-> 15]}

\* Around each size: pages, PRP cases, the whole data area, u16.
MCCounts == {0, 1, 2, 9, 16, 17, 253, 254, 507, 508, 4056, 4057,
             32769, 64896, 65535}
MCLengths == {0, 32, 513, 4096, 8192, 16384,
              MAX_TRANSFER_BYTES, MAX_TRANSFER_BYTES + 4096}
=============================================================================
