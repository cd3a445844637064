------------------------------ MODULE MCBringUp -------------------------------
(* Model-checking instance of BringUp.  Entry sizes: exactly 2^4, exactly 2^6, *)
(* or from 2^4 to 2^7; queue limits on both sides of the driver's depth.       *)
EXTENDS BringUp

MCEntrySizes == {4 * 16 + 4, 6 * 16 + 6, 7 * 16 + 4}
MCQueueLimits == {63, 64}
=============================================================================
