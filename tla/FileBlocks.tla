------------------------------ MODULE FileBlocks ------------------------------
(***************************************************************************)
(* FileBlocks::check of src/src/bin/nvmetoy_repl.rs: the test that keeps   *)
(* the REPL within the blocks of one file.  It walks a requested range     *)
(* from extent to extent: find the first extent that holds the block       *)
(* reached so far, jump to that extent's end, until the range is covered.  *)
(* The extents come from a map file: in any order, adjacent, overlapping,  *)
(* empty, or with an end that a u64 cannot hold (the sum wraps in the      *)
(* release build that nvmetoy.sh runs).                                    *)
(***************************************************************************)
EXTENDS Integers, Sequences

CONSTANTS
  U64,        \* number of values of a u64 (2^64)
  MaxExtents  \* bound of the model: extents of the file

ASSUME U64Assumption == U64 \in Nat \ {0}
ASSUME MaxExtentsAssumption == MaxExtents \in Nat

VARIABLES
  extents, device_lba, count,  \* the file and the arguments
  end, covered,                \* the locals of check
  pc, verdict

vars == <<extents, device_lba, count, end, covered, pc, verdict>>

Lbas == 0 .. U64 - 1
Extent == [device_lba : Lbas, lba_count : Lbas]
Files == UNION {[1 .. n -> Extent] : n \in 0 .. MaxExtents}

\* Where an extent ends, as the u64 sum computes it.
EndOf(e) == (e.device_lba + e.lba_count) % U64

\* Mutants: the block after an extent counts as part of it, or its first block
\* does not.
HoldsItsEnd(e, lba) == lba >= e.device_lba /\ lba <= EndOf(e)
HoldsAfterFirst(e, lba) == lba > e.device_lba /\ lba < EndOf(e)

\* The closure of find.
Holds(e, lba) == lba >= e.device_lba /\ lba < EndOf(e)

Init ==
  /\ extents \in Files
  /\ device_lba \in Lbas
  /\ count \in Lbas
  /\ end = 0
  /\ covered = 0
  /\ pc = "start"
  /\ verdict = "none"

Return(v) ==
  /\ verdict' = v
  /\ pc' = "done"
  /\ UNCHANGED <<extents, device_lba, count, end, covered>>

NothingAsked == pc = "start" /\ count = 0 /\ Return("ok")

RangeOverflows ==
  /\ pc = "start"
  /\ count # 0
  /\ device_lba + count >= U64
  /\ Return("overflow")

Start ==
  /\ pc = "start"
  /\ count # 0
  /\ device_lba + count < U64
  /\ end' = device_lba + count
  /\ covered' = device_lba
  /\ pc' = "walk"
  /\ UNCHANGED <<extents, device_lba, count, verdict>>

\* The first extent that holds the block reached.
Found(i) ==
  /\ Holds(extents[i], covered)
  /\ \A j \in 1 .. i - 1 : ~Holds(extents[j], covered)

\* On to the end of the extent found.
Advance(i) ==
  /\ pc = "walk"
  /\ covered < end
  /\ Found(i)
  /\ covered' = EndOf(extents[i])
  /\ UNCHANGED <<extents, device_lba, count, end, pc, verdict>>

NotPartOfFile ==
  /\ pc = "walk"
  /\ covered < end
  /\ \A i \in DOMAIN extents : ~Holds(extents[i], covered)
  /\ Return("outside")

\* Mutant: one block short.
CoveredButOne == pc = "walk" /\ covered + 1 >= end /\ Return("ok")

AllCovered == pc = "walk" /\ covered >= end /\ Return("ok")

Next ==
  \/ NothingAsked
  \/ RangeOverflows
  \/ Start
  \/ \E i \in DOMAIN extents : Advance(i)
  \/ NotPartOfFile
  \/ AllCovered

Spec == Init /\ [][Next]_vars

\* check is straight-line code with a loop: it keeps running until it returns.
FairSpec == Spec /\ WF_vars(Next)

------------------------------------------------------------------------------
(* Properties *)

\* The blocks of the file: those of the extents whose end a u64 can hold.
InFile(lba) ==
  \E i \in DOMAIN extents :
    /\ extents[i].device_lba <= lba
    /\ lba < extents[i].device_lba + extents[i].lba_count
    /\ extents[i].device_lba + extents[i].lba_count < U64

Asked == device_lba .. device_lba + count - 1

\* check accepts a range only if every block of it is part of the file, whatever
\* the order and the overlaps of the extents: the REPL cannot leave the file.
AcceptsOnlyTheFile == verdict = "ok" => \A lba \in Asked : InFile(lba)

\* check refuses a range only if some block of it is not part of the file: the
\* walk never loses its way between adjacent or overlapping extents.
RefusesOnlyOthers ==
  verdict \in {"outside", "overflow"} =>
    \E lba \in Asked : ~InFile(lba)

\* check returns: every extent found takes the walk forward.
CheckReturns == <>(pc = "done")

\* The type invariant.
TypeOK ==
  /\ extents \in Seq(Extent)
  /\ device_lba \in Lbas /\ count \in Lbas
  /\ end \in Lbas /\ covered \in Lbas
  /\ pc \in {"start", "walk", "done"}
  /\ verdict \in {"none", "ok", "outside", "overflow"}

\* The loop invariant: everything behind the walk is part of the file.
WalkInvariant ==
  /\ TypeOK
  /\ pc # "done" => verdict = "none"
  /\ pc = "walk" =>
       /\ count # 0
       /\ end = device_lba + count
       /\ device_lba <= covered
       /\ \A lba \in device_lba .. covered - 1 : InFile(lba)
  /\ AcceptsOnlyTheFile
  /\ RefusesOnlyOthers
=============================================================================
