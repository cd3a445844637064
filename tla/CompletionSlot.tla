---------------------------- MODULE CompletionSlot ----------------------------
(***************************************************************************)
(* The data race on one slot of a completion ring (src/src/dma_region.rs,  *)
(* read_volatile): the controller writes the 16 bytes of a completion      *)
(* queue entry while submit_and_wait of src/src/queue_pair.rs copies them. *)
(* Only aligned words are read and written in one piece, in any order.     *)
(* QueuePair takes the entry in one step; this module shows why it may.    *)
(*                                                                         *)
(* A word is told by the lap whose entry it belongs to; lap 0 is the       *)
(* zeroed ring.  The phase tag of lap n is the parity of n.                *)
(***************************************************************************)
EXTENDS Integers

CONSTANTS
  WORD_BYTES,  \* bytes of a word that does not tear
  Laps         \* bound of the model: entries posted to the slot

ENTRY_BYTES == 16

ASSUME WordAssumption == WORD_BYTES \in {4, 8, 16}
ASSUME LapsAssumption == Laps \in Nat

VARIABLES
  slot,      \* the words in memory
  posted,    \* lap of the newest entry the controller posts
  copy,      \* the words read so far in this poll; NotRead
  head_lap,  \* lap the driver waits for
  taken      \* laps that cid and status of the last accepted entry are of

vars == <<slot, posted, copy, head_lap, taken>>

Words == 0 .. (ENTRY_BYTES \div WORD_BYTES) - 1
NotRead == -1
NothingRead == [w \in Words |-> NotRead]

\* Mutant: cid is where the submission queue identifier is.
SQ_ID_OFFSET == 10

\* Offsets of the fields in CompletionQueueEntry.
CID_OFFSET == 12
STATUS_OFFSET == 14
Field(offset) == copy[offset \div WORD_BYTES]

Init ==
  /\ slot = [w \in Words |-> 0]
  /\ posted = 0
  /\ copy = NothingRead
  /\ head_lap = 1
  /\ taken = [cid |-> 0, status |-> 0]

------------------------------------------------------------------------------
(* The controller (external) *)

\* A new entry once the slot was freed by the head doorbell.
StartPost ==
  /\ posted < head_lap /\ posted < Laps
  /\ \A w \in Words : slot[w] = posted
  /\ posted' = posted + 1
  /\ UNCHANGED <<slot, copy, head_lap, taken>>

WriteWord(w) ==
  /\ slot[w] # posted
  /\ slot' = [slot EXCEPT ![w] = posted]
  /\ UNCHANGED <<posted, copy, head_lap, taken>>

------------------------------------------------------------------------------
(* submit_and_wait *)

\* read_volatile copies the entry word by word.
ReadWord(w) ==
  /\ copy[w] = NotRead
  /\ copy' = [copy EXCEPT ![w] = slot[w]]
  /\ UNCHANGED <<slot, posted, head_lap, taken>>

Copied == \A w \in Words : copy[w] # NotRead

\* Mutant: any copy will do.
PhaseIgnored == TRUE

PhaseMatches == Field(STATUS_OFFSET) % 2 = head_lap % 2

\* The copy is dropped when its phase tag is wrong.
PollAgain ==
  /\ Copied /\ ~PhaseMatches
  /\ copy' = NothingRead
  /\ UNCHANGED <<slot, posted, head_lap, taken>>

\* cid is compared, and status checked, in the same copy; the head moves on and
\* comes back to this slot a lap later.
Accept ==
  /\ Copied /\ PhaseMatches
  /\ taken' = [cid |-> Field(CID_OFFSET), status |-> Field(STATUS_OFFSET)]
  /\ head_lap' = head_lap + 1
  /\ copy' = NothingRead
  /\ UNCHANGED <<slot, posted>>

Next ==
  \/ StartPost \/ PollAgain \/ Accept
  \/ \E w \in Words : WriteWord(w) \/ ReadWord(w)

Spec == Init /\ [][Next]_vars

------------------------------------------------------------------------------
(* Properties *)

\* What the driver uses of an accepted entry is all of the entry it waited for,
\* however the words of entry and copy were interleaved.
TakenWhole == taken = [cid |-> head_lap - 1, status |-> head_lap - 1]

\* Why: other words may lag behind, but the word that carries the phase tag, in
\* memory and in the copy, is of the lap awaited or the one before, so that its
\* parity tells the two apart; and it is never older than the copy of it.
TagInvariant ==
  LET tag == STATUS_OFFSET \div WORD_BYTES
  IN /\ slot[tag] \in {posted - 1, posted}
     /\ slot[tag] \in {head_lap - 1, head_lap}
     /\ posted \in {head_lap - 1, head_lap}
     /\ copy[tag] \in {NotRead, head_lap - 1, head_lap}
     /\ copy[tag] <= slot[tag]
=============================================================================
