---------------------------- MODULE CommandChannel ----------------------------
(***************************************************************************)
(* What a queue pair promises the code above it, without rings, slots,     *)
(* phase tags or doorbells.  submit_and_wait (src/src/queue_pair.rs) hands *)
(* over one command at a time; the controller finishes the commands it     *)
(* holds in any order; completions come back first in, first out; a call   *)
(* answers with the oldest completion waiting, whichever command that      *)
(* belongs to, and compares nothing but the 16-bit cid.  A call that finds *)
(* no completion waiting may give up and leave its command behind.         *)
(*                                                                         *)
(* Commands are named by their serial number.  A channel that has been     *)
(* left LossThreshold commands behind may lose commands: the submission    *)
(* ring is then full and the driver overruns it.                           *)
(***************************************************************************)
EXTENDS Integers, Sequences

CONSTANTS CID_SPACE, LossThreshold, MaxCommands

VARIABLES
  calling,      \* a call of submit_and_wait is in progress
  issued,       \* commands handed over, the serial of the last one
  pending,      \* serials the controller has not finished
  completions,  \* serials finished and not yet taken, oldest first
  timeouts,     \* calls that gave up
  outcome       \* what the last call returned

chanVars == <<calling, issued, pending, completions, timeouts, outcome>>

\* The command identifier of the n-th command: next_cid starts at 0 and wraps.
CidOf(n) == (n - 1) % CID_SPACE

Init ==
  /\ calling = FALSE
  /\ issued = 0
  /\ pending = {}
  /\ completions = << >>
  /\ timeouts = 0
  /\ outcome = "none"

\* A call starts: its command is with the controller.
Issue ==
  /\ ~calling
  /\ issued < MaxCommands
  /\ calling' = TRUE
  /\ issued' = issued + 1
  /\ pending' = pending \cup {issued + 1}
  /\ UNCHANGED <<completions, timeouts, outcome>>

\* The controller finishes a command.
Complete(n) ==
  /\ n \in pending
  /\ pending' = pending \ {n}
  /\ completions' = Append(completions, n)
  /\ UNCHANGED <<calling, issued, timeouts, outcome>>

\* The call takes the oldest completion and returns.
Answer ==
  /\ calling
  /\ completions # << >>
  /\ completions' = Tail(completions)
  /\ calling' = FALSE
  /\ outcome' = IF CidOf(Head(completions)) = CidOf(issued)
                  THEN "ok" ELSE "mismatch"
  /\ UNCHANGED <<issued, pending, timeouts>>

\* The call gives up: no completion is waiting.
GiveUp ==
  /\ calling
  /\ completions = << >>
  /\ calling' = FALSE
  /\ timeouts' = timeouts + 1
  /\ outcome' = "timeout"
  /\ UNCHANGED <<issued, pending, completions>>

\* An overrun ring forgets commands.
Lose ==
  /\ calling
  /\ timeouts >= LossThreshold
  /\ \E kept \in SUBSET pending : pending' = kept
  /\ UNCHANGED <<calling, issued, completions, timeouts, outcome>>

Next ==
  \/ Issue
  \/ \E n \in pending : Complete(n)
  \/ Answer
  \/ GiveUp
  \/ Lose

Spec == Init /\ [][Next]_chanVars
=============================================================================
