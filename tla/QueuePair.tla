------------------------------ MODULE QueuePair ------------------------------
(***************************************************************************)
(* One NVMe queue pair, from src/src/queue_pair.rs: the driver side        *)
(* (struct QueuePair and submit_and_wait) over the two rings it keeps in   *)
(* the DMA region, and the controller on the other side of the doorbells.  *)
(*                                                                         *)
(* The driver keeps at most one call in progress, but a call that times    *)
(* out leaves its command with the controller: the REPL reports the error  *)
(* and submits the next command on the same rings.  The controller is      *)
(* external.  It is modelled from what the driver relies on: it fetches    *)
(* the submission ring in order up to the tail doorbell, finishes commands *)
(* in any order and at any time (or never), and posts completions with a   *)
(* phase tag that flips each lap, never beyond the head doorbell.          *)
(*                                                                         *)
(* A command is told apart from every other by its serial number, a        *)
(* history value the code does not have; the code has the 16-bit cid.      *)
(***************************************************************************)
EXTENDS Integers, Sequences, FiniteSets

CONSTANTS
  QUEUE_DEPTH,  \* slots of each ring (64 in the code)
  CID_SPACE,    \* number of command identifiers (2^16: next_cid is a u16)
  MAX_SPINS,    \* idle polls before submit_and_wait gives up (200_000)
  MaxCommands   \* bound of the model: commands ever submitted

ASSUME QueueDepthAssumption == QUEUE_DEPTH \in Nat /\ QUEUE_DEPTH >= 2
ASSUME CidSpaceAssumption == CID_SPACE \in Nat \ {0}
ASSUME MaxSpinsAssumption == MAX_SPINS \in Nat
ASSUME MaxCommandsAssumption == MaxCommands \in Nat

VARIABLES
  submission_tail, completion_head, completion_phase, next_cid,
  pc,           \* where submit_and_wait is: "idle" between two calls
  cid,          \* its local cid
  spins,        \* its local spins
  completion,   \* its local completion: the entry a poll found
  outcome,      \* what the last call returned
  sq, cq,                    \* the two rings in the DMA region
  sq_doorbell, cq_doorbell,  \* the doorbell registers
  sq_head, cq_tail, cq_phase, inflight,  \* the controller
  issued,       \* history: commands submitted, the serial of the last one
  fetched,      \* history: serial of the last command fetched
  posted,       \* history: completions posted
  consumed,     \* history: completions the driver took off the ring
  timeouts      \* history: calls that returned the timeout error

driverVars == <<submission_tail, completion_head, completion_phase, next_cid,
                pc, cid, spins, completion, outcome>>
controllerVars == <<sq_head, cq_tail, cq_phase, inflight>>
historyVars == <<issued, fetched, posted, consumed, timeouts>>
vars == <<driverVars, sq, cq, sq_doorbell, cq_doorbell, controllerVars,
          historyVars>>

Slots == 0 .. QUEUE_DEPTH - 1
Cids == 0 .. CID_SPACE - 1

\* A slot index moved on by one, as both sides of a ring compute it.
NextSlot(i) == (i + 1) % QUEUE_DEPTH

\* Slots from one index up to, not including, another, going round the ring.
Between(from, to) ==
  IF from <= to THEN from .. to - 1
                ELSE (from .. QUEUE_DEPTH - 1) \cup (0 .. to - 1)

\* What the code keeps of a SubmissionQueueEntry here: the cid, and the serial
\* that stands for the rest of the command.
SubmissionQueueEntry == [serial : Nat, cid : Cids]

\* What submit_and_wait reads of a CompletionQueueEntry: cid and phase, both in
\* its last dword.  serial and seq (the how-manieth posting) are history.
CompletionQueueEntry ==
  [serial : Nat, cid : Cids, phase : BOOLEAN, seq : Nat]

\* alloc_huge zeroes the region, so every slot starts with phase tag 0.
ZeroedSqe == [serial |-> 0, cid |-> 0]
ZeroedCqe == [serial |-> 0, cid |-> 0, phase |-> FALSE, seq |-> 0]

------------------------------------------------------------------------------
(* QueuePair::new over a zeroed DMA region and a controller just enabled. *)
Init ==
  /\ submission_tail = 0
  /\ completion_head = 0
  /\ completion_phase = TRUE
  /\ next_cid = 0
  /\ pc = "idle"
  /\ cid = 0
  /\ spins = 0
  /\ completion = ZeroedCqe
  /\ outcome = "none"
  /\ sq = [i \in Slots |-> ZeroedSqe]
  /\ cq = [i \in Slots |-> ZeroedCqe]
  /\ sq_doorbell = 0
  /\ cq_doorbell = 0
  /\ sq_head = 0
  /\ cq_tail = 0
  /\ cq_phase = TRUE
  /\ inflight = {}
  /\ issued = 0
  /\ fetched = 0
  /\ posted = 0
  /\ consumed = 0
  /\ timeouts = 0

------------------------------------------------------------------------------
(* submit_and_wait *)

\* Take a cid, stamp the command, store it in the slot at the tail and fence.
\* The doorbell has not been rung: the controller may not look at the slot yet.
WriteSubmissionEntry ==
  /\ pc = "idle"
  /\ issued < MaxCommands
  /\ cid' = next_cid
  /\ next_cid' = (next_cid + 1) % CID_SPACE
  /\ issued' = issued + 1
  /\ sq' = [sq EXCEPT ![submission_tail] =
                        [serial |-> issued + 1, cid |-> next_cid]]
  /\ pc' = "ring"
  /\ UNCHANGED <<submission_tail, completion_head, completion_phase, spins,
                 completion, outcome, cq, sq_doorbell, cq_doorbell,
                 controllerVars, fetched, posted, consumed, timeouts>>

\* Mutant: the doorbell gets the tail from before it was advanced.
RingStaleTail ==
  /\ pc = "ring"
  /\ submission_tail' = NextSlot(submission_tail)
  /\ sq_doorbell' = submission_tail
  /\ spins' = 0
  /\ pc' = "poll"
  /\ UNCHANGED <<completion_head, completion_phase, next_cid, cid, completion,
                 outcome, sq, cq, cq_doorbell, controllerVars, historyVars>>

\* Advance the tail and ring the submission doorbell.  There is no test for a
\* full ring.
RingSubmissionDoorbell ==
  /\ pc = "ring"
  /\ submission_tail' = NextSlot(submission_tail)
  /\ sq_doorbell' = NextSlot(submission_tail)
  /\ spins' = 0
  /\ pc' = "poll"
  /\ UNCHANGED <<completion_head, completion_phase, next_cid, cid, completion,
                 outcome, sq, cq, cq_doorbell, controllerVars, historyVars>>

\* The phase tag the driver expects once its head is at slot i.
FlipAtWrap(phase, i) == IF i = 0 THEN ~phase ELSE phase

\* One poll of the slot at the head finds the phase tag the driver expects.
Matches == cq[completion_head].phase = completion_phase

\* Mutant: an idle poll is not counted.
PollUncounted ==
  /\ pc = "poll"
  /\ ~Matches
  /\ spins + 1 <= MAX_SPINS
  /\ UNCHANGED vars

\* An idle poll with polls left.
PollAgain ==
  /\ pc = "poll"
  /\ ~Matches
  /\ spins + 1 <= MAX_SPINS
  /\ spins' = spins + 1
  /\ UNCHANGED <<submission_tail, completion_head, completion_phase, next_cid,
                 pc, cid, completion, outcome, sq, cq, sq_doorbell,
                 cq_doorbell, controllerVars, historyVars>>

\* The idle poll that exceeds the limit: the call returns an error and forgets
\* the command, which stays with the controller.
TimeOut ==
  /\ pc = "poll"
  /\ ~Matches
  /\ spins + 1 > MAX_SPINS
  /\ spins' = spins + 1
  /\ outcome' = "timeout"
  /\ timeouts' = timeouts + 1
  /\ pc' = "idle"
  /\ UNCHANGED <<submission_tail, completion_head, completion_phase, next_cid,
                 cid, completion, sq, cq, sq_doorbell, cq_doorbell,
                 controllerVars, issued, fetched, posted, consumed>>

\* Mutant: the expected phase tag never changes.
TakeWithoutFlip ==
  /\ pc = "poll"
  /\ Matches
  /\ completion' = cq[completion_head]
  /\ completion_head' = NextSlot(completion_head)
  /\ consumed' = consumed + 1
  /\ pc' = "return"
  /\ UNCHANGED <<submission_tail, completion_phase, next_cid, cid, spins, outcome,
                 sq, cq, sq_doorbell, cq_doorbell, controllerVars, issued,
                 fetched, posted, timeouts>>

\* A poll finds an entry: take it, advance the head, flip the expected phase
\* when the head wraps to slot 0.
TakeCompletion ==
  /\ pc = "poll"
  /\ Matches
  /\ completion' = cq[completion_head]
  /\ completion_head' = NextSlot(completion_head)
  /\ completion_phase' =
       FlipAtWrap(completion_phase, NextSlot(completion_head))
  /\ consumed' = consumed + 1
  /\ pc' = "return"
  /\ UNCHANGED <<submission_tail, next_cid, cid, spins, outcome, sq, cq,
                 sq_doorbell, cq_doorbell, controllerVars, issued, fetched,
                 posted, timeouts>>

\* Mutants: the cid is not compared, or compared with the next call's.
CidUnchecked == "ok"
CidOfNextCall == IF completion.cid = next_cid THEN "ok" ELSE "mismatch"

\* What the call makes of the completion it took: only the cid is compared.
CidComparison == IF completion.cid = cid THEN "ok" ELSE "mismatch"

\* Mutant: the completion doorbell is not rung.
ReturnWithoutDoorbell ==
  /\ pc = "return"
  /\ outcome' = CidComparison
  /\ pc' = "idle"
  /\ UNCHANGED <<submission_tail, completion_head, completion_phase, next_cid,
                 cid, spins, completion, sq, cq, sq_doorbell, cq_doorbell,
                 controllerVars, historyVars>>

\* Ring the completion doorbell, compare the cid and return.
Return ==
  /\ pc = "return"
  /\ cq_doorbell' = completion_head
  /\ outcome' = CidComparison
  /\ pc' = "idle"
  /\ UNCHANGED <<submission_tail, completion_head, completion_phase, next_cid,
                 cid, spins, completion, sq, cq, sq_doorbell, controllerVars,
                 historyVars>>

------------------------------------------------------------------------------
(* The controller (external) *)

\* Fetch the next command the tail doorbell announces.
Fetch ==
  /\ sq_head # sq_doorbell
  /\ inflight' = inflight \cup {sq[sq_head]}
  /\ fetched' = sq[sq_head].serial
  /\ sq_head' = NextSlot(sq_head)
  /\ UNCHANGED <<driverVars, sq, cq, sq_doorbell, cq_doorbell, cq_tail,
                 cq_phase, issued, posted, consumed, timeouts>>

\* Finish some command and post its completion, unless the ring is full.
Post(command) ==
  /\ NextSlot(cq_tail) # cq_doorbell
  /\ inflight' = inflight \ {command}
  /\ cq' = [cq EXCEPT ![cq_tail] =
              [serial |-> command.serial, cid |-> command.cid,
               phase |-> cq_phase, seq |-> posted + 1]]
  /\ cq_tail' = NextSlot(cq_tail)
  /\ cq_phase' = FlipAtWrap(cq_phase, NextSlot(cq_tail))
  /\ posted' = posted + 1
  /\ UNCHANGED <<driverVars, sq, sq_doorbell, cq_doorbell, sq_head, issued,
                 fetched, consumed, timeouts>>

------------------------------------------------------------------------------
Driver ==
  \/ WriteSubmissionEntry
  \/ RingSubmissionDoorbell
  \/ PollAgain
  \/ TimeOut
  \/ TakeCompletion
  \/ Return

Controller == Fetch \/ \E command \in inflight : Post(command)

Next == Driver \/ Controller

Spec == Init /\ [][Next]_vars

\* A call that has started is carried on; nothing is assumed of the controller,
\* nor that another command is ever submitted.
CallStep == RingSubmissionDoorbell \/ PollAgain \/ TimeOut \/ TakeCompletion
              \/ Return
FairSpec == Spec /\ WF_vars(CallStep)

------------------------------------------------------------------------------
(* Properties *)

\* The type invariant.  The indices stay within their rings and the cids within
\* 16 bits, although nothing but the two remainders bounds them.
TypeOK ==
  /\ submission_tail \in Slots
  /\ completion_head \in Slots
  /\ completion_phase \in BOOLEAN
  /\ next_cid \in Cids
  /\ pc \in {"idle", "ring", "poll", "return"}
  /\ cid \in Cids
  /\ spins \in Nat
  /\ completion \in CompletionQueueEntry
  /\ outcome \in {"none", "ok", "mismatch", "timeout"}
  /\ sq \in [Slots -> SubmissionQueueEntry]
  /\ cq \in [Slots -> CompletionQueueEntry]
  /\ sq_doorbell \in Slots
  /\ cq_doorbell \in Slots
  /\ sq_head \in Slots
  /\ cq_tail \in Slots
  /\ cq_phase \in BOOLEAN
  /\ inflight \in SUBSET SubmissionQueueEntry
  /\ issued \in Nat
  /\ fetched \in Nat
  /\ posted \in Nat
  /\ consumed \in Nat
  /\ timeouts \in Nat

\* The phase tag is an exact test: a poll matches when and only when a
\* completion is waiting, and the entry it finds is the oldest one waiting.  So
\* no completion is skipped, taken twice, or overlooked by a call that times
\* out, across every wrap of the ring.
PhaseTagExact ==
  pc = "poll" =>
    /\ Matches <=> consumed < posted
    /\ Matches => cq[completion_head].seq = consumed + 1

\* A call returns Ok with the completion of its own command, unless that
\* completion belongs to a command that was left behind for a whole round of
\* command identifiers.
AcceptedIsOwn ==
  pc = "idle" /\ outcome = "ok" =>
    \/ completion.serial = issued
    \/ issued - completion.serial >= CID_SPACE

\* The commands the doorbell has announced.
Announced == IF pc = "ring" THEN issued - 1 ELSE issued

\* The controller fetches every announced command once, in order, as written,
\* as long as fewer than QUEUE_DEPTH - 1 calls have timed out: submit_and_wait
\* never tests for a full submission ring.
FetchesInOrder ==
  timeouts < QUEUE_DEPTH - 1 =>
    IF sq_head = sq_doorbell
      THEN fetched = Announced
      ELSE sq[sq_head].serial = fetched + 1

\* The cid error can only be the late consequence of an earlier timeout.
MismatchOnlyAfterTimeout == outcome = "mismatch" => timeouts > 0

\* Every call returns, whatever the controller does: the poll loop is bounded.
CallReturns == pc # "idle" ~> pc = "idle"

------------------------------------------------------------------------------
(* The inductive invariant *)

\* Where both sides are on the completion ring.  The slots below the
\* controller's tail carry the tag of its current lap and the others that of the
\* lap before; the driver is on the same lap behind the tail, or on the lap
\* before and ahead of it.  Entries are numbered consecutively up to the tail.
\* The doorbell trails the head by the entry a call is about to give back.
CompletionRing ==
  /\ \A i \in Slots : cq[i].phase = cq_phase <=> i < cq_tail
  /\ \A i \in Slots :
       i < cq_tail => cq[i].seq = posted - (cq_tail - 1 - i)
  /\ completion_phase # cq_phase =>
       \A i \in Slots :
         i >= cq_tail => cq[i].seq = posted - cq_tail - (QUEUE_DEPTH - 1 - i)
  /\ IF completion_phase = cq_phase
       THEN /\ completion_head <= cq_tail
            /\ posted - consumed = cq_tail - completion_head
       ELSE /\ completion_head > cq_tail
            /\ posted - consumed = QUEUE_DEPTH + cq_tail - completion_head
  /\ completion_head = IF pc = "return" THEN NextSlot(cq_doorbell)
                                        ELSE cq_doorbell
  /\ posted - consumed + (IF pc = "return" THEN 1 ELSE 0) < QUEUE_DEPTH
  /\ pc = "return" => completion.seq = consumed /\ consumed > 0

\* Each call takes one completion unless it times out.
OneCompletionPerCall ==
  issued = consumed + timeouts + (IF pc \in {"ring", "poll"} THEN 1 ELSE 0)

\* An entry that carries a command carries its cid.
Stamped(e) ==
  /\ e.serial <= issued
  /\ e.serial > 0 => e.cid = (e.serial - 1) % CID_SPACE

\* The cid is the serial modulo CID_SPACE everywhere, and the slots announced to
\* the controller, the commands in flight and the completions carry commands.
CidsFollowSerials ==
  /\ next_cid = issued % CID_SPACE
  /\ issued > 0 => cid = (issued - 1) % CID_SPACE
  /\ sq_doorbell = submission_tail
  /\ pc = "ring" => sq[submission_tail].serial = issued
  /\ pc # "idle" => issued > 0
  /\ \A i \in Slots : Stamped(sq[i]) /\ Stamped(cq[i])
  /\ \A i \in Between(sq_head, sq_doorbell) : sq[i].serial > 0
  /\ \A command \in inflight : Stamped(command) /\ command.serial > 0
  /\ \A i \in Slots : cq[i].seq > 0 => cq[i].serial > 0
  /\ Stamped(completion)
  /\ completion.seq > 0 => completion.serial > 0

\* Until the submission ring can be overrun, its announced slots hold the
\* commands after the last one fetched, in order, and every command fetched is
\* in flight or posted.
SubmissionRing ==
  timeouts < QUEUE_DEPTH - 1 =>
    /\ Announced - fetched = IF sq_head <= sq_doorbell
                               THEN sq_doorbell - sq_head
                               ELSE QUEUE_DEPTH + sq_doorbell - sq_head
    /\ \A i \in Between(sq_head, sq_doorbell) :
         sq[i].serial = fetched + 1 + (IF i >= sq_head
                                         THEN i - sq_head
                                         ELSE QUEUE_DEPTH + i - sq_head)
    /\ \A command \in inflight : command.serial <= fetched
    /\ IsFiniteSet(inflight)
    /\ Cardinality(inflight) = fetched - posted

\* Before the first timeout at most the current command is outstanding.
OneOutstanding ==
  timeouts = 0 =>
    /\ \A command \in inflight : command.serial = issued
    /\ \A i \in Slots : cq[i].serial = cq[i].seq
    /\ completion.serial = completion.seq

\* What submit_and_wait and the controller keep between them, strong enough to be
\* preserved by every step.
InductiveInvariant ==
  /\ TypeOK
  /\ CompletionRing
  /\ OneCompletionPerCall
  /\ CidsFollowSerials
  /\ SubmissionRing
  /\ OneOutstanding
  /\ AcceptedIsOwn
  /\ MismatchOnlyAfterTimeout

------------------------------------------------------------------------------
(* Refinement: the rings implement the channel of CommandChannel. *)

Unfinished ==
  {sq[i].serial : i \in Between(sq_head, sq_doorbell)}
    \cup {command.serial : command \in inflight}
    \cup (IF pc = "ring" THEN {issued} ELSE {})

\* Serials of the completions waiting, oldest first: a completion taken by a
\* call counts as waiting until the call returns.
WaitingInRing ==
  [k \in 1 .. posted - consumed |->
     cq[(completion_head + k - 1) % QUEUE_DEPTH].serial]
Waiting == IF pc = "return" THEN <<completion.serial>> \o WaitingInRing
                            ELSE WaitingInRing

Channel == INSTANCE CommandChannel WITH
             calling <- pc # "idle",
             pending <- Unfinished,
             completions <- Waiting,
             LossThreshold <- QUEUE_DEPTH - 1

\* The queue pair behaves like the channel: completions come back first in,
\* first out, each for a command handed over and not answered before, and a
\* command is lost only once QUEUE_DEPTH - 1 calls have timed out.
ImplementsChannel == Channel!Spec
=============================================================================
