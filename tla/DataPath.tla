------------------------------- MODULE DataPath -------------------------------
(***************************************************************************)
(* read, write and identify of NvmeUserspaceDriver (src/src/nvmetoy.rs)    *)
(* after open has returned: two queue pairs that share one data area and   *)
(* one PRP list in the DMA region, and a controller that moves the data.   *)
(*                                                                         *)
(* Each queue pair is the CommandChannel that QueuePair implements.  The   *)
(* driver is single threaded: one call at a time, on one of the queues.    *)
(* The controller moves the blocks of the commands it holds one by one, in *)
(* any order, also those of commands whose call has timed out.             *)
(*                                                                         *)
(* Data is counted in blocks; namespace_block_size was learnt by open and  *)
(* is cached, so read and write issue no Identify of their own.            *)
(***************************************************************************)
EXTENDS Integers, Sequences, FiniteSets

CONSTANTS
  DEVICE_BLOCKS,      \* blocks of the namespace
  Contents,           \* contents the caller may write to a block
  Blank,              \* contents of a block before any write
  IdentifyData,       \* what Identify leaves in a block of the data area
  DATA_PAGES,         \* pages of the data area (507 in the code)
  BLOCKS_PER_PAGE,    \* 4096 / block size
  PRP_LIST_CAPACITY,  \* entries of the PRP list page (512)
  CID_SPACE, LossThreshold,  \* of the queue pairs
  Slbas, Counts,      \* the starting blocks and block counts callers ask for
  MaxIo, MaxAdmin     \* bounds of the model: commands per queue

ASSUME DeviceAssumption == DEVICE_BLOCKS \in Nat \ {0}
ASSUME ContentsAssumption == Blank # IdentifyData
ASSUME LayoutAssumption ==
  /\ DATA_PAGES \in Nat \ {0}
  /\ BLOCKS_PER_PAGE \in Nat \ {0}
  /\ PRP_LIST_CAPACITY \in Nat
ASSUME PrpListAssumption == DATA_PAGES - 1 <= PRP_LIST_CAPACITY
ASSUME RequestsAssumption == Slbas \subseteq Nat /\ Counts \subseteq Nat
ASSUME LossAssumption == LossThreshold \in Nat \ {0}
ASSUME BoundAssumption == MaxIo \in Nat /\ MaxAdmin \in Nat

VARIABLES
  storage,    \* contents of the namespace's blocks
  buffer,     \* the data area of the DMA region, by block
  prp_list,   \* the PRP list page: page numbers in the data area, 0 = unset
  pc, call, result, output,  \* the driver's current or last call
  before,     \* history: storage when the call in progress began
  moves,      \* blocks still to be moved, with the command each is part of
  failed,     \* completions with an error status: <<queue, serial>>
  a_calling, a_issued, a_pending, a_completions, a_timeouts, a_outcome,
  io_calling, io_issued, io_pending, io_completions, io_timeouts, io_outcome

memoryVars == <<storage, buffer, prp_list>>
callVars == <<pc, call, result, output, before>>
commandVars == <<moves, failed>>
adminVars == <<a_calling, a_issued, a_pending, a_completions, a_timeouts,
               a_outcome>>
ioVars == <<io_calling, io_issued, io_pending, io_completions, io_timeouts,
            io_outcome>>
vars == <<memoryVars, callVars, commandVars, adminVars, ioVars>>

Admin == INSTANCE CommandChannel WITH
  calling <- a_calling, issued <- a_issued, pending <- a_pending,
  completions <- a_completions, timeouts <- a_timeouts,
  outcome <- a_outcome, MaxCommands <- MaxAdmin
Io == INSTANCE CommandChannel WITH
  calling <- io_calling, issued <- io_issued, pending <- io_pending,
  completions <- io_completions, timeouts <- io_timeouts,
  outcome <- io_outcome, MaxCommands <- MaxIo

Blocks == 0 .. DEVICE_BLOCKS - 1
MAX_TRANSFER == DATA_PAGES * BLOCKS_PER_PAGE
DataArea == 0 .. MAX_TRANSFER - 1
FirstPage == 0 .. BLOCKS_PER_PAGE - 1
BlockContents == Contents \cup {Blank, IdentifyData}
PrpList == 0 .. PRP_LIST_CAPACITY - 1

PagesFor(count) == (count + BLOCKS_PER_PAGE - 1) \div BLOCKS_PER_PAGE

NoCall == [op |-> "none", slba |-> 0, count |-> 0, data |-> << >>]

\* open has just returned: its two Identify commands went through the first
\* page of the data area.  Serials count from here.
Init ==
  /\ storage = [b \in Blocks |-> Blank]
  /\ buffer = [i \in DataArea |->
                 IF i \in FirstPage THEN IdentifyData ELSE Blank]
  /\ prp_list = [i \in PrpList |-> 0]
  /\ pc = "idle"
  /\ call = NoCall
  /\ result = "none"
  /\ output = << >>
  /\ before = << >>
  /\ moves = {}
  /\ failed = {}
  /\ Admin!Init
  /\ Io!Init

------------------------------------------------------------------------------
(* data_pointers *)

\* Mutants: the list starts with the data area's first page, or with its third.
ListFromThirdPage(count) ==
  [i \in PrpList |-> IF PagesFor(count) > 2 /\ i < PagesFor(count) - 1
                       THEN i + 2 ELSE prp_list[i]]
ListFromFirstPage(count) ==
  [i \in PrpList |-> IF PagesFor(count) > 2 /\ i < PagesFor(count) - 1
                       THEN i ELSE prp_list[i]]

\* The PRP list after the pointers of a transfer were set up: more than two
\* pages need it, and its i-th entry is page i + 1.
ListFor(count) ==
  [i \in PrpList |-> IF PagesFor(count) > 2 /\ i < PagesFor(count) - 1
                       THEN i + 1 ELSE prp_list[i]]

\* What PRP2 holds: PRP1 is always the first page of the data area.
Prp2For(count) == IF PagesFor(count) <= 1 THEN "unused"
                  ELSE IF PagesFor(count) = 2 THEN "second_page"
                  ELSE "list"

------------------------------------------------------------------------------
(* read, write, identify: up to the submission *)

\* A call that ends before it has submitted anything.
Refuse ==
  /\ result' = "error"
  /\ call' = NoCall
  /\ UNCHANGED <<pc, before, memoryVars>>

\* A call that goes on to submit a command.
Proceed(c) ==
  /\ result' = "pending"
  /\ call' = c
  /\ pc' = "submit"
  /\ before' = storage
  /\ UNCHANGED storage

BeginCall ==
  /\ pc = "idle"
  /\ output' = << >>
  /\ UNCHANGED <<commandVars, adminVars, ioVars>>

ReadCall(slba, count) ==
  [op |-> "read", slba |-> slba, count |-> count, data |-> << >>]
WriteCall(slba, data) ==
  [op |-> "write", slba |-> slba, count |-> Len(data), data |-> data]
IdentifyCall == [op |-> "identify", slba |-> 0, count |-> 1, data |-> << >>]

Read(slba, count) ==
  /\ io_issued < MaxIo
  /\ BeginCall
  /\ IF count = 0 \/ count > MAX_TRANSFER
       THEN Refuse
       ELSE /\ prp_list' = ListFor(count)
            /\ Proceed(ReadCall(slba, count))
            /\ UNCHANGED buffer

\* ragged: the length is not a multiple of the block size.
Write(slba, data, ragged) ==
  /\ io_issued < MaxIo
  /\ BeginCall
  /\ IF data = << >> \/ ragged \/ Len(data) > MAX_TRANSFER
       THEN Refuse
       ELSE /\ buffer' = [i \in DataArea |-> IF i < Len(data) THEN data[i + 1]
                                                              ELSE buffer[i]]
            /\ prp_list' = ListFor(Len(data))
            /\ Proceed(WriteCall(slba, data))

Identify ==
  /\ a_issued < MaxAdmin
  /\ BeginCall
  /\ Proceed(IdentifyCall)
  /\ UNCHANGED <<buffer, prp_list>>

------------------------------------------------------------------------------
(* submit_and_wait on one of the queues, and what is made of its answer *)

\* The command built from the call (nvme_read, nvme_write, nvme_identify).
Command == [op |-> call.op, slba |-> call.slba, prp2 |-> Prp2For(call.count)]

SubmitTo(queue, serial) ==
  /\ moves' = moves \cup {[queue |-> queue, serial |-> serial, k |-> k,
                           command |-> Command] : k \in 0 .. call.count - 1}
  /\ pc' = "wait"
  /\ UNCHANGED <<failed, memoryVars, call, result, output, before>>

SubmitIo ==
  /\ pc = "submit" /\ call.op # "identify"
  /\ Io!Issue
  /\ SubmitTo("io", io_issued + 1)
  /\ UNCHANGED adminVars

SubmitAdmin ==
  /\ pc = "submit" /\ call.op = "identify"
  /\ Admin!Issue
  /\ SubmitTo("admin", a_issued + 1)
  /\ UNCHANGED ioVars

\* Mutant: the completion's status is not looked at.
Unchecked(queue, serial, outcome) == IF outcome # "ok" THEN "error" ELSE "ok"

\* submit_and_wait()? and then check()?
Checked(queue, serial, outcome) ==
  IF outcome # "ok" \/ <<queue, serial>> \in failed THEN "error" ELSE "ok"

EndCall(r) ==
  /\ pc' = "idle"
  /\ result' = r
  /\ before' = << >>

\* A write ends with its answer; the others go on to copy the data out.
Finish(queue, serial, outcome) ==
  /\ IF Checked(queue, serial, outcome) = "ok" /\ call.op # "write"
       THEN pc' = "copy" /\ UNCHANGED <<result, before>>
       ELSE EndCall(Checked(queue, serial, outcome))
  /\ failed' = failed \ {<<queue, serial>>}
  /\ UNCHANGED <<memoryVars, moves, call, output>>

AnswerIo ==
  /\ pc = "wait"
  /\ Io!Answer
  /\ Finish("io", Head(io_completions), io_outcome')
  /\ UNCHANGED adminVars

AnswerAdmin ==
  /\ pc = "wait"
  /\ Admin!Answer
  /\ Finish("admin", Head(a_completions), a_outcome')
  /\ UNCHANGED ioVars

\* The call times out: an error for the caller, the command stays outstanding.
TimeOut ==
  /\ pc = "wait"
  /\ \/ Io!GiveUp /\ UNCHANGED adminVars
     \/ Admin!GiveUp /\ UNCHANGED ioVars
  /\ EndCall("error")
  /\ UNCHANGED <<memoryVars, commandVars, call, output>>

\* read_bytes from the start of the data area.  What identify returns is told by
\* its first block.
CopyOut ==
  /\ pc = "copy"
  /\ output' = [k \in 1 .. call.count |-> buffer[k - 1]]
  /\ EndCall("ok")
  /\ UNCHANGED <<memoryVars, commandVars, adminVars, ioVars, call>>

------------------------------------------------------------------------------
(* The controller (external) *)

Pending(queue) == IF queue = "io" THEN io_pending ELSE a_pending

\* The page of the data area that PRP1, PRP2 or the PRP list give for a page of
\* the transfer.
PageAt(command, page) == IF page = 0 THEN 0
                         ELSE IF command.prp2 = "second_page" THEN 1
                         ELSE prp_list[page - 1]

\* Where in the data area a command's k-th block is.
PlaceOf(command, k) ==
  PageAt(command, k \div BLOCKS_PER_PAGE) * BLOCKS_PER_PAGE
    + (k % BLOCKS_PER_PAGE)

\* Move one block of a command the controller holds.
Move(m) ==
  LET block == m.command.slba + m.k
      place == PlaceOf(m.command, m.k)
  IN /\ m.serial \in Pending(m.queue)
     /\ \/ /\ m.command.op = "read" /\ block \in Blocks
           /\ buffer' = [buffer EXCEPT ![place] = storage[block]]
           /\ UNCHANGED storage
        \/ /\ m.command.op = "write" /\ block \in Blocks
           /\ storage' = [storage EXCEPT ![block] = buffer[place]]
           /\ UNCHANGED buffer
        \/ /\ m.command.op = "identify"
           /\ buffer' = [i \in DataArea |-> IF i \in FirstPage THEN IdentifyData
                                                               ELSE buffer[i]]
           /\ UNCHANGED storage
     /\ moves' = moves \ {m}
     /\ UNCHANGED <<prp_list, callVars, failed, adminVars, ioVars>>

MovesOf(queue, serial) == {m \in moves : m.queue = queue /\ m.serial = serial}

\* A command ends: with success once all its blocks are moved, with an error
\* status at any time.
Ends(queue, serial) ==
  /\ moves' = moves \ MovesOf(queue, serial)
  /\ \/ MovesOf(queue, serial) = {} /\ UNCHANGED failed
     \/ failed' = failed \cup {<<queue, serial>>}
  /\ UNCHANGED <<memoryVars, callVars>>

CompleteIo(serial) ==
  /\ Io!Complete(serial) /\ Ends("io", serial) /\ UNCHANGED adminVars
CompleteAdmin(serial) ==
  /\ Admin!Complete(serial) /\ Ends("admin", serial) /\ UNCHANGED ioVars

\* An overrun submission ring forgets commands.
Lose ==
  /\ pc = "wait"
  /\ \/ Io!Lose /\ UNCHANGED adminVars
     \/ Admin!Lose /\ UNCHANGED ioVars
  /\ moves' = {m \in moves : m.serial \in Pending(m.queue)'}
  /\ UNCHANGED <<memoryVars, callVars, failed>>

------------------------------------------------------------------------------
Caller ==
  \/ \E slba \in Slbas, count \in Counts : Read(slba, count)
  \/ \E slba \in Slbas, count \in Counts, ragged \in BOOLEAN :
       \E data \in [1 .. count -> Contents] : Write(slba, data, ragged)
  \/ Identify

Driver == SubmitIo \/ SubmitAdmin \/ AnswerIo \/ AnswerAdmin \/ TimeOut
            \/ CopyOut

Controller ==
  \/ \E m \in moves : Move(m)
  \/ \E serial \in io_pending : CompleteIo(serial)
  \/ \E serial \in a_pending : CompleteAdmin(serial)
  \/ Lose

Next == Caller \/ Driver \/ Controller

Spec == Init /\ [][Next]_vars

------------------------------------------------------------------------------
(* Properties *)

\* Calls and commands are what the driver builds, and memory holds contents.
TypeOK ==
  /\ storage \in [Blocks -> BlockContents]
  /\ buffer \in [DataArea -> BlockContents]
  /\ prp_list \in [PrpList -> 0 .. DATA_PAGES - 1]
  /\ pc \in {"idle", "submit", "wait", "copy"}
  /\ call.op \in {"none", "read", "write", "identify"}
  /\ result \in {"none", "pending", "ok", "error"}
  /\ a_pending \subseteq 1 .. a_issued
  /\ io_pending \subseteq 1 .. io_issued
  /\ \A m \in moves : m.serial \in Pending(m.queue)

\* Every block still to be moved is moved to or from its own place in the data
\* area, also for commands whose call has timed out: later calls rewrite the one
\* PRP list, but never with a different page.
PrpListStable ==
  \A m \in moves : PlaceOf(m.command, m.k) = m.k

\* The pointers of a command give the right page of the data area.
Reaches(prp2, page) ==
  \/ page = 0
  \/ prp2 = "second_page" /\ page = 1
  \/ prp2 = "list" /\ page - 1 \in PrpList /\ prp_list[page - 1] = page

\* Why PrpListStable is kept: the pointers of the call about to submit are set
\* up for all its blocks, and so are those of every block to be moved.
PointersInvariant ==
  /\ prp_list \in [PrpList -> 0 .. DATA_PAGES - 1]
  /\ pc = "submit" =>
       /\ call.count \in Nat
       /\ \A k \in 0 .. call.count - 1 :
            Reaches(Prp2For(call.count), k \div BLOCKS_PER_PAGE)
  /\ \A m \in moves :
       m.k \in Nat /\ Reaches(m.command.prp2, m.k \div BLOCKS_PER_PAGE)

TimedOut == a_timeouts + io_timeouts > 0

Store == INSTANCE BlockStore WITH
  store <- IF result = "pending" THEN before ELSE storage,
  broken <- TimedOut

\* Until a command times out the driver is an array of blocks: calls take effect
\* at once and completely, errors leave each block old or new.
ImplementsStore == Store!Spec

\* A write that returned Ok has put its data on the device.
OkWriteStored ==
  pc = "idle" /\ result = "ok" /\ call.op = "write" =>
    \A k \in 1 .. call.count : storage[call.slba + k - 1] = call.data[k]
=============================================================================
