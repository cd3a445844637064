------------------------------- MODULE BringUp --------------------------------
(***************************************************************************)
(* NvmeUserspaceDriver::open of src/src/nvmetoy.rs: take over a controller *)
(* that no kernel driver holds, reset it, give it the admin queues, enable *)
(* it, and create the I/O queue pair with admin commands; then the life of *)
(* the driver until it is dropped.  Every step may fail, and every failure *)
(* after the DMA region exists drops the driver: the region is unmapped    *)
(* and the controller is left as it is.  The process may be killed at any  *)
(* step, and another one opens the controller in the state it was left in. *)
(*                                                                         *)
(* The controller is external: CSTS.RDY follows CC.EN in its own time,     *)
(* CSTS.CFS may come up at any time, and admin commands are answered with  *)
(* success or an error status, late, or never.                             *)
(***************************************************************************)
EXTENDS Integers

CONSTANTS
  MAX_POLLS,    \* polls of CSTS before wait_ready gives up (1000)
  EntrySizes,   \* SQES and CQES bytes a controller may report
  QueueLimits   \* I/O queue entries a controller may support (CAP.MQES + 1)

ASSUME MaxPollsAssumption == MAX_POLLS \in Nat \ {0}
ASSUME EntrySizesAssumption == EntrySizes \subseteq 0 .. 255
ASSUME QueueLimitsAssumption == QueueLimits \subseteq Nat

IO_SUBMISSION_ENTRY_SIZE_EXPONENT == 6
IO_COMPLETION_ENTRY_SIZE_EXPONENT == 4
QUEUE_DEPTH == 64

VARIABLES
  pc,           \* the step open is at
  result,       \* what open returned
  polls,        \* of wait_ready
  region,       \* the DMA region: "none", "mapped", "unmapped", "leaked"
  block_size_known,   \* block_sizes holds the namespace
  answer,       \* the completion waiting in the region: its status
  device,       \* as it is found: kernel_driver, sqes, cqes, queue_limit
  bus_master,   \* the device may access memory
  en, rdy, cfs, \* CC.EN, CSTS.RDY, CSTS.CFS
  queues,       \* whose admin, io_cq and io_sq the controller uses
  outstanding,  \* the admin command the controller holds
  abandoned,    \* nobody waits for it: a timeout, or its process was killed
  stale         \* it was submitted by an earlier process

processVars == <<pc, result, polls, region, block_size_known, answer>>
registerVars == <<device, bus_master, en, rdy, cfs>>
commandVars == <<queues, outstanding, stale, abandoned>>
vars == <<processVars, registerVars, commandVars>>

NoQueues == [admin |-> "none", io_cq |-> "none", io_sq |-> "none"]

StartProcess(p, r, n, mem, known, a) ==
  /\ p = "check_driver" /\ r = "none" /\ n = 0
  /\ mem = "none" /\ known = FALSE /\ a = "none"

\* The controller may be found enabled, on queues of an earlier owner.
Init ==
  /\ StartProcess(pc, result, polls, region, block_size_known, answer)
  /\ device \in [kernel_driver : {"none", "nvme", "other"}, sqes : EntrySizes,
                 cqes : EntrySizes, queue_limit : QueueLimits]
  /\ bus_master \in BOOLEAN
  /\ en \in BOOLEAN /\ rdy = en
  /\ cfs \in BOOLEAN
  /\ queues = [NoQueues EXCEPT !.admin = IF en THEN "old" ELSE "none"]
  /\ outstanding = "none" /\ stale = FALSE
  /\ abandoned = FALSE

------------------------------------------------------------------------------
(* open *)

\* Leave open; from the region on, dropping the driver unmaps it.
Drop == region' = IF region = "mapped" THEN "unmapped" ELSE region

Fail ==
  /\ result' = "error"
  /\ pc' = "closed"
  /\ Drop

Step(next) == pc' = next /\ UNCHANGED <<result, region>>

RefuseIfKernelDriverBound ==
  /\ pc = "check_driver"
  /\ \/ device.kernel_driver # "nvme" /\ Step("bus_master")
     \/ Fail
  /\ UNCHANGED <<polls, block_size_known, answer, registerVars, commandVars>>

\* The command register of the device is written; nothing ever clears it again.
EnableBusMaster ==
  /\ pc = "bus_master"
  /\ \/ bus_master' = TRUE /\ Step("map")
     \/ UNCHANGED bus_master /\ Fail
  /\ UNCHANGED <<polls, block_size_known, answer, device, en, rdy, cfs,
                 commandVars>>

\* NvmeBar::map; leaving open drops the mapping.
MapBar ==
  /\ pc = "map"
  /\ Step("alloc") \/ Fail
  /\ UNCHANGED <<polls, block_size_known, answer, registerVars, commandVars>>

\* alloc_huge unmaps what it has mapped when mlock fails, but not when the
\* pagemap cannot be read.
AllocHuge ==
  /\ pc = "alloc"
  /\ \/ region' = "mapped" /\ pc' = "clear_EN" /\ UNCHANGED result
     \/ region' \in {"none", "leaked"} /\ result' = "error" /\ pc' = "closed"
  /\ UNCHANGED <<polls, block_size_known, answer, registerVars, commandVars>>

\* reset_and_enable: CC.EN is cleared.
ClearEnable ==
  /\ pc = "clear_EN"
  /\ en' = FALSE
  /\ polls' = 0
  /\ Step("wait_not_ready")
  /\ UNCHANGED <<block_size_known, answer, device, bus_master, rdy, cfs,
                 commandVars>>

\* Mutants: any status will do; a poll is not counted; one poll too many.
AnyStatus(want) == TRUE
SamePoll == polls
OnePollMore(n) == n > MAX_POLLS

Wanted(want) == rdy = want
NextPoll == polls + 1
LastPoll(n) == n = MAX_POLLS

\* One poll of wait_ready: fatal status, the wanted RDY, or another poll as long
\* as there are any left.
WaitReady(want, next) ==
  /\ \/ cfs /\ Fail /\ UNCHANGED polls
     \/ ~cfs /\ Wanted(want) /\ Step(next) /\ UNCHANGED polls
     \/ /\ ~cfs /\ ~Wanted(want)
        /\ polls' = NextPoll
        /\ IF LastPoll(NextPoll) THEN Fail ELSE Step(pc)
  /\ UNCHANGED <<block_size_known, answer, registerVars, commandVars>>

WaitNotReady == pc = "wait_not_ready" /\ WaitReady(FALSE, "program")

\* AQA, ASQ and ACQ, then CC.EN with the entry sizes.
ProgramAndEnable ==
  /\ pc = "program"
  /\ queues' = [queues EXCEPT !.admin = "own"]
  /\ en' = TRUE
  /\ polls' = 0
  /\ Step("wait_ready")
  /\ UNCHANGED <<block_size_known, answer, device, bus_master, rdy, cfs,
                 outstanding, stale, abandoned>>

WaitReadyAgain == pc = "wait_ready" /\ WaitReady(TRUE, "identify_controller")

\* The admin commands of open, in order.
Commands == {"identify_controller", "create_cq", "create_sq",
             "identify_namespace"}
After(command) ==
  CASE command = "identify_controller" -> "create_cq"
    [] command = "create_cq" -> "create_sq"
    [] command = "create_sq" -> "identify_namespace"
    [] command = "identify_namespace" -> "open"

\* Mutant: open does not wait for the Identify of its prelude.
PreludeNotAwaited ==
  /\ pc \in Commands
  /\ outstanding = "none" /\ answer = "none"
  /\ outstanding' = pc
  /\ Step(IF pc = "identify_namespace" THEN After(pc) ELSE pc)
  /\ UNCHANGED <<polls, block_size_known, answer, registerVars, queues, stale,
                 abandoned>>

Submit ==
  /\ pc \in Commands
  /\ outstanding = "none" /\ answer = "none"
  /\ outstanding' = pc
  /\ UNCHANGED <<processVars, registerVars, queues, stale, abandoned>>

\* Low nibble: the required exponent; high nibble: the largest.
Admits(sizes, exponent) == sizes % 16 <= exponent /\ exponent <= sizes \div 16

\* check_queue_entry_sizes, once Identify Controller has succeeded.
EntrySizesAccepted ==
  /\ Admits(device.sqes, IO_SUBMISSION_ENTRY_SIZE_EXPONENT)
  /\ Admits(device.cqes, IO_COMPLETION_ENTRY_SIZE_EXPONENT)

\* Mutant: the status of the completion is not looked at.
NeverRefused == FALSE

\* check(): the completion carries an error status.
Refused == answer = "error"

\* submit_and_wait returns the completion; check() and the caller go on.
TakeAnswer ==
  /\ pc \in Commands
  /\ answer # "none"
  /\ answer' = "none"
  /\ IF Refused \/ (pc = "identify_controller" /\ ~EntrySizesAccepted)
       THEN Fail /\ UNCHANGED block_size_known
       ELSE /\ pc' = After(pc)
            /\ result' = IF pc' = "open" THEN "ok" ELSE result
            /\ block_size_known' = (pc = "identify_namespace")
            /\ UNCHANGED region
  /\ UNCHANGED <<polls, registerVars, commandVars>>

\* submit_and_wait times out: the command is left behind and open fails.
GiveUp ==
  /\ pc \in Commands
  /\ outstanding # "none"
  /\ abandoned' = TRUE
  /\ Fail
  /\ UNCHANGED <<polls, block_size_known, answer, registerVars, queues,
                 outstanding, stale>>

\* The REPL leaves and drops the driver.  Nothing disables the controller.
Close ==
  /\ pc = "open"
  /\ pc' = "closed"
  /\ Drop
  /\ UNCHANGED <<result, polls, block_size_known, answer, registerVars,
                 commandVars>>

\* A signal ends the process at any step: no destructor runs, the kernel takes
\* the region back.
Kill ==
  /\ pc # "closed"
  /\ Fail
  /\ abandoned' = (outstanding # "none")
  /\ UNCHANGED <<polls, block_size_known, answer, registerVars, queues,
                 outstanding, stale>>

\* Another process opens the controller that the last one left behind.
Restart ==
  /\ pc = "closed"
  /\ StartProcess(pc', result', polls', region', block_size_known', answer')
  /\ queues' = [q \in DOMAIN queues |->
                  IF queues[q] = "own" THEN "old" ELSE queues[q]]
  /\ stale' = (outstanding # "none")
  /\ UNCHANGED <<registerVars, outstanding, abandoned>>

------------------------------------------------------------------------------
(* The controller (external) *)

\* RDY follows EN; once it is down, queues and commands are gone.
BecomeReady ==
  /\ rdy # en
  /\ rdy' = en
  /\ IF en THEN UNCHANGED commandVars
           ELSE /\ queues' = NoQueues
                /\ outstanding' = "none"
                /\ abandoned' = FALSE /\ stale' = FALSE
  /\ UNCHANGED <<processVars, device, bus_master, en, cfs>>

GoFatal ==
  /\ ~cfs
  /\ cfs' = TRUE
  /\ UNCHANGED <<processVars, commandVars, device, bus_master, en, rdy>>

\* The queue a command creates.
Created(command) == CASE command = "create_cq" -> {"io_cq"}
                      [] command = "create_sq" -> {"io_sq"}
                      [] OTHER -> {}

\* An admin command is carried out, or refused; queues are of a size the
\* controller has, and a submission queue needs its completion queue.  The answer
\* to a process that is gone is lost.
Execute ==
  /\ outstanding # "none"
  /\ rdy /\ queues.admin # "none" /\ ~cfs
  /\ \E status \in {"success", "error"} :
       /\ status = "success" =>
            /\ Created(outstanding) # {} => QUEUE_DEPTH <= device.queue_limit
            /\ outstanding = "create_sq" => queues.io_cq # "none"
       /\ queues' = [q \in DOMAIN queues |->
                       IF status = "success" /\ q \in Created(outstanding)
                         THEN IF stale THEN "old" ELSE "own"
                         ELSE queues[q]]
       /\ answer' = IF stale \/ pc = "closed" THEN answer ELSE status
  /\ outstanding' = "none" /\ abandoned' = FALSE /\ stale' = FALSE
  /\ UNCHANGED <<pc, result, polls, region, block_size_known, registerVars>>

------------------------------------------------------------------------------
Driver ==
  \/ RefuseIfKernelDriverBound \/ EnableBusMaster \/ MapBar \/ AllocHuge
  \/ ClearEnable \/ WaitNotReady
  \/ ProgramAndEnable \/ WaitReadyAgain \/ Submit \/ TakeAnswer \/ GiveUp

Next ==
  \/ Driver \/ Close \/ Kill \/ Restart
  \/ BecomeReady \/ GoFatal \/ Execute

Spec == Init /\ [][Next]_vars

\* open keeps running; nothing is assumed of the controller.
FairSpec == Spec /\ WF_vars(Driver)

------------------------------------------------------------------------------
(* Properties *)

\* The type invariant; wait_ready polls at most MAX_POLLS times.
TypeOK ==
  /\ pc \in {"check_driver", "bus_master", "map", "alloc", "clear_EN",
             "wait_not_ready", "program", "wait_ready", "open", "closed"}
              \cup Commands
  /\ result \in {"none", "ok", "error"}
  /\ polls \in 0 .. MAX_POLLS
  /\ region \in {"none", "mapped", "unmapped", "leaked"}
  /\ queues \in [{"admin", "io_cq", "io_sq"} -> {"none", "own", "old"}]
  /\ outstanding \in Commands \cup {"none"}
  /\ answer \in {"none", "success", "error"}

\* The admin queue registers are written only while the controller is disabled
\* and has said so.
ProgrammedWhileDisabled == pc = "program" => ~en /\ ~rdy

\* This process's commands are with the controller only once that has come up on
\* this process's admin queues and may fetch them from memory.
CommandsWhenReady ==
  outstanding # "none" /\ ~abandoned =>
    en /\ rdy /\ queues.admin = "own" /\ bus_master

\* Commands and queues of an earlier process are gone once the admin queues were
\* given to the controller: no old command can write into the new region or answer
\* for a new command.
NothingInherited ==
  pc \in Commands \cup {"wait_ready", "open"} =>
    ~stale /\ \A q \in DOMAIN queues : queues[q] # "old"

\* A driver that open returned has a working pair of I/O queues of its own, of a
\* depth and of entry sizes the controller supports, and knows the namespace's
\* block size.
OpenIsComplete ==
  pc = "open" =>
    /\ result = "ok"
    /\ device.kernel_driver # "nvme"
    /\ region = "mapped"
    /\ queues.io_cq = "own" /\ queues.io_sq = "own"
    /\ QUEUE_DEPTH <= device.queue_limit
    /\ EntrySizesAccepted
    /\ block_size_known

\* The region is given back while the controller still holds a command only if
\* the call that waited for it has timed out or its process was killed.
NoDmaAfterUnmap == region = "unmapped" => outstanding = "none" \/ abandoned

\* open returns, however slow or dead the controller is.
OpenReturns == result = "none" ~> result # "none"
=============================================================================
