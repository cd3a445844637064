----------------------------- MODULE BringUpProofs ----------------------------
(***************************************************************************)
(* Proofs about BringUp: what open guarantees whatever state the last      *)
(* process left the controller in, however slow or fatal the controller    *)
(* is, and wherever the process is killed.                                 *)
(***************************************************************************)
EXTENDS BringUp, TLAPS

\* The steps of open after the region is there, and those with the admin queues
\* handed over.
WithRegion == {"clear_EN", "wait_not_ready", "program", "wait_ready", "open"}
                \cup Commands
WithQueues == Commands \cup {"wait_ready", "open"}

\* How far open has come, told from what it has found and set up.
Progress ==
  /\ pc \notin {"check_driver", "closed"} => device.kernel_driver # "nvme"
  /\ pc \notin {"check_driver", "bus_master", "closed"} => bus_master
  /\ region = "mapped" <=> pc \in WithRegion
  /\ region = "unmapped" => pc = "closed"
  /\ pc \in {"wait_not_ready", "wait_ready"} => polls < MAX_POLLS
  /\ pc \in {"wait_not_ready", "program"} => ~en
  /\ pc \in WithQueues => en
  /\ pc = "program" => ~rdy
  /\ pc \in Commands \cup {"open"} => rdy
  /\ pc = "open" => result = "ok" /\ block_size_known

\* A controller that has reported not ready has forgotten its I/O queues and
\* its commands.
DownIsEmpty ==
  ~rdy => /\ queues.io_cq = "none" /\ queues.io_sq = "none"
          /\ outstanding = "none"

\* Who waits for the command the controller holds, and for its answer.
OneWaits ==
  /\ outstanding = "none" => ~abandoned /\ ~stale
  /\ outstanding # "none" => answer = "none" \/ pc = "closed"
  /\ answer # "none" => pc \in Commands \cup {"closed"}
  /\ outstanding # "none" /\ ~stale =>
       \/ pc = outstanding /\ ~abandoned
       \/ pc = "closed" /\ abandoned
  /\ stale => abandoned

\* The queues that the commands answered so far have created.
QueuesSoFar ==
  /\ pc \in WithQueues => queues.admin = "own"
  /\ pc \in Commands \cup {"open"} /\ pc # "identify_controller" =>
       EntrySizesAccepted
  /\ \/ pc \in {"create_sq", "identify_namespace", "open"}
     \/ pc = "create_cq" /\ answer = "success"
     => queues.io_cq = "own" /\ QUEUE_DEPTH <= device.queue_limit
  /\ \/ pc \in {"identify_namespace", "open"}
     \/ pc = "create_sq" /\ answer = "success"
     => queues.io_sq = "own"

Inv ==
  /\ TypeOK
  /\ Progress
  /\ DownIsEmpty
  /\ OneWaits
  /\ QueuesSoFar
  /\ NothingInherited

\* The controller as it is found, whoever used it before.
LEMMA InitEstablishes == Init => Inv
<1> SUFFICES ASSUME Init PROVE Inv
  OBVIOUS
<1> USE MaxPollsAssumption
    DEF Init, StartProcess, NoQueues, WithRegion, WithQueues, Commands
<1>1. TypeOK
  BY DEF TypeOK
<1>2. Progress
  BY DEF Progress
<1>3. DownIsEmpty
  BY DEF DownIsEmpty
<1>4. OneWaits
  BY DEF OneWaits
<1>5. QueuesSoFar
  BY DEF QueuesSoFar
<1>6. NothingInherited
  BY DEF NothingInherited
<1> QED BY <1>1, <1>2, <1>3, <1>4, <1>5, <1>6 DEF Inv

\* Every step of open, of the controller and of whoever kills or restarts the
\* process keeps it.
LEMMA InvStep == Inv /\ [Next]_vars => Inv'
<1> SUFFICES ASSUME Inv, [Next]_vars
             PROVE  Inv'
  OBVIOUS
<1> USE MaxPollsAssumption
    DEF Inv, TypeOK, Progress, DownIsEmpty, OneWaits, QueuesSoFar,
        NothingInherited, EntrySizesAccepted, WithRegion, WithQueues, Commands,
        processVars, registerVars, commandVars
<1>1. CASE RefuseIfKernelDriverBound
  BY <1>1 DEF RefuseIfKernelDriverBound, Step, Fail, Drop
<1>2. CASE EnableBusMaster
  BY <1>2 DEF EnableBusMaster, Step, Fail, Drop
<1>3. CASE MapBar
  BY <1>3 DEF MapBar, Step, Fail, Drop
<1>4. CASE AllocHuge
  BY <1>4 DEF AllocHuge
<1>5. CASE ClearEnable
  BY <1>5 DEF ClearEnable, Step
<1>6. CASE WaitNotReady
  BY <1>6
  DEF WaitNotReady, WaitReady, Wanted, NextPoll, LastPoll, Step, Fail, Drop
<1>7. CASE ProgramAndEnable
  BY <1>7 DEF ProgramAndEnable, Step
<1>8. CASE WaitReadyAgain
  BY <1>8
  DEF WaitReadyAgain, WaitReady, Wanted, NextPoll, LastPoll, Step, Fail, Drop
<1>9. CASE Submit
  BY <1>9 DEF Submit
<1>10. CASE TakeAnswer
  BY <1>10 DEF TakeAnswer, Refused, After, Fail, Drop
<1>11. CASE GiveUp
  BY <1>11 DEF GiveUp, Fail, Drop
<1>12. CASE Close
  BY <1>12 DEF Close, Drop
<1>13. CASE Kill
  BY <1>13 DEF Kill, Fail, Drop
<1>14. CASE Restart
  <2>1. TypeOK' /\ DownIsEmpty' /\ QueuesSoFar'
    BY <1>14 DEF Restart, StartProcess
  <2>2. OneWaits'
    BY <1>14 DEF Restart, StartProcess
  <2>3. Progress' /\ NothingInherited'
    BY <1>14 DEF Restart, StartProcess
  <2> QED BY <2>1, <2>2, <2>3
<1>15. CASE BecomeReady
  BY <1>15 DEF BecomeReady, NoQueues
<1>16. CASE GoFatal
  BY <1>16 DEF GoFatal
<1>17. CASE Execute
  BY <1>17 DEF Execute, Created
<1>18. CASE UNCHANGED vars
  BY <1>18 DEF vars
<1> QED
  BY <1>1, <1>2, <1>3, <1>4, <1>5, <1>6, <1>7, <1>8, <1>9,
     <1>10, <1>11, <1>12, <1>13, <1>14, <1>15, <1>16, <1>17, <1>18
  DEF Next, Driver

\* The inductive invariant.
THEOREM Invariance == Spec => []Inv
BY InitEstablishes, InvStep, PTL DEF Spec

\* The type invariant; wait_ready never polls more often than it is told to.
THEOREM TypeCorrect == Spec => []TypeOK
<1>1. Inv => TypeOK
  BY DEF Inv
<1> QED BY <1>1, Invariance, PTL

\* reset_and_enable writes the admin queue registers only while the controller is
\* disabled and has said so, in whatever state it was found.
THEOREM ProgramsStoppedController == Spec => []ProgrammedWhileDisabled
<1>1. Inv => ProgrammedWhileDisabled
  BY DEF Inv, Progress, ProgrammedWhileDisabled
<1> QED BY <1>1, Invariance, PTL

\* The commands of open go only to a controller that has come up on this
\* process's admin queues and may fetch them.
THEOREM CommandsReachOwnController == Spec => []CommandsWhenReady
<1>1. Inv => CommandsWhenReady
  BY DEF Inv, TypeOK, Progress, OneWaits, QueuesSoFar, CommandsWhenReady,
         WithQueues, Commands
<1> QED BY <1>1, Invariance, PTL

\* A process that opens the controller after another one was killed inherits
\* neither its queues nor its commands.
THEOREM InheritsNothing == Spec => []NothingInherited
<1>1. Inv => NothingInherited
  BY DEF Inv
<1> QED BY <1>1, Invariance, PTL

\* open never hands out a driver that is half built.
THEOREM OpenHandsOutCompleteDriver == Spec => []OpenIsComplete
<1>1. Inv => OpenIsComplete
  BY DEF Inv, Progress, QueuesSoFar, OpenIsComplete, WithRegion
<1> QED BY <1>1, Invariance, PTL

\* The region is unmapped under a command only after a timeout or a kill.
THEOREM UnmapsOnlyUnderAbandoned == Spec => []NoDmaAfterUnmap
<1>1. Inv => NoDmaAfterUnmap
  BY DEF Inv, TypeOK, Progress, OneWaits, NoDmaAfterUnmap, Commands
<1> QED BY <1>1, Invariance, PTL
=============================================================================
