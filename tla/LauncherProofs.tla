---------------------------- MODULE LauncherProofs ----------------------------
(***************************************************************************)
(* Proofs about Launcher, for any number of invocations, wherever each of  *)
(* them fails or is interrupted.                                           *)
(***************************************************************************)
EXTENDS Launcher, TLAPS

\* The steps at which an invocation has MOUNT_DIR to clean up or has given up on
\* it, and those from which its trap has the binding still to restore.
WithMountDir == {"mount", "truncate_map", "write_map", "umount", "trap_umount",
                 "trap_bind", "exited"}
Holding == {"load_map", "open", "repl"}
WillBind == Holding \cup {"trap_umount", "trap_bind"}
Steps == WithMountDir \cup WillBind \cup {"findmnt", "test_b", "build", "unbind"}

\* Where the invocations can be, and what they have to clean up there.
Places ==
  /\ pc \in [Instances -> Steps]
  /\ \A i \in mount_dir : pc[i] \in WithMountDir
  /\ \A i \in Instances : pc[i] = "mount" => i \in mount_dir

\* A mount outlives the umount of its trap only where that failed or was left out.
MountsAccountedFor ==
  \A i \in mounts : pc[i] \in {"trap_bind", "exited"} => i \in not_unmounted

\* The one that unbound the device last has its own bind before it, or has failed
\* to do it, while the device is unbound.
TakerWillBind ==
  ~bound => /\ taken_by \in Instances
            /\ pc[taken_by] \in WillBind \/ taken_by \in not_bound

\* An exclusive owner as long as no trap has run to its end.
OneHolder ==
  NoneHasLeft =>
    /\ \A i, j \in Instances : pc[i] \in Holding /\ pc[j] \in Holding => i = j
    /\ \A i \in Instances : pc[i] \in Holding => ~bound

\* The map of an invocation that shares it with none is its own until it loads it.
MapAlone ==
  /\ \A i, j \in Instances :
       pc[i] \in UsesMap /\ pc[j] \in UsesMap /\ i # j => i \in overlapped
  /\ \A i \in Instances :
       pc[i] \in {"umount", "unbind", "load_map"} /\ i \notin overlapped => map = i
  /\ OwnFileUnlessOverlapped

Inv ==
  /\ TypeOK
  /\ Places
  /\ MountsAccountedFor
  /\ TakerWillBind
  /\ OneHolder
  /\ MapAlone

\* Nobody has begun.
LEMMA InitEstablishes == Init => Inv
<1> SUFFICES ASSUME Init PROVE Inv
  OBVIOUS
<1> USE DEF Init, WithMountDir, Holding, WillBind, Steps, UsesMap
<1>1. TypeOK
  BY DEF TypeOK
<1>2. Places /\ MountsAccountedFor
  BY DEF Places, MountsAccountedFor
<1>3. TakerWillBind /\ OneHolder
  BY DEF TakerWillBind, OneHolder
<1>4. MapAlone
  BY DEF MapAlone, OwnFileUnlessOverlapped
<1> QED BY <1>1, <1>2, <1>3, <1>4 DEF Inv

\* Every command of an invocation, its failure and its trap keep types and places.
LEMMA PlacesStep ==
  ASSUME Inv, NEW i \in Instances, Runs(i) \/ Fails(i)
  PROVE  TypeOK' /\ Places'
<1> USE DEF Inv, TypeOK, Places, WithMountDir, Holding, WillBind, Steps, At, Goto,
            device, mounted, blocks, undone
<1>1. CASE CheckUnmounted(i) \/ Build(i) \/ Mount(i) \/ Unmount(i)
  BY <1>1 DEF CheckUnmounted, Build, Mount, Unmount
<1>2. CASE CheckBound(i)
  BY <1>2 DEF CheckBound, MapUsers
<1>3. CASE TruncateMap(i) \/ WriteMap(i) \/ LoadMap(i)
  BY <1>3 DEF TruncateMap, WriteMap, LoadMap
<1>4. CASE EmitBlockMap(i)
  <2>1. PICK outcome \in {"extents", "error"} :
          emitted' = [emitted EXCEPT ![i] = outcome]
    BY <1>4 DEF EmitBlockMap
  <2> QED BY <1>4, <2>1 DEF EmitBlockMap
<1>5. CASE Unbind(i) \/ Open(i) \/ ReplEnds(i) \/ Abort(i)
  BY <1>5 DEF Unbind, Open, ReplEnds, Abort
<1>6. CASE TrapUnmount(i)
  BY <1>6 DEF TrapUnmount, ToUnmount
<1>7. CASE TrapBind(i) \/ TrapBindFails(i)
  BY <1>7 DEF TrapBind, TrapBindFails, LeavesUnbound
<1>8. CASE TrapCutShort(i)
  BY <1>8 DEF TrapCutShort, LeavesUnbound, ToUnmount
<1> QED
  BY <1>1, <1>2, <1>3, <1>4, <1>5, <1>6, <1>7, <1>8 DEF Runs, Fails

\* They account for every mount that is left, and leave the taker of the device
\* its bind.
LEMMA ReturnStep ==
  ASSUME Inv, NEW i \in Instances, Runs(i) \/ Fails(i)
  PROVE  MountsAccountedFor' /\ TakerWillBind'
<1> USE DEF Inv, TypeOK, Places, MountsAccountedFor, TakerWillBind, WithMountDir,
            Holding, WillBind, Steps, At, Goto, device, mounted, blocks, undone
<1>1. CASE CheckUnmounted(i) \/ CheckBound(i) \/ Build(i) \/ Mount(i)
  BY <1>1 DEF CheckUnmounted, CheckBound, Build, Mount
<1>2. CASE TruncateMap(i) \/ EmitBlockMap(i) \/ WriteMap(i) \/ LoadMap(i)
  BY <1>2 DEF TruncateMap, EmitBlockMap, WriteMap, LoadMap
<1>3. CASE Unmount(i) \/ Unbind(i)
  BY <1>3 DEF Unmount, Unbind
<1>4. CASE Open(i) \/ ReplEnds(i) \/ Abort(i)
  BY <1>4 DEF Open, ReplEnds, Abort
<1>5. CASE TrapUnmount(i)
  BY <1>5 DEF TrapUnmount, ToUnmount
<1>6. CASE TrapBind(i) \/ TrapBindFails(i)
  BY <1>6 DEF TrapBind, TrapBindFails, LeavesUnbound
<1>7. CASE TrapCutShort(i)
  BY <1>7 DEF TrapCutShort, LeavesUnbound, ToUnmount
<1> QED BY <1>1, <1>2, <1>3, <1>4, <1>5, <1>6, <1>7 DEF Runs, Fails

\* They let one invocation hold the device until one has left.
LEMMA HolderStep ==
  ASSUME Inv, NEW i \in Instances, Runs(i) \/ Fails(i)
  PROVE  OneHolder'
<1> USE DEF Inv, TypeOK, Places, OneHolder, NoneHasLeft, WithMountDir, Holding,
            WillBind, Steps, At, Goto, device, mounted, blocks, undone
<1>1. CASE CheckUnmounted(i) \/ CheckBound(i) \/ Build(i) \/ Mount(i)
  BY <1>1 DEF CheckUnmounted, CheckBound, Build, Mount
<1>2. CASE TruncateMap(i) \/ EmitBlockMap(i) \/ WriteMap(i) \/ Unmount(i)
  BY <1>2 DEF TruncateMap, EmitBlockMap, WriteMap, Unmount
<1>3. CASE Unbind(i)
  BY <1>3 DEF Unbind
<1>4. CASE LoadMap(i) \/ Open(i) \/ ReplEnds(i) \/ Abort(i)
  BY <1>4 DEF LoadMap, Open, ReplEnds, Abort
<1>5. CASE TrapUnmount(i) \/ TrapBind(i) \/ TrapBindFails(i) \/ TrapCutShort(i)
  <2>1. CASE TrapUnmount(i)
    BY <2>1 DEF TrapUnmount
  <2>2. CASE TrapBind(i) \/ TrapBindFails(i) \/ TrapCutShort(i)
    <3>1. pc'[i] = "exited"
      BY <2>2 DEF TrapBind, TrapBindFails, TrapCutShort
    <3> QED BY <3>1
  <2> QED BY <1>5, <2>1, <2>2
<1> QED BY <1>1, <1>2, <1>3, <1>4, <1>5 DEF Runs, Fails

\* They leave the map alone of one that shares it with none.
LEMMA MapStep ==
  ASSUME Inv, NEW i \in Instances, Runs(i) \/ Fails(i)
  PROVE  MapAlone'
<1> USE DEF Inv, TypeOK, Places, MapAlone, OwnFileUnlessOverlapped, UsesMap,
            WithMountDir, Holding, WillBind, Steps, At, Goto, device, mounted,
            blocks, undone
<1>1. CASE CheckUnmounted(i) \/ Build(i) \/ Mount(i)
  BY <1>1 DEF CheckUnmounted, Build, Mount
<1>2. CASE CheckBound(i)
  <2>1. CASE bound
    <3>1. /\ pc' = [pc EXCEPT ![i] = "build"]
          /\ map' = map /\ confined_to' = confined_to
          /\ overlapped' = IF MapUsers = {} THEN overlapped
                                            ELSE overlapped \cup MapUsers \cup {i}
      BY <1>2, <2>1 DEF CheckBound
    <3>2. ASSUME NEW j \in Instances, j # i, pc[j] \in UsesMap
          PROVE  i \in overlapped' /\ j \in overlapped'
      BY <3>1, <3>2 DEF MapUsers
    <3>3. overlapped \subseteq overlapped'
      BY <3>1
    <3> QED BY <3>1, <3>2, <3>3
  <2>2. CASE ~bound
    BY <1>2, <2>2 DEF CheckBound
  <2> QED BY <2>1, <2>2
<1>3. CASE TruncateMap(i)
  BY <1>3 DEF TruncateMap
<1>4. CASE EmitBlockMap(i)
  BY <1>4 DEF EmitBlockMap
<1>5. CASE WriteMap(i)
  BY <1>5 DEF WriteMap
<1>6. CASE LoadMap(i)
  BY <1>6 DEF LoadMap
<1>7. CASE Unmount(i) \/ Unbind(i)
  BY <1>7 DEF Unmount, Unbind
<1>8. CASE Open(i) \/ ReplEnds(i) \/ Abort(i)
  BY <1>8 DEF Open, ReplEnds, Abort
<1>9. CASE TrapUnmount(i) \/ TrapBind(i) \/ TrapBindFails(i) \/ TrapCutShort(i)
  BY <1>9 DEF TrapUnmount, TrapBind, TrapBindFails, TrapCutShort
<1> QED
  BY <1>1, <1>2, <1>3, <1>4, <1>5, <1>6, <1>7, <1>8, <1>9 DEF Runs, Fails

\* The mounts of the other user of the device keep the invariant as well.
LEMMA InvStep == Inv /\ [Next]_vars => Inv'
<1> SUFFICES ASSUME Inv, [Next]_vars
             PROVE  Inv'
  OBVIOUS
<1>1. CASE \E i \in Instances : Runs(i) \/ Fails(i)
  BY <1>1, PlacesStep, ReturnStep, HolderStep, MapStep DEF Inv
<1> USE DEF Inv, TypeOK, Places, MountsAccountedFor, TakerWillBind, OneHolder,
            MapAlone, OwnFileUnlessOverlapped, NoneHasLeft, device, blocks, undone
<1>2. CASE OtherMount
  BY <1>2 DEF OtherMount
<1>3. CASE OtherUnmount
  BY <1>3 DEF OtherUnmount
<1>4. CASE UNCHANGED vars
  BY <1>4 DEF vars, mounted
<1> QED BY <1>1, <1>2, <1>3, <1>4 DEF Next

\* The inductive invariant.
THEOREM Invariance == Spec => []Inv
BY InitEstablishes, InvStep, PTL DEF Spec

\* The type invariant: whatever an invocation has mounted, the MOUNT_DIR that its
\* cleanup looks at says so.
THEOREM TypeCorrect == Spec => []TypeOK
<1>1. Inv => TypeOK
  BY DEF Inv
<1> QED BY <1>1, Invariance, PTL

\* When the last invocation has left, in whatever order the traps ran and wherever
\* they failed or were cut short: a mount that is left is one whose own umount was
\* not done, and a device left unbound one whose own bind was not.
THEOREM RestoresRestingState == Spec => []RestingStateRestored
<1>1. Inv => RestingStateRestored
  <2> SUFFICES ASSUME Inv, AllExited
               PROVE  /\ mounts \subseteq not_unmounted
                      /\ bound \/ taken_by \in not_bound
    BY DEF RestingStateRestored
  <2>1. bound \/ taken_by \in not_bound
    BY DEF Inv, TakerWillBind, WillBind, Holding, AllExited
  <2>2. mounts \subseteq not_unmounted
    BY DEF Inv, MountsAccountedFor, TypeOK, AllExited
  <2> QED BY <2>1, <2>2
<1> QED BY <1>1, Invariance, PTL

\* Of the invocations that pass findmnt and the test for the block device
\* together, the write to unbind lets one through, until a trap binds the device.
THEOREM UnbindLetsOneThrough == Spec => []HeldByOne
<1>1. Inv => HeldByOne
  BY DEF Inv, OneHolder, HeldByOne, Holding
<1> QED BY <1>1, Invariance, PTL

\* An invocation that was alone between its guards and its load has its own file's
\* extents in the REPL, all of them, whoever had the map before and has it later.
THEOREM ReplHasItsOwnFile == Spec => []OwnFileUnlessOverlapped
<1>1. Inv => OwnFileUnlessOverlapped
  BY DEF Inv, MapAlone
<1> QED BY <1>1, Invariance, PTL
=============================================================================
