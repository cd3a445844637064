------------------------------- MODULE Launcher -------------------------------
(***************************************************************************)
(* src/nvmetoy.sh: borrow the device from the kernel for a REPL session    *)
(* and give it back.  Several invocations may run on one host, and another *)
(* user of the device may mount its file system at any time the kernel has *)
(* it.  Every command of the script that looks at or changes shared state  *)
(* is a step: the sysfs binding, the mounts, and the block map, which all  *)
(* invocations keep at the same path.                                      *)
(*                                                                         *)
(* set -e ends an invocation at the first command that fails, a signal     *)
(* after the command it is running; both go through the EXIT trap.  In the *)
(* trap a failing umount or bind is ignored, and a further signal, or an   *)
(* echo to a terminal that is gone, ends it where it is.                   *)
(* Environment (external): a read-only mount of a file system that another *)
(* user has mounted fails, as does the other way round.                    *)
(***************************************************************************)
EXTENDS FiniteSets

CONSTANTS Instances, Nobody

ASSUME NobodyAssumption == Nobody \notin Instances

VARIABLES
  bound,          \* the kernel nvme driver holds the device
  other_mounted,  \* another user has its file system mounted
  mounts,         \* instances that have it mounted
  map,            \* whose file /tmp/nvmetoy.map has extents of
  pc,             \* the step each instance is at
  mount_dir,      \* instances whose MOUNT_DIR is not empty
  emitted,        \* what each emit_block_map has put into its pipe
  confined_to,    \* whose file each REPL is confined to
  taken_by,       \* history: who was the last to unbind the device
  overlapped,     \* history: who had the map in use together with another
  not_unmounted,  \* history: whose trap left the mount as it was
  not_bound       \* history: whose trap left the device unbound

device == <<bound, taken_by>>
mounted == <<other_mounted, mounts, mount_dir>>
blocks == <<map, emitted, confined_to, overlapped>>
undone == <<not_unmounted, not_bound>>
vars == <<device, mounted, blocks, undone, pc>>

Init ==
  /\ bound = TRUE /\ taken_by = Nobody
  /\ other_mounted = FALSE /\ mounts = {} /\ mount_dir = {}
  /\ map = Nobody
  /\ emitted = [i \in Instances |-> "nothing"]
  /\ confined_to = [i \in Instances |-> Nobody]
  /\ overlapped = {}
  /\ not_unmounted = {} /\ not_bound = {}
  /\ pc = [i \in Instances |-> "findmnt"]

At(i, here) == pc[i] = here
Goto(i, there) == pc' = [pc EXCEPT ![i] = there]

\* Past the guards with the map still to be written or loaded.
UsesMap == {"build", "mount", "truncate_map", "write_map", "umount", "unbind",
            "load_map"}
MapUsers == {i \in Instances : pc[i] \in UsesMap}

------------------------------------------------------------------------------
(* The script; pc names the command an instance is about to run. *)

\* findmnt: a live mount means another user holds the device.
CheckUnmounted(i) ==
  /\ At(i, "findmnt")
  /\ Goto(i, IF other_mounted \/ mounts # {} THEN "trap_umount"
                                             ELSE "test_b")
  /\ UNCHANGED <<device, mounted, blocks, undone>>

\* The block device exists while the kernel driver is bound.
CheckBound(i) ==
  /\ At(i, "test_b")
  /\ \/ /\ bound
        /\ Goto(i, "build")
        /\ overlapped' = IF MapUsers = {} THEN overlapped
                                          ELSE overlapped \cup MapUsers \cup {i}
     \/ /\ ~bound
        /\ Goto(i, "trap_umount")
        /\ UNCHANGED overlapped
  /\ UNCHANGED <<device, mounted, map, emitted, confined_to, undone>>

\* cargo build, which takes its time, and mktemp.
Build(i) ==
  /\ At(i, "build")
  /\ mount_dir' = mount_dir \cup {i}
  /\ Goto(i, "mount")
  /\ UNCHANGED <<device, other_mounted, mounts, blocks, undone>>

Mount(i) ==
  /\ At(i, "mount")
  /\ IF bound /\ ~other_mounted
       THEN mounts' = mounts \cup {i} /\ Goto(i, "truncate_map")
       ELSE UNCHANGED mounts /\ Goto(i, "trap_umount")
  /\ UNCHANGED <<device, other_mounted, mount_dir, blocks, undone>>

\* emit_block_map | tee: the two sides start together.  tee truncates the map ...
TruncateMap(i) ==
  /\ At(i, "truncate_map")
  /\ map' = Nobody
  /\ Goto(i, "write_map")
  /\ UNCHANGED <<device, mounted, emitted, confined_to, overlapped, undone>>

\* ... cat and filefrag look at the device, and fail when it is gone ...
EmitBlockMap(i) ==
  /\ pc[i] \in {"truncate_map", "write_map"}
  /\ emitted[i] = "nothing"
  /\ \E outcome \in {"error"} \cup (IF bound THEN {"extents"} ELSE {}) :
       emitted' = [emitted EXCEPT ![i] = outcome]
  /\ UNCHANGED <<device, mounted, map, confined_to, overlapped, undone, pc>>

\* Mutant: without pipefail the script goes on with what tee has got.
WriteMapAnyway(i) ==
  /\ At(i, "write_map")
  /\ emitted[i] # "nothing"
  /\ map' \in {map, i}
  /\ Goto(i, "umount")
  /\ UNCHANGED <<device, mounted, emitted, confined_to, overlapped, undone>>

\* ... and tee writes what arrives, whatever has become of the device.  With
\* pipefail the failure of either side ends the script, perhaps after some extents.
WriteMap(i) ==
  /\ At(i, "write_map")
  /\ emitted[i] # "nothing"
  /\ \/ emitted[i] = "extents" /\ map' = i /\ Goto(i, "umount")
     \/ map' \in {map, i} /\ Goto(i, "trap_umount")
  /\ UNCHANGED <<device, mounted, emitted, confined_to, overlapped, undone>>

Unmount(i) ==
  /\ At(i, "umount")
  /\ mounts' = mounts \ {i}
  /\ mount_dir' = mount_dir \ {i}
  /\ Goto(i, "unbind")
  /\ UNCHANGED <<device, other_mounted, blocks, undone>>

\* Mutant: the failure of the write to unbind is ignored.
UnbindAnyway(i) ==
  /\ At(i, "unbind")
  /\ bound' = FALSE /\ taken_by' = i
  /\ Goto(i, "load_map")
  /\ UNCHANGED <<mounted, blocks, undone>>

\* The write to unbind fails when the device is not bound.
Unbind(i) ==
  /\ At(i, "unbind")
  /\ bound' = FALSE
  /\ taken_by' = IF bound THEN i ELSE taken_by
  /\ Goto(i, IF bound THEN "load_map" ELSE "trap_umount")
  /\ UNCHANGED <<mounted, blocks, undone>>

\* The REPL starts: load_blocks.
LoadMap(i) ==
  /\ At(i, "load_map")
  /\ confined_to' = [confined_to EXCEPT ![i] = map]
  /\ Goto(i, "open")
  /\ UNCHANGED <<device, mounted, map, emitted, overlapped, undone>>

\* refuse_if_kernel_driver_bound, then the REPL owns the controller.
Open(i) ==
  /\ At(i, "open")
  /\ Goto(i, IF bound THEN "trap_umount" ELSE "repl")
  /\ UNCHANGED <<device, mounted, blocks, undone>>

ReplEnds(i) ==
  /\ At(i, "repl")
  /\ Goto(i, "trap_umount")
  /\ UNCHANGED <<device, mounted, blocks, undone>>

\* The commands that may fail of themselves, and where a signal may arrive; for
\* the rest of the pipeline see WriteMap.
Abort(i) ==
  /\ pc[i] \in {"findmnt", "test_b", "build", "mount", "truncate_map",
                "umount", "unbind", "load_map", "open"}
  /\ Goto(i, "trap_umount")
  /\ UNCHANGED <<device, mounted, blocks, undone>>

------------------------------------------------------------------------------
(* The EXIT trap: cleanup *)

\* Mutant: the trap tests the mount point but forgets to unmount it.
NothingToUnmount(i) == {}

\* MOUNT_DIR is set, and a mount point.
ToUnmount(i) == mounts \cap mount_dir \cap {i}

\* Unmount what this instance has mounted; || true goes on if that fails ...
TrapUnmount(i) ==
  /\ At(i, "trap_umount")
  /\ \/ mounts' = mounts \ ToUnmount(i) /\ UNCHANGED not_unmounted
     \/ UNCHANGED mounts /\ not_unmounted' = not_unmounted \cup ToUnmount(i)
  /\ Goto(i, "trap_bind")
  /\ UNCHANGED <<device, other_mounted, mount_dir, blocks, not_bound>>

\* Mutant: the trap leaves the binding alone.
TrapForgetsBind(i) ==
  /\ At(i, "trap_bind")
  /\ Goto(i, "exited")
  /\ UNCHANGED <<device, mounted, blocks, undone>>

\* ... and bind the device to the kernel driver if it is not, whoever unbound it.
TrapBind(i) ==
  /\ At(i, "trap_bind")
  /\ bound' = TRUE
  /\ Goto(i, "exited")
  /\ UNCHANGED <<taken_by, mounted, blocks, undone>>

\* The device is not bound and will not be by this trap.
LeavesUnbound(i) == not_bound' = IF bound THEN not_bound ELSE not_bound \cup {i}

\* The bind fails, or the driver is not there; || true again.
TrapBindFails(i) ==
  /\ At(i, "trap_bind")
  /\ ~bound
  /\ LeavesUnbound(i)
  /\ Goto(i, "exited")
  /\ UNCHANGED <<device, mounted, blocks, not_unmounted>>

\* HUP, INT and TERM stay trapped, and their exit leaves the rest of cleanup out;
\* so does set -e when the echo before the bind fails.
TrapCutShort(i) ==
  /\ pc[i] \in {"trap_umount", "trap_bind"}
  /\ LeavesUnbound(i)
  /\ not_unmounted' = IF At(i, "trap_umount") THEN not_unmounted \cup ToUnmount(i)
                                              ELSE not_unmounted
  /\ Goto(i, "exited")
  /\ UNCHANGED <<device, mounted, blocks>>

------------------------------------------------------------------------------
(* The other user of the device (external) *)

OtherMount ==
  /\ bound /\ ~other_mounted /\ mounts = {}
  /\ other_mounted' = TRUE
  /\ UNCHANGED <<device, mounts, mount_dir, blocks, undone, pc>>

OtherUnmount ==
  /\ other_mounted
  /\ other_mounted' = FALSE
  /\ UNCHANGED <<device, mounts, mount_dir, blocks, undone, pc>>

------------------------------------------------------------------------------
Runs(i) ==
  \/ CheckUnmounted(i) \/ CheckBound(i) \/ Build(i) \/ Mount(i)
  \/ TruncateMap(i) \/ EmitBlockMap(i) \/ WriteMap(i) \/ Unmount(i)
  \/ Unbind(i) \/ LoadMap(i) \/ Open(i) \/ ReplEnds(i)
  \/ TrapUnmount(i) \/ TrapBind(i)

Fails(i) == Abort(i) \/ TrapBindFails(i) \/ TrapCutShort(i)

Next ==
  \/ \E i \in Instances : Runs(i) \/ Fails(i)
  \/ OtherMount
  \/ OtherUnmount

Spec == Init /\ [][Next]_vars

\* A script that has started goes on, and its operator leaves the REPL some day.
FairSpec == Spec /\ \A i \in Instances : WF_vars(Runs(i))

------------------------------------------------------------------------------
(* Properties *)

\* The type invariant; whatever an invocation has mounted, its MOUNT_DIR says so
\* and cleanup will find it.
TypeOK ==
  /\ bound \in BOOLEAN
  /\ taken_by \in Instances \cup {Nobody}
  /\ other_mounted \in BOOLEAN
  /\ mounts \subseteq mount_dir
  /\ mount_dir \subseteq Instances
  /\ map \in Instances \cup {Nobody}
  /\ emitted \in [Instances -> {"nothing", "extents", "error"}]
  /\ confined_to \in [Instances -> Instances \cup {Nobody}]
  /\ overlapped \subseteq Instances
  /\ not_unmounted \subseteq Instances
  /\ not_bound \subseteq Instances

AllExited == \A i \in Instances : pc[i] = "exited"

\* When all are done, whatever the order of their traps: a mount is left only
\* where the trap's own umount failed or was not reached, and the device is
\* unbound only if the same is true of the bind of the one that unbound it.
RestingStateRestored ==
  AllExited => mounts \subseteq not_unmounted /\ (bound \/ taken_by \in not_bound)

\* A device taken from the kernel driver is given back, by whomever, unless the
\* trap of the one that took it fails to or is cut short.
BorrowedIsReturned == ~bound ~> (bound \/ taken_by \in not_bound)

NoneHasLeft == \A i \in Instances : pc[i] # "exited"

\* Invocations that start together may all pass their guards; the unbind lets one
\* of them through.  Until an invocation has left, and its trap has bound the
\* device, at most one of them holds it, and the kernel driver does not.
HeldByOne ==
  LET holders == {i \in Instances : pc[i] \in {"load_map", "open", "repl"}}
  IN NoneHasLeft =>
       /\ \A i, j \in holders : i = j
       /\ holders # {} => ~bound

\* A REPL is confined to the extents of its own file, all of which were resolved,
\* if no other invocation was between its guards and its load at the same time.
OwnFileUnlessOverlapped ==
  \A i \in Instances :
    pc[i] \in {"open", "repl"} /\ i \notin overlapped => confined_to[i] = i

\* While a REPL drives the controller the kernel driver does not.
ReplExclusive == (\E i \in Instances : pc[i] = "repl") => ~bound
=============================================================================
