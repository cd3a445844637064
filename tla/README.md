# A TLA+ model of nvmetoy

nvmetoy is a userspace NVMe driver with a REPL on top and a launcher script
around it. This directory holds TLA+ modules for its parts, TLC configurations
that check them on small instances, and TLAPS proofs of what matters most for
every size. All line numbers are those of the sources beside this directory
(`src/src/*.rs`, `src/src/bin/nvmetoy_repl.rs`, `src/nvmetoy.sh`).

## 1. The system

| part | source | state it keeps | operations |
|---|---|---|---|
| launcher | `nvmetoy.sh` | sysfs binding, mounts, `/tmp/nvmetoy.map`, `MOUNT_DIR` | guards, mount, write map, umount, unbind, run the REPL, EXIT trap |
| REPL | `bin/nvmetoy_repl.rs` | the block map (extents, `device_lba_size`) | `read`, `write`, `fill`, `peek`, `poke`, `identify`, `list` |
| file check | `FileBlocks::check` | its loop variables | walk a range from extent to extent |
| driver | `nvmetoy.rs` | two queue pairs, cached block size, one DMA region with a data area and a PRP list | `open`, `read`, `write`, `identify` |
| queue pair | `queue_pair.rs` | tail, head, expected phase, next cid | `submit_and_wait` |
| DMA region, BAR | `dma_region.rs`, `nvme_bar.rs` | mappings | bounds-checked accesses, doorbells, drop |
| map file | `nvmetoy.sh`, `FileBlocks::parse` | `/tmp/nvmetoy.map` | truncate, write line by line, parse line by line |
| wire format | `nvme_spec.rs`, `nvme_command_builders.rs` | none | build commands, decode completions |
| printing, stubs | `nvme_identify.rs`, `bin/xnvmetoy.rs`, `run-swissknife.sh` | none | text output, a remote runner |

The launcher borrows the device from the kernel driver, writes the extents of
one file to a map and starts the REPL. The REPL checks each command against the
map and calls the driver. The driver copies data through the DMA region and
calls `submit_and_wait` on the I/O or the admin queue. The controller works
concurrently: it reads and writes the rings, the data area and the PRP list by
DMA and is told of progress by doorbells.

The code has no threads. What makes it hard is the controller beside it, the
calls that give up (`submit_and_wait` returns after 200 000 idle polls and
forgets its command, the REPL goes on), the reuse of one buffer, one PRP list
and one ring by every call, the failures between the steps of `open`, processes
that are killed and followed by others, and several launchers or other users on
one host. What each part should guarantee:

* queue pair: the phase tag tells new completions from old ones across wraps; a
  call returns Ok only with its own completion; every call returns;
* driver: calls behave as on an array of blocks; pointers of outstanding
  commands stay right; the command built is the call made, byte for byte;
* bring-up: a half-opened driver is never handed out, and none inherits queues or
  commands of an earlier process;
* file check: accepts a range if and only if all of it belongs to the file;
* map file: what loads while a launcher rewrites the file is the beginning of one
  map, without a number cut short, and what is accepted with it is of that file;
* REPL: stays in the file, also after timeouts, does not panic, `poke` and
  `write` change exactly the bytes they say;
* launcher: the resting state (bound, unmounted) is restored; only one driver
  holds the controller; each REPL is confined to its own file. Each of these holds
  under conditions only (section 4, points 2, 5 and 6).

`PROJECT.json` lists the hazards behind these at their lines.

## 2. Modules

```
CompletionSlot (why an entry may be taken in one step)
      v
QueuePair ──implements──> CommandChannel <──instance (x2)── DataPath ──implements──> BlockStore
                                                               ^                        ^
Transfer (one call in bytes: why DataPath may count blocks) ───┤                        │
                                                    extends    │               assumes  │
                                                            Session                   Repl
                                                               ^                        ^
FileBlocks (check) ────────────────────────────────────────────┴────────────────────────┘
      ^
      extends
BlockMap (writer of the map and parse)
BringUp (open, drop, kill, restart)                      Launcher (nvmetoy.sh)
```

**QueuePair** models `submit_and_wait` in six actions: store the entry
(lines 41-57), advance the tail and ring (59-67), an idle poll (109-113), the
poll that times out (109-112), take a completion (73-98), ring the completion
doorbell and compare the cid (99-107). The split is at the points where the
controller can see a difference. The driver variables have the names of the
struct's fields. The controller (external) fetches in order up to the tail
doorbell, finishes in any order, at any time or never, and posts with its own
phase tag while the completion ring has room. A command is named by a serial
number that the code does not have; the code has the 16-bit cid. The entry of a
completion is read in one step, which CompletionSlot justifies. The pauses for
Enter inside the poll loop change nothing but time.

**CompletionSlot** is the race of `read_volatile` (`dma_region.rs:78-85`) on one
slot: controller and driver move the 16 bytes of an entry word by word, in any
order. The words are told apart by the lap they were written in. `cid` and
`status` are in one dword, and what the driver uses is always of one entry. With
the fields in two words (the mutant) it is not.

**CommandChannel** is the promise of a queue pair without rings: a set of
pending commands, a queue of completions, calls that answer with the oldest
completion or give up, and, once `LossThreshold` calls have timed out, loss of
commands (the code never tests for a full submission ring).

**DataPath** is `read`, `write` and `identify` after `open`, over two
CommandChannel instances that share the data area and the PRP list. One action
per step: up to the submission (with the early returns), submission, answer
(with the cid comparison and `check`), timeout, copying out. The controller
moves single blocks of any command it holds, in any order, through the pages
that PRP1, PRP2 or the list name at that moment; it may end a command with an
error status at any point. Data is counted in blocks.

**Transfer** is one call in bytes with the code's own constants: the layout of
the region (`nvmetoy.rs:20-41`), `namespace_block_size`, the PRP entries as
physical addresses, the zero-based u16 block count, `cdw10` and `cdw11`, the ring
slots, the doorbell offsets with their stride, and the asserts of `DmaRegion` and
`NvmeBar`, which are the place "panic". The block size and the length of a read are
`usize` and wrap as in the release build. Every access to the region is for one of
its six parts: the four rings, each where the controller is told that it is and as
long as the queue is deep, the PRP list and the data. Against it stands the controller's reading of the
entry (external): format index from both parts of `flbas`, interleaved metadata,
pages from PRP1, PRP2 or the list. Its properties are about namespaces whose
block is what the driver takes it for and can count (`Plain`); for extended formats, with
interleaved metadata or an index of 16 and more, the controller moves another
number of bytes (section 4, point 4).

**BlockStore** is what the REPL expects of the driver: an array of blocks on
which calls take effect at once; an error leaves each block of a write old or
new; after the first timeout nothing is promised.

**FileBlocks** is `FileBlocks::check` (32-51), one action per iteration, over
u64 arithmetic modulo `U64`, as in the release build that the launcher runs.

**Repl** is the five commands that reach the device. It uses membership in place
of the walk (FileBlocks) and an array of blocks that may fail (BlockStore). It
keeps the two block sizes apart that the program has: `device_lba_size` of the
map and the size the driver learnt. Slices and divisions that panic in the code
are the result "panic".

**Session** puts the REPL's commands on DataPath instead of on BlockStore: a
session goes on after a timeout, when BlockStore promises nothing, and `poke` is
two calls with a whole round of the driver between them.

**BlockMap** extends FileBlocks with the map file: the script that writes it and
`FileBlocks::parse` (53-76), which collects the extents that `check` then walks,
once per command (`Ask`, the calls at 260 and 281). The file is truncated, written in
pieces that end anywhere in a line, and loaded at any moment. Lines are sequences of
fields, a word is a negative number, and a number cut short is a smaller number.
Two things are taken to hold. The file is read at one instant, which is so for maps
of less than the 8 KiB of a `BufReader`; a longer one may mix two maps if the other
launcher truncates it between two reads. And a writer that another one overtakes
writes no more (section 4, point 8).

**BringUp** is `open` step by step with every failure, the admin commands in
their order, and the drop of the region; the controller's RDY, CFS, queue limit,
entry sizes and answers are external. A process may be killed at any step, and
the next one opens the controller in the state it was left in: enabled, on the
old queues, a command outstanding.

**Launcher** is `nvmetoy.sh` for a set of invocations, one action per command
that looks at or changes shared state, `set -e` and the signals as aborts into
the EXIT trap, and another user who mounts and unmounts (external). The pipeline
at line 92 is three steps: `tee` truncates the map, `cat` and `filefrag` look at
the device, before or after that, and `tee` writes what has arrived, whatever has
become of the device meanwhile. In the trap, `umount` and the bind may fail, which
`|| true` ignores (35, 40), and the trap may end before either: HUP, INT and TERM
stay trapped while it runs (44-46) and their `exit` leaves the rest out, and so
does a failing `echo` (39, `set -e`), as to a terminal that is gone. Four history
variables say which instance unbound the device last (`taken_by`), which ones had
the map in use together (`overlapped`), and whose trap left a mount or an unbound
device (`not_unmounted`, `not_bound`). SIGKILL, which no trap sees, is left out.

The `MC*` modules instantiate these for TLC. Operators marked *Mutant* in a
comment are deliberate bugs: put in place of the definition below them they must
break the property listed with them in `PROJECT.json`. They take part in no
specification.

## 3. Runs

| run | configuration | shows |
|---|---|---|
| `queue_pair` | depth 3, 4 cids, 1 idle poll, 6 commands | phase tags exact, Ok answers the own command, fetches in order, mismatch only after a timeout, calls return, CommandChannel implemented |
| `completion_slot` | 4 words, 3 laps | what is used of an accepted entry is of one entry, the one awaited |
| `data_path` | 3 blocks, 3 pages of 1 block, 2 I/O and 1 admin command | PRP list right for every outstanding command; BlockStore implemented |
| `data_path_late` | same, one content | *violated*: an Ok write whose data is not on the device |
| `transfer` | the code's sizes, a usize of 29 bits; 9 formats, 3 BARs, arguments at each edge | the command is the call, every access keeps to the ring of its own queue, the list or the data, whichever it is for, no assert fails |
| `file_blocks` | u64 of 5 values, up to 3 extents | check is membership and returns |
| `repl` | 4 blocks of 2 bytes, file {1, 2}, 2 commands | confined, no panic, poke and write exact when the sizes agree |
| `session` | 3 blocks, file {0, 1}, 2 I/O and 1 admin command | blocks outside the file are never written and every command comes back to the prompt, timeouts and late commands included |
| `block_map` | 3 maps with numbers of 1 and 2 digits, u64 of 15 values, every range asked for | what loads is the beginning of one map; a complete map loads completely; what check accepts with it is of that map's file |
| `bring_up` | 3 polls, entry sizes that fit, do not, or are a range, queue limits 63 and 64 | open programs only a stopped controller, uses only a running one, inherits nothing from a killed process, hands out only a complete driver, returns |
| `launcher` | 2 invocations and another user | what is left mounted or unbound at the end was left by a trap that failed or was cut short; until one invocation has left, one holder of the device; a REPL confined to its own file unless another invocation was at the map at the same time |
| `launcher_exclusive` | same | *violated*: kernel driver bound under a live REPL |

Bounds. Six commands on rings of three slots wrap both rings twice and the
4-value cid once, and two timeouts reach the overrun of the submission ring.
Three pages are the fewest that use the PRP list; counts 0, 1, 3 and 4 are
refused, one page, the list, and too large; two I/O commands and one Identify
are enough for a late command to meet calls on either queue. Contents are
interchangeable, hence the symmetry set. Three extents over five values contain
every relation between neighbours: apart, adjacent, overlapping, nested, empty,
wrapping, in both orders. Two-byte blocks with texts of 1, 2, 3 and 5 bytes are
a partial block, a full one, a partial second one, and more than
`MAX_TRANSFER_BYTES`; map sizes 0, 1, 2, 4 are missing, smaller, right, larger.
In `transfer` the counts are 0, 1, the last that needs no PRP list, those that
fill the data area for each block size, one more, and the largest u16; blocks of
32 and 16 bytes are the two sides of what the u16 count can carry (no legal
format is below 512). A `usize` has 29 bits in place of 64, so that the formats of
2^14 and 2^29 bytes wrap the length of a read and the block size, as absurd `lbads`
do in the code. The slots are the first and the last of a ring. A double word is 4 instead of 2^32, since a start address
is only split and joined. Three laps of a slot are both phases and their reuse.
In `session` the loss threshold is 1, so that a late command meets every later
call, and the one block outside the file is next to it. The maps differ in size,
length and digits, so that a cut number is another number: 13 cut to 1 would be
an extent at another place. Two extents, of two digits and of one, adjacent in one
map and out of order in the other, are the fewest that have a line before and one
behind them cut. The third map is of a file without extents.
Deadlock is checked for `block_map` and `completion_slot`; elsewhere not: the systems stop when the bound of commands is used up,
when `check` or `open` has returned, and when all invocations have exited.

Fairness. `CallReturns` assumes that a call which has started runs on, nothing
of the controller. The loop waits for Enter at each poll; at end of input
`read_line` returns at once, so the assumption is that the operator presses
Enter or closes the input. `OpenReturns` and `CheckReturns` assume the same of
`open` and `check`, and `BackAtPrompt` of the session: steps of the driver and
of `poke` are taken, nothing is assumed of the controller or of what is typed.
`BorrowedIsReturned` assumes that a started script goes on,
which includes that its operator leaves the REPL. No fairness is assumed of
other users, of failures or of signals; a step that always fails is one that the
script takes all the same, and the property then excepts the invocation whose
trap it was.

The types of the launcher are not checked by a run, since its theorem `TypeCorrect`
has them for every instance.

## 4. Disagreements and premises

Two properties that the sources state do not hold of the code; TLC gives the
behaviour:

1. **A write returns Ok and its data is not there** (`data_path_late`). After a
   timeout the abandoned command is still outstanding; the next write fills the
   same data area, and the late command reads from it or writes into it. The
   REPL reports the write as done.
2. **The trap of one launcher ends another's exclusivity**
   (`launcher_exclusive`). A second invocation finds no block device, exits, and
   its EXIT trap binds the kernel driver while the first one's REPL runs.

Other properties hold under a premise that the code does not test. The models
contain the behaviours without it:

3. *Two block sizes* (`SizesAgree` in Repl). The file check counts with the map's
   size, the driver with its own. The launcher takes the map's size from the
   kernel, so they differ only for a map made by hand or left from another
   format, which the README's direct start of the REPL allows. `Confined` without
   the premise does not hold.
4. *Plain formats* (`Plain` in Transfer). `flbas & 0xF` leaves out FIDXU, which
   the comment on the field names (`nvme_spec.rs:357`), so a namespace of format
   16 or more gets another format's block size; and interleaved metadata makes
   the controller move more per block than the PRP entries were set up for. `Plain`
   also has that nothing wraps (`NoWrap`): blocks of 32 bytes or more, for the u16
   count, and 65 535 of them within a `usize`. In a release build `1 << lbads` is
   masked from 64 on and `block_size * block_count` wraps from an `lbads` of about 49
   on; no format that exists comes near either, and nothing in the code tests it.
5. *Overlapping invocations* (`NoneHasLeft` in HeldByOne, `overlapped` in
   OwnFileUnlessOverlapped). Point 2 for the device. And the map has one path, which
   `tee` writes to whenever it gets something. Of two invocations that have both
   passed their guards, one may truncate or fill the map at any time until the other
   loads it, also after the other has unbound the device: its `filefrag` may be done
   and its `tee` not. A REPL is then confined to the other's file or to an empty
   map. `OwnFileUnlessOverlapped` says that nothing short of that confines it to
   another file. A map that is replaced after it was loaded does no harm to that REPL.
6. *The trap runs to its end* (`not_unmounted`, `not_bound` in
   RestingStateRestored and BorrowedIsReturned). The script means to restore the
   resting state "no matter how the repl ends" (`nvmetoy.sh:7-8`). It does however
   the REPL ends, and whatever fails before the trap; but a `umount` or a bind that
   fails in the trap is ignored, and a second Ctrl-C, a TERM or a HUP while it runs,
   or an `echo` that cannot write, ends it. Then the device stays unbound, or mounted,
   until somebody else sees to it. Both properties except what the trap itself left
   in this way, and only that.
7. *No mount after the test.* The mount test at `nvmetoy.sh:50` is stale at the
   unbind (line 100): a mount in between loses its device. `OtherMount` may take
   place there; no property is stated about it.
8. *One writer of the map at a time.* The invocations of point 5 may also write
   their maps at the same time. The overtaken `tee` keeps its offset, so what its
   `filefrag` still delivers lands in or behind the other map, and the file is then
   a mixture of both. BlockMap leaves this out: the overtaken writer stops.

## 5. Proofs

Each `*Proofs` module extends the module it is about; **DataPathProofs** covers
DataPath and Session, which extends it, and **FileBlocksProofs** covers FileBlocks
and BlockMap. Every invariant and both refinements that a run checks are theorems.

| theorem | module | states |
|---|---|---|
| `Invariance`, `TypeCorrect` | QueuePairProofs | the inductive invariant and the types |
| `PhaseTagIsExact` | QueuePairProofs | a poll matches iff a completion is waiting, and finds the oldest |
| `OkAnswersOwnCommand` | QueuePairProofs | Ok carries the own completion, up to a full round of cids |
| `ControllerFetchesInOrder` | QueuePairProofs | no announced command is skipped or repeated before the ring can be overrun |
| `MismatchImpliesTimeout` | QueuePairProofs | the cid error needs an earlier timeout |
| `ImplementsCommandChannel` | QueuePairProofs | the queue pair is a CommandChannel |
| `NeverTorn`, `TagIsRecent` | CompletionSlotProofs | an accepted entry is used whole; its tag word is at most one lap old |
| `PrpListIsStable` | DataPathProofs | every outstanding block is at its own place in the data area |
| `StoreInvariance`, `TypeCorrect` | DataPathProofs | the invariant of the refinement and the types |
| `ImplementsBlockStore` | DataPathProofs | until a timeout the driver is a BlockStore |
| `SessionConfined`, `CommandsConfined` | DataPathProofs | no block outside the file is ever changed, no command ever names one |
| `EntryIsTheCall` | TransferProofs | bytes, blocks and places of the submission entry are the call's |
| `AccessesKeepToTheirArea`, `AssertsHold` | TransferProofs | every access stays in the ring of its own queue, the list or the data, whichever it is for; no assert fails |
| `WalkIsCorrect`, `CheckIsSound`, `CheckIsComplete` | FileBlocksProofs | check accepts a range iff it is part of the file |
| `LoadIsCorrect` | FileBlocksProofs | the invariant of writer, parse and check together |
| `MapLoadsAsPrefix`, `MapLoadsCompletely` | FileBlocksProofs | what loads is the beginning of one map, all of it if all was there |
| `ReplKeepsToTheMapped` | FileBlocksProofs | what check accepts is of the file whose map was loaded |
| `CommandsStayInTheFile`, `CommandsNeverPanic` | ReplProofs | with equal block sizes: confined, no panic |
| `PokeIsExact`, `WriteIsExact` | ReplProofs | the bytes on the device after `poke` and `write` |
| `ProgramsStoppedController`, `CommandsReachOwnController` | BringUpProofs | registers are written to a stopped controller, commands given to a running one |
| `InheritsNothing`, `OpenHandsOutCompleteDriver`, `UnmapsOnlyUnderAbandoned` | BringUpProofs | nothing is left of a killed process; what `open` returns is complete; when memory may go under a command |
| `RestoresRestingState` | LauncherProofs | bound and unmounted at the end, but for what a trap that failed or was cut short left |
| `UnbindLetsOneThrough`, `ReplHasItsOwnFile` | LauncherProofs | one holder until an invocation has left; the own file unless another was at the map at the same time |

They hold for every value of the constants under the named assumptions:
`QUEUE_DEPTH >= 2`, a non-empty cid space, any polling limit and any number of
commands; at least one page and one block per page, a PRP list that holds all
pages but the first (`DATA_PAGES - 1 <= PRP_LIST_CAPACITY`, 506 <= 512 in the
code), and a loss threshold of at least 1 (it is `QUEUE_DEPTH - 1`); any u64 width
and any number of extents; any set of maps whose numbers fit the u64 and whose
flags are 0 or 1, which is what `awk` prints; any file within the device; words of 4, 8 or 16 bytes
and any number of laps; any region address, any width of `usize`, any namespace and any BAR with a four-bit
DSTRD; any block size of the device, also one that differs from the map's; any
number of invocations of the launcher. The sizes and offsets in Transfer are the
code's own numbers.

*Queue pair.* None of the properties is inductive: the phase of a slot says
nothing unless all slots are known. `CompletionRing` says where both sides are:
slots below the controller's tail carry the tag of its lap, the others that of
the lap before; the driver is on the same lap behind the tail or on the lap
before and ahead of it; and the doorbell trails the head by the entry a call
holds. From this the equivalence of "tag matches" and "something is waiting"
follows by arithmetic. `CidsFollowSerials` ties every cid in every ring slot to
its serial modulo `CID_SPACE`, so equal cids mean equal serials or a distance of
at least `CID_SPACE`. `SubmissionRing` (before `QUEUE_DEPTH - 1` timeouts) counts
the announced slots and the commands in flight; `OneCompletionPerCall` bounds
them by the timeouts, which is why the missing test for a full ring does no harm
until then. `OneOutstanding` is the situation before the first timeout.

*The queue pair as a channel.* The channel's completions are those between the
two ends of the completion ring, as a sequence, with the one a call has taken but
not returned in front; its pending commands are in announced slots, in flight, or
about to be announced. `SerialsUnique` adds that no serial is in two of these
places, so that a fetch only moves a command and a post removes exactly one.
Storing an entry is Issue; ringing the doorbell is a stutter or, where it overruns
the ring after enough timeouts, Lose; the last idle poll is GiveUp (the exact
phase tag is what says that nothing is waiting then); the return is Answer; a post
is Complete; other polls, taking the entry and fetches are stutters.

*PRP list.* `PointersInvariant`: entry i of the list, wherever some outstanding
command uses it, is page i + 1. Later calls rewrite a prefix of the list, with
the same values.

*The driver as an array of blocks.* While nothing has timed out, `OnlyThisCall`
says that the controller holds the command of the call in progress and no other;
`SoFar` says what its moves have done: a write's data is still in the data area,
every block has been moved or is about to be, and each block of the device is as
it was or as the write wants it. A call is Begin with its first step and takes
effect in the abstract store with its last: WriteOk, ReadOk, IdentifyOk or Fail;
the steps between are stutters. The first timeout is Break, and Unspecified allows
every step after it.

*Session.* `SessionInvariant`: the call about to be submitted, and every block
still to be moved for any command, is within the file. Confinement alone is not
inductive, because the command that writes a block was checked long before.
`poke` writes to the block of the last call without a range of its own, hence
the clause on `call.slba`.

*Transfer.* `EntryBuilt` carries the entry and the list from the step that builds
them to the controller's reading, and that the entry counts the blocks of the call
(`CountsBlocks`). A write of blocks of 32 bytes or more has at most 64 896 of them in
the data area, so the u16 count does not wrap (`WriteCounts`); a read has its count
from the caller, and what must not wrap is its length in a `usize` (`ReadCounts`).
`CallFits` bounds every call by the data area, hence its list by 506 entries.
`PartBounds` has where the six parts begin and end, wherever the region is, and
`InsideArea` is proved of each access by the slot or length it has: within its own
part and apart from the five others. That 2^n is positive is out of the provers'
reach for every n: of a block size it is not needed, of the size of a `usize` it is
an assumption (`UsizeAssumption`), and for the doorbell stride, whose exponent has
four bits, it is checked case by case.

*Completion slot.* `TagInvariant`: the word with the phase tag, in memory and in
the copy, is of the lap awaited or the one before. So equal parity means equal
lap; the cid comes from the same word (`OneWord`, by the offsets 12 and 14).

*check.* `WalkInvariant`: everything between the start of the range and the
point reached is in the file. An extent whose end wraps holds no block, since
its computed end is not above its start.

*Map file.* `LoadsPrefix` is not inductive: it says nothing until parse has ended.
`ParsedUpTo` says that the file opened was w complete lines of a map and a part c of
the next one, and that of these k have been parsed: the lines still to be parsed are
those from k + 1 on, the extents collected those of the first k lines. w, k and c
are found anew in each state, so that each step is an argument about one line, by
its position in the map, and no induction over lines is needed. `LineIs` says what a
line is by its position: the header, the size, an extent, or the part. The part is
never taken for an extent, because the flag that ends an extent line has one digit
and what is cut before it has two fields at most (`CutIs`). It may be taken for
the size, which is why the block size is only promised where extents follow it.
The writer cannot disturb any of it, since `from`, w and c are of the moment of
opening. The walk then has the extents of a prefix, and `AcceptedIsMapped` takes the
invariant of check over to the file behind the map.

*REPL.* `PokeHolds` is what is left for `poke`'s second half: the device is as it
was when the line was typed, the buffer is the block read with the patch in it,
the patch fits and the block is in the file. The bytes of a write are found by
position: byte k of block b is byte (b - lba) * LBA_SIZE + k + 1 of the padded
text, and it is one of the text's blocks iff that is one of its bytes
(`ByteOfBlock`, `BlocksOfText`).

*Bring-up.* `Progress` ties each step of `open` to the registers and memory it
may count on. `DownIsEmpty`: a controller that has reported not ready holds
neither I/O queues nor commands; this is what makes the wait after clearing EN
(`nvmetoy.rs`, `reset_and_enable`) end the inheritance from a killed process.
`OneWaits` says who waits for the one command of this process, or that nobody
does any more. `QueuesSoFar` collects what the answered admin commands created.

*Launcher.* `Places`: an instance with a `MOUNT_DIR` is at a step that cleans up.
`MountsAccountedFor`: a mount belongs to an instance that has not left, or to one
whose trap left it. `TakerWillBind`: while the device is unbound, the one that
unbound it last has yet to come to its bind, or its trap left it so; another's bind
only ends the premise. `OneHolder`: as long as none has left, a holder is alone and
the device is unbound, because an unbind of an unbound device fails. `MapAlone`: an
instance that has overlapped with nobody is the only one past its guards and short
of its load, so what it has truncated and written is what it loads.

Only model-checked: the liveness properties `CallReturns`, `OpenReturns`,
`CheckReturns`, `BorrowedIsReturned` and `BackAtPrompt`. The proof system has no
ENABLED or fairness.

## 6. Not modelled

* `nvme_identify.rs`: formats one answer for the terminal and keeps no state;
* printing, completion, history and `list` of the REPL, and `total_lbas`, a sum
  for display: terminal output without effect on the device;
* the struct fields that are only printed (`nvme_spec.rs`); the repository's unit
  tests check their offsets, and the offsets the driver depends on are in
  Transfer and CompletionSlot;
* `lib.rs` (module declarations) and `xnvmetoy` (a stub);
* `run-swissknife.sh`: a sequence of commands that ends in `nvmetoy.sh`;
* a map longer than one buffer that is truncated between two reads (section 2), and
  two invocations writing the map at the same time (section 4, point 8);
* memory ordering between the store of an entry and the doorbell: the fences of
  `queue_pair.rs` are taken to do what they say.

## 7. Plan

Done, in this order: QueuePair with its channel, FileBlocks, DataPath over the
channel, Repl, BringUp, Launcher; then Session, Transfer, CompletionSlot,
BlockMap, and processes that are killed in BringUp; then the proofs of section 5:
the queue pair, the PRP list, check, the completion slot and the session first;
after them bring-up, launcher, the two refinements, the REPL's bytes and the
transfer; last the map file, composed with check. Left: what else the proved
invariants give, namely `SizesAgree` and `Plain` as the weakest premises, and
confinement of a session whose map another launcher replaces.
