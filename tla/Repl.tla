--------------------------------- MODULE Repl ---------------------------------
(***************************************************************************)
(* The commands of src/src/bin/nvmetoy_repl.rs that reach the device:      *)
(* read, write, fill, peek and poke, over confined_read and                *)
(* confined_write.  FileBlocks::check is what FileBlocks shows it to be:   *)
(* membership of every block in the file.  The driver is the BlockStore    *)
(* that DataPath implements until a command times out: a call succeeds, or *)
(* fails with an error that leaves each block of a write old or new.       *)
(*                                                                         *)
(* Two block sizes meet here: the REPL computes with device_lba_size of    *)
(* the map file, the driver with the size it learnt from Identify.         *)
(***************************************************************************)
EXTENDS Integers, Sequences

CONSTANTS
  DEVICE_BLOCKS, LBA_SIZE,  \* the namespace, as the driver sees it
  File,                     \* blocks of the file the map describes
  MapSizes,                 \* what device_lba_size may say (0: no such line)
  MAX_TRANSFER_BYTES,
  U16_MAX,                  \* largest block count of one command (65535)
  Old, Zero, Chars,         \* bytes: on the device before, padding, typed
  Lbas, Counts, Offsets, Lengths,  \* what the operator types
  MaxCommands               \* bound of the model: commands typed

ASSUME DeviceAssumption ==
  DEVICE_BLOCKS \in Nat \ {0} /\ LBA_SIZE \in Nat \ {0}
ASSUME FileAssumption == File \subseteq 0 .. DEVICE_BLOCKS - 1
ASSUME InputAssumption ==
  /\ MapSizes \subseteq Nat /\ MAX_TRANSFER_BYTES \in Nat /\ U16_MAX \in Nat
  /\ Lbas \subseteq Nat /\ Counts \subseteq Nat
  /\ Offsets \subseteq Nat /\ Lengths \subseteq Nat \ {0}
  /\ MaxCommands \in Nat

VARIABLES
  device,           \* bytes of each block
  device_lba_size,  \* from the map file
  pc,               \* "prompt", "poke" between its read and write, "down"
  command,          \* the command being run, or the last one
  buffer,           \* poke's buffer
  result,           \* "ok", "error" or "panic"
  typed,            \* commands typed so far
  before            \* history: device when the command was typed

vars == <<device, device_lba_size, pc, command, buffer, result, typed, before>>

Blocks == 0 .. DEVICE_BLOCKS - 1
NoCommand == [op |-> "none", lba |-> 0, offset |-> 0, text |-> << >>]

Init ==
  /\ device = [b \in Blocks |-> [k \in 0 .. LBA_SIZE - 1 |-> Old]]
  /\ device_lba_size \in MapSizes
  /\ pc = "prompt"
  /\ command = NoCommand
  /\ buffer = << >>
  /\ result = "none"
  /\ typed = 0
  /\ before = device

------------------------------------------------------------------------------
(* FileBlocks::check and the driver *)

\* Mutant: only the first block is looked up.
CheckFirst(lba, count) == count = 0 \/ lba \in File

Check(lba, count) == \A b \in lba .. lba + count - 1 : b \in File

\* The bytes of a block as read returns them.
BytesOf(b) == [j \in 1 .. LBA_SIZE |-> device[b][j - 1]]

\* data laid over the device from a block on, as far as the chosen blocks.
Overlaid(lba, data, chosen) ==
  [b \in Blocks |->
     IF b \in chosen
       THEN [k \in 0 .. LBA_SIZE - 1 |-> data[(b - lba) * LBA_SIZE + k + 1]]
       ELSE device[b]]

\* NvmeUserspaceDriver::write refuses data before it submits anything.
DriverRefuses(data) ==
  Len(data) % LBA_SIZE # 0 \/ Len(data) > MAX_TRANSFER_BYTES

\* The blocks a write of data is a command for.
Target(lba, data) == lba .. lba + (Len(data) \div LBA_SIZE) - 1

------------------------------------------------------------------------------
(* confined_read and confined_write *)

ReadRefused(lba, count) ==
  \/ ~Check(lba, count)
  \/ count > U16_MAX
  \/ count * LBA_SIZE > MAX_TRANSFER_BYTES

WriteRefused(lba, data) ==
  \/ data = << >>
  \/ Len(data) % device_lba_size # 0
  \/ ~Check(lba, Len(data) \div device_lba_size)
  \/ DriverRefuses(data)

Answer(r) ==
  /\ result' = r
  /\ pc' = IF r = "panic" THEN "down" ELSE "prompt"

\* A command that ends without having touched the device.
Ends(r) == Answer(r) /\ UNCHANGED <<device, buffer>>

ConfinedWrite(lba, data) ==
  \/ WriteRefused(lba, data) /\ Ends("error")
  \/ /\ ~WriteRefused(lba, data)
     /\ Target(lba, data) \subseteq Blocks
     /\ device' = Overlaid(lba, data, Target(lba, data))
     /\ Answer("ok")
     /\ UNCHANGED buffer
  \/ /\ ~WriteRefused(lba, data)
     /\ \E chosen \in SUBSET (Target(lba, data) \cap Blocks) :
          device' = Overlaid(lba, data, chosen)
     /\ Answer("error")
     /\ UNCHANGED buffer

------------------------------------------------------------------------------
(* run_repl_line *)

Types(op, lba, offset, text) ==
  /\ pc = "prompt"
  /\ typed < MaxCommands
  /\ typed' = typed + 1
  /\ command' = [op |-> op, lba |-> lba, offset |-> offset, text |-> text]
  /\ before' = device
  /\ UNCHANGED device_lba_size

\* read: print_read divides by the map's block size, also for no blocks at all.
Read(lba, count) ==
  /\ Types("read", lba, 0, << >>)
  /\ \/ count # 0 /\ ReadRefused(lba, count) /\ Ends("error")
     \/ /\ count = 0 \/ ~ReadRefused(lba, count)
        /\ Ends(IF device_lba_size = 0 THEN "panic" ELSE "ok")
     \/ count # 0 /\ ~ReadRefused(lba, count) /\ Ends("error")

\* Mutant: text that fills its last block gets another one.
PaddedWithExtraBlock(text) ==
  [j \in 1 .. (Len(text) \div device_lba_size + 1) * device_lba_size |->
     IF j <= Len(text) THEN text[j] ELSE Zero]

\* write_blocks: text in whole blocks, the tail zeroed.
Padded(text) ==
  [j \in 1 .. ((Len(text) + device_lba_size - 1) \div device_lba_size)
                * device_lba_size |->
     IF j <= Len(text) THEN text[j] ELSE Zero]

Write(lba, text) ==
  /\ Types("write", lba, 0, text)
  /\ IF device_lba_size = 0
       THEN Ends("panic")
       ELSE ConfinedWrite(lba, Padded(text))

Fill(lba, char, count) ==
  LET bytes == count * device_lba_size
      data == [j \in 1 .. bytes |-> char]
  IN /\ Types("fill", lba, 0, data)
     /\ IF count = 0 \/ bytes > MAX_TRANSFER_BYTES \/ bytes = 0
          THEN Ends("error")
          ELSE ConfinedWrite(lba, data)

\* Mutant: one byte too many.
FitsButOne(offset, len) ==
  offset < device_lba_size /\ len <= device_lba_size - offset + 1

\* The test of peek and poke that the range fits in the block.
FitsInBlock(offset, len) ==
  offset < device_lba_size /\ len <= device_lba_size - offset

\* peek: slicing the block panics where the driver's block is the shorter one.
Peek(lba, offset, len) ==
  /\ Types("peek", lba, offset, << >>)
  /\ \/ /\ ~FitsInBlock(offset, len) \/ ReadRefused(lba, 1)
        /\ Ends("error")
     \/ /\ FitsInBlock(offset, len) /\ ~ReadRefused(lba, 1)
        /\ Ends(IF offset + len > LBA_SIZE THEN "panic" ELSE "ok")
     \/ FitsInBlock(offset, len) /\ ~ReadRefused(lba, 1) /\ Ends("error")

\* Mutant: the patch is put into a blank block.
PatchedBlank(block, offset, text) ==
  [j \in 1 .. Len(block) |-> IF j - 1 \in offset .. offset + Len(text) - 1
                               THEN text[j - offset] ELSE Zero]

Patched(block, offset, text) ==
  [j \in 1 .. Len(block) |-> IF j - 1 \in offset .. offset + Len(text) - 1
                               THEN text[j - offset] ELSE block[j]]

\* poke, up to its write.
PokeRead(lba, offset, text) ==
  /\ Types("poke", lba, offset, text)
  /\ \/ /\ ~FitsInBlock(offset, Len(text)) \/ ReadRefused(lba, 1)
        /\ Ends("error")
     \/ /\ FitsInBlock(offset, Len(text)) /\ ~ReadRefused(lba, 1)
        /\ IF offset + Len(text) > LBA_SIZE
             THEN Ends("panic")
             ELSE /\ buffer' = Patched(BytesOf(lba), offset, text)
                  /\ pc' = "poke"
                  /\ UNCHANGED <<device, result>>
     \/ FitsInBlock(offset, Len(text)) /\ ~ReadRefused(lba, 1) /\ Ends("error")

PokeWrite ==
  /\ pc = "poke"
  /\ ConfinedWrite(command.lba, buffer)
  /\ UNCHANGED <<device_lba_size, command, typed, before>>

------------------------------------------------------------------------------
Texts == UNION {[1 .. n -> Chars] : n \in Lengths}

Next ==
  \/ \E lba \in Lbas, count \in Counts : Read(lba, count)
  \/ \E lba \in Lbas, text \in Texts : Write(lba, text)
  \/ \E lba \in Lbas, char \in Chars, count \in Counts : Fill(lba, char, count)
  \/ \E lba \in Lbas, offset \in Offsets, len \in Lengths \cup {0} :
       Peek(lba, offset, len)
  \/ \E lba \in Lbas, offset \in Offsets, text \in Texts :
       PokeRead(lba, offset, text)
  \/ PokeWrite

Spec == Init /\ [][Next]_vars

------------------------------------------------------------------------------
(* Properties *)

SizesAgree == device_lba_size = LBA_SIZE

\* Blocks that are not part of the file are never written.
Confined == \A b \in Blocks \ File : device[b] = before[b]

\* With the map's block size equal to the driver's, the REPL stays in its file,
\* whatever fails on the way.
ConfinedWhenSizesAgree == SizesAgree => Confined

\* With equal sizes no command crashes the REPL: every slice and every division
\* is within bounds.
NoPanicWhenSizesAgree == SizesAgree => result # "panic"

\* poke keeps every byte outside its patch, also when its write fails halfway.
PokeKeepsRest ==
  SizesAgree /\ command.op = "poke" =>
    \A b \in Blocks, k \in 0 .. LBA_SIZE - 1 :
      \/ device[b][k] = before[b][k]
      \/ /\ b = command.lba
         /\ k \in command.offset .. command.offset + Len(command.text) - 1
         /\ device[b][k] = command.text[k - command.offset + 1]

\* A write that returned Ok has put its text from the start of the first block
\* on, zeroes to the end of the last block, and left the next block alone.
WriteZeroesTail ==
  SizesAgree /\ command.op = "write" /\ result = "ok" =>
    \A b \in Blocks, k \in 0 .. LBA_SIZE - 1 :
      LET j == (b - command.lba) * LBA_SIZE + k + 1
          len == Len(command.text)
      IN device[b][k] =
           IF j \in 1 .. len THEN command.text[j]
           ELSE IF b \in command.lba .. command.lba + ((len - 1) \div LBA_SIZE)
                  THEN Zero ELSE before[b][k]
=============================================================================
