------------------------------ MODULE ReplProofs ------------------------------
(***************************************************************************)
(* Proofs about Repl: with the map's block size equal to the driver's, the *)
(* commands stay in the file, never crash, and write exactly the bytes the *)
(* operator typed, for every device, file, block size and text.            *)
(***************************************************************************)
EXTENDS Repl, TLAPS

\* The device is an array of blocks, now and when the command was typed.
Shapes ==
  /\ device = [b \in Blocks |-> device[b]]
  /\ before = [b \in Blocks |-> before[b]]

\* Between its read and its write poke holds the block it read, patched, has
\* not touched the device and knows that its patch fits in a block of the file.
PokeHolds ==
  pc = "poke" =>
    /\ command.op = "poke"
    /\ command.lba \in File
    /\ command.offset \in Nat
    /\ command.text \in Seq(Chars)
    /\ command.offset + Len(command.text) <= LBA_SIZE
    /\ device = before
    /\ buffer = Patched(BytesOf(command.lba), command.offset, command.text)

\* The inductive invariant.
ReplInvariant ==
  /\ device_lba_size \in MapSizes
  /\ Shapes
  /\ PokeHolds
  /\ ConfinedWhenSizesAgree
  /\ NoPanicWhenSizesAgree
  /\ PokeKeepsRest
  /\ WriteZeroesTail

\* At the first prompt no command has been typed.
LEMMA InitRepl == Init => ReplInvariant
<1> SUFFICES ASSUME Init PROVE ReplInvariant
  OBVIOUS
<1>1. device = [b \in Blocks |-> [k \in 0 .. LBA_SIZE - 1 |-> Old]]
  BY DEF Init
<1>2. Shapes
  BY <1>1 DEF Init, Shapes
<1> QED
  BY <1>2 DEF Init, NoCommand, ReplInvariant, PokeHolds, ConfinedWhenSizesAgree,
     Confined, NoPanicWhenSizesAgree, PokeKeepsRest, WriteZeroesTail

\* What a write may do to the device: nothing, or to lay its data over blocks it
\* is a command for, over all of them if it returns Ok.
LEMMA WriteEffect ==
  ASSUME ReplInvariant, SizesAgree,
         NEW lba \in Nat, NEW data, Len(data) \in Nat,
         ConfinedWrite(lba, data)
  PROVE  /\ UNCHANGED buffer
         /\ result' \in {"ok", "error"}
         /\ pc' = "prompt"
         /\ \/ device' = device /\ result' = "error"
            \/ \E chosen \in SUBSET (File \cap Target(lba, data)) :
                 /\ device' = Overlaid(lba, data, chosen)
                 /\ result' = "ok" => chosen = Target(lba, data)
<1>1. CASE WriteRefused(lba, data)
  BY <1>1 DEF ConfinedWrite, Ends, Answer
<1>2. CASE ~WriteRefused(lba, data)
  <2>1. Target(lba, data) \subseteq File
    BY <1>2 DEF WriteRefused, Check, Target, SizesAgree
  <2> QED BY <1>2, <2>1 DEF ConfinedWrite, Answer
<1> QED BY <1>1, <1>2

\* A write leaves an array of blocks and ends its command.
LEMMA WriteShape ==
  ASSUME ReplInvariant, NEW lba, NEW data, ConfinedWrite(lba, data)
  PROVE  device' = [b \in Blocks |-> device'[b]] /\ pc' # "poke"
BY DEF ConfinedWrite, Overlaid, Ends, Answer, ReplInvariant, Shapes

\* A command that ends without having touched the device.
LEMMA EndsStep ==
  ASSUME ReplInvariant, NEW op, NEW lba, NEW offset, NEW text, NEW r,
         Types(op, lba, offset, text), Ends(r),
         SizesAgree => r # "panic", op = "write" => r # "ok"
  PROVE  ReplInvariant'
<1>1. /\ device' = device /\ before' = device
      /\ device_lba_size' = device_lba_size
      /\ command' = [op |-> op, lba |-> lba, offset |-> offset, text |-> text]
      /\ result' = r /\ pc' # "poke"
  BY DEF Types, Ends, Answer
<1>2. command'.op = op
  BY <1>1
<1>3. device_lba_size' \in MapSizes /\ Shapes' /\ PokeHolds'
  BY <1>1 DEF ReplInvariant, Shapes, PokeHolds
<1>4. ConfinedWhenSizesAgree' /\ PokeKeepsRest'
  BY <1>1 DEF ConfinedWhenSizesAgree, Confined, PokeKeepsRest
<1>5. NoPanicWhenSizesAgree' /\ WriteZeroesTail'
  BY <1>1, <1>2 DEF NoPanicWhenSizesAgree, WriteZeroesTail, SizesAgree
<1> QED BY <1>3, <1>4, <1>5 DEF ReplInvariant

\* write or fill: only blocks of the file change.
LEMMA TypedWrite ==
  ASSUME ReplInvariant, NEW op \in {"write", "fill"}, NEW lba \in Nat,
         NEW text, NEW data, Len(data) \in Nat,
         Types(op, lba, 0, text), ConfinedWrite(lba, data)
  PROVE  /\ device_lba_size' \in MapSizes /\ Shapes' /\ PokeHolds'
         /\ ConfinedWhenSizesAgree' /\ NoPanicWhenSizesAgree' /\ PokeKeepsRest'
         /\ op = "fill" => WriteZeroesTail'
<1>1. /\ before' = device /\ device_lba_size' = device_lba_size
      /\ command' = [op |-> op, lba |-> lba, offset |-> 0, text |-> text]
  BY DEF Types
<1>2. command'.op = op
  BY <1>1
<1>3. device_lba_size' \in MapSizes /\ Shapes' /\ PokeHolds'
  BY <1>1, WriteShape DEF ReplInvariant, Shapes, PokeHolds
<1>4. ConfinedWhenSizesAgree' /\ NoPanicWhenSizesAgree'
  <2> SUFFICES ASSUME SizesAgree
               PROVE  Confined' /\ result' # "panic"
    BY <1>1 DEF ConfinedWhenSizesAgree, NoPanicWhenSizesAgree, SizesAgree
  <2>1. result' \in {"ok", "error"}
    BY WriteEffect
  <2>2. ASSUME NEW b \in Blocks \ File
        PROVE  device'[b] = device[b]
    BY WriteEffect DEF Overlaid
  <2> QED BY <1>1, <2>1, <2>2 DEF Confined
<1>5. PokeKeepsRest' /\ (op = "fill" => WriteZeroesTail')
  BY <1>2 DEF PokeKeepsRest, WriteZeroesTail
<1> QED BY <1>3, <1>4, <1>5

------------------------------------------------------------------------------
(* The bytes a write puts on the device *)

\* The length of a sequence given as a function.
LEMMA LenIs ==
  ASSUME NEW S, NEW n \in Nat, NEW f \in [1 .. n -> S]
  PROVE  Len(f) = n
OBVIOUS

\* Whole blocks divide evenly.
LEMMA WholeBlocks ==
  ASSUME NEW M \in Nat \ {0}, NEW q \in Nat
  PROVE  /\ q * M \in Nat
         /\ (q * M) \div M = q
OBVIOUS

\* A text of n bytes takes as many blocks as hold it, the last of them partly.
LEMMA BlocksOfText ==
  ASSUME NEW M \in Nat \ {0}, NEW n \in Nat \ {0}
  PROVE  LET p == (n + M - 1) \div M
         IN /\ p \in Nat \ {0}
            /\ n <= p * M
            /\ (n - 1) \div M = p - 1
OBVIOUS

\* A byte of one of the first p blocks is one of the first p * M bytes, and a
\* byte of another block is not.
LEMMA ByteOfBlock ==
  ASSUME NEW M \in Nat \ {0}, NEW p \in Nat, NEW d \in Int,
         NEW k \in 0 .. M - 1
  PROVE  d \in 0 .. p - 1 <=> d * M + k + 1 \in 1 .. p * M
<1>1. d * M \in Int /\ p * M \in Int
  OBVIOUS
<1>2. CASE d <= -1
  <2>1. d * M <= -M
    BY <1>2
  <2> QED BY <1>1, <1>2, <2>1
<1>3. CASE d >= p
  <2>1. d * M >= p * M
    BY <1>3
  <2> QED BY <1>1, <1>3, <2>1
<1>4. CASE d \in 0 .. p - 1
  <2>1. d * M >= 0 /\ (d + 1) * M <= p * M /\ (d + 1) * M = d * M + M
    BY <1>4
  <2> QED BY <1>1, <1>4, <2>1
<1> QED BY <1>2, <1>3, <1>4

\* A typed text is a sequence of at least one byte.
LEMMA TextIs ==
  ASSUME NEW text \in Texts
  PROVE  /\ text \in Seq(Chars)
         /\ Len(text) \in Nat \ {0}
         /\ text \in [1 .. Len(text) -> Chars]
<1>1. PICK n \in Lengths : text \in [1 .. n -> Chars]
  BY DEF Texts
<1>2. n \in Nat \ {0}
  BY InputAssumption
<1>3. Len(text) = n
  BY <1>1, <1>2, LenIs
<1> QED BY <1>1, <1>2, <1>3

\* The text in whole blocks of the size the map file names.
LEMMA PaddedIs ==
  ASSUME NEW text \in Texts, device_lba_size \in Nat \ {0}
  PROVE  LET M == device_lba_size
             n == Len(text)
             p == (n + M - 1) \div M
         IN /\ Len(Padded(text)) = p * M
            /\ \A j \in 1 .. p * M :
                 Padded(text)[j] = IF j <= n THEN text[j] ELSE Zero
<1> DEFINE M == device_lba_size
           n == Len(text)
           p == (n + M - 1) \div M
<1>1. n \in Nat \ {0} /\ text \in [1 .. n -> Chars]
  BY TextIs
<1>2. p * M \in Nat
  BY <1>1, BlocksOfText, WholeBlocks
<1>3. Padded(text) = [j \in 1 .. p * M |-> IF j <= n THEN text[j] ELSE Zero]
  BY DEF Padded
<1> HIDE DEF M, n, p
<1>4. ASSUME NEW j \in 1 .. p * M
      PROVE  (IF j <= n THEN text[j] ELSE Zero) \in Chars \cup {Zero}
  BY <1>1, <1>2
<1>5. Padded(text) \in [1 .. p * M -> Chars \cup {Zero}]
  BY <1>3, <1>4
<1>6. Len(Padded(text)) = p * M
  BY <1>2, <1>5, LenIs
<1> QED BY <1>3, <1>6 DEF M, n, p

\* A write that returns Ok has put the text and its tail of zeroes in place.
LEMMA WriteTail ==
  ASSUME ReplInvariant, NEW lba \in Nat, NEW text \in Texts,
         device_lba_size \in Nat \ {0},
         Types("write", lba, 0, text), ConfinedWrite(lba, Padded(text))
  PROVE  WriteZeroesTail'
<1> DEFINE M == LBA_SIZE
           n == Len(text)
           p == (n + M - 1) \div M
           data == Padded(text)
<1>1. /\ before' = device /\ device_lba_size' = device_lba_size
      /\ command'.lba = lba /\ command'.text = text
  BY DEF Types
<1> SUFFICES ASSUME SizesAgree, result' = "ok",
                    NEW b \in Blocks, NEW k \in 0 .. M - 1
             PROVE  LET j == (b - lba) * M + k + 1
                    IN device'[b][k] =
                         IF j \in 1 .. n THEN text[j]
                         ELSE IF b \in lba .. lba + ((n - 1) \div M)
                                THEN Zero ELSE device[b][k]
  BY <1>1 DEF WriteZeroesTail, SizesAgree
<1>2. M \in Nat \ {0} /\ n \in Nat \ {0} /\ b \in Int
  BY DeviceAssumption, TextIs DEF Blocks
<1>3. /\ p \in Nat \ {0} /\ n <= p * M /\ (n - 1) \div M = p - 1
      /\ p * M \in Nat /\ (p * M) \div M = p
  BY <1>2, BlocksOfText, WholeBlocks
<1>4. /\ Len(data) = p * M
      /\ \A i \in 1 .. p * M : data[i] = IF i <= n THEN text[i] ELSE Zero
  BY PaddedIs DEF SizesAgree
<1> HIDE DEF M, n, p, data
<1>5. Target(lba, data) = lba .. lba + p - 1
  BY <1>3, <1>4 DEF Target, M
<1>6. device' = Overlaid(lba, data, Target(lba, data))
  BY <1>3, <1>4, WriteEffect DEF data
<1> DEFINE d == b - lba
           j == d * M + k + 1
<1>7. d \in Int /\ (d \in 0 .. p - 1 <=> j \in 1 .. p * M)
  <2>1. d \in Int
    BY <1>2
  <2> HIDE DEF d
  <2> QED BY <2>1, <1>2, <1>3, ByteOfBlock
<1>8. /\ b \in Target(lba, data) <=> d \in 0 .. p - 1
      /\ b \in lba .. lba + ((n - 1) \div M) <=> d \in 0 .. p - 1
  BY <1>2, <1>3, <1>5
<1>9. j \in Int
  <2>1. d * M \in Int
    BY <1>2, <1>7
  <2> QED BY <2>1, <1>2
<1>10. CASE d \in 0 .. p - 1
  <2>1. device'[b][k] = data[j]
    BY <1>6, <1>8, <1>10 DEF Overlaid, M
  <2> HIDE DEF j, d
  <2>2. data[j] = IF j <= n THEN text[j] ELSE Zero
    BY <1>4, <1>7, <1>10
  <2>3. j \in 1 .. n <=> j <= n
    BY <1>2, <1>3, <1>7, <1>9, <1>10
  <2>4. device'[b][k] = IF j \in 1 .. n THEN text[j] ELSE Zero
    BY <2>1, <2>2, <2>3
  <2> QED BY <1>8, <1>10, <2>4 DEF j, d
<1>11. CASE d \notin 0 .. p - 1
  <2>1. device'[b] = device[b]
    BY <1>6, <1>8, <1>11 DEF Overlaid
  <2> HIDE DEF j, d
  <2>2. j \notin 1 .. n
    BY <1>2, <1>3, <1>7, <1>9, <1>11
  <2> QED BY <1>8, <1>11, <2>1, <2>2 DEF j, d
<1> QED BY <1>10, <1>11

------------------------------------------------------------------------------
(* poke *)

\* The patched block that poke writes back.
LEMMA PatchedIs ==
  ASSUME NEW lba, NEW offset \in Nat, NEW text, Len(text) \in Nat
  PROVE  /\ Len(Patched(BytesOf(lba), offset, text)) = LBA_SIZE
         /\ \A k \in 0 .. LBA_SIZE - 1 :
              Patched(BytesOf(lba), offset, text)[k + 1] =
                IF k \in offset .. offset + Len(text) - 1
                  THEN text[k + 1 - offset] ELSE device[lba][k]
<1> DEFINE block == BytesOf(lba)
           Patch(j) == IF j - 1 \in offset .. offset + Len(text) - 1
                         THEN text[j - offset] ELSE block[j]
<1>1. LBA_SIZE \in Nat \ {0}
  BY DeviceAssumption
<1>2. block = [j \in 1 .. LBA_SIZE |-> device[lba][j - 1]]
  BY DEF BytesOf
<1>3. Len(block) = LBA_SIZE
  <2>1. block \in [1 .. LBA_SIZE -> {device[lba][j - 1] : j \in 1 .. LBA_SIZE}]
    BY <1>2
  <2> QED BY <1>1, <2>1, LenIs
<1>4. Patched(block, offset, text) = [j \in 1 .. LBA_SIZE |-> Patch(j)]
  BY <1>3 DEF Patched
<1>5. Len(Patched(block, offset, text)) = LBA_SIZE
  <2> HIDE DEF Patch
  <2>1. Patched(block, offset, text)
          \in [1 .. LBA_SIZE -> {Patch(j) : j \in 1 .. LBA_SIZE}]
    BY <1>4
  <2> QED BY <1>1, <2>1, LenIs
<1>6. ASSUME NEW k \in 0 .. LBA_SIZE - 1
      PROVE  Patched(block, offset, text)[k + 1] =
               IF k \in offset .. offset + Len(text) - 1
                 THEN text[k + 1 - offset] ELSE device[lba][k]
  <2>1. k + 1 \in 1 .. LBA_SIZE /\ (k + 1) - 1 = k
    BY <1>1
  <2>2. block[k + 1] = device[lba][k]
    BY <1>2, <2>1
  <2>3. Patched(block, offset, text)[k + 1] = Patch(k + 1)
    <3> HIDE DEF Patch
    <3> QED BY <1>4, <2>1
  <2>4. Patch(k + 1) = IF k \in offset .. offset + Len(text) - 1
                         THEN text[k + 1 - offset] ELSE block[k + 1]
    <3> HIDE DEF block
    <3> QED BY <1>1
  <2> QED BY <2>2, <2>3, <2>4
<1> QED BY <1>5, <1>6

\* poke up to its write.
LEMMA PokeReadStep ==
  ASSUME ReplInvariant, NEW lba \in Nat, NEW offset \in Nat, NEW text \in Texts,
         PokeRead(lba, offset, text)
  PROVE  ReplInvariant'
<1>1. Len(text) \in Nat \ {0} /\ text \in Seq(Chars)
  BY TextIs
<1>2. LBA_SIZE \in Nat \ {0} /\ device_lba_size \in Nat
  BY DeviceAssumption, InputAssumption DEF ReplInvariant
<1>3. Types("poke", lba, offset, text)
  BY DEF PokeRead
<1>4. CASE Ends("error")
  BY <1>3, <1>4, EndsStep
<1>5. CASE /\ FitsInBlock(offset, Len(text)) /\ offset + Len(text) > LBA_SIZE
           /\ Ends("panic")
  <2>1. ~SizesAgree
    BY <1>1, <1>2, <1>5 DEF FitsInBlock, SizesAgree
  <2> QED BY <1>3, <1>5, <2>1, EndsStep
<1>6. CASE /\ FitsInBlock(offset, Len(text)) /\ ~ReadRefused(lba, 1)
           /\ ~(offset + Len(text) > LBA_SIZE)
           /\ buffer' = Patched(BytesOf(lba), offset, text)
           /\ pc' = "poke"
           /\ UNCHANGED <<device, result>>
  <2>1. /\ device' = device /\ before' = device /\ result' = result
        /\ device_lba_size' = device_lba_size
        /\ command' = [op |-> "poke", lba |-> lba, offset |-> offset,
                       text |-> text]
    BY <1>3, <1>6 DEF Types
  <2>2. /\ command'.op = "poke" /\ command'.lba = lba
        /\ command'.offset = offset /\ command'.text = text
    BY <2>1
  <2>3. lba \in File
    <3>1. lba \in lba .. lba + 1 - 1
      OBVIOUS
    <3> QED BY <1>6, <3>1 DEF ReadRefused, Check
  <2>4. device_lba_size' \in MapSizes /\ Shapes'
    BY <2>1 DEF ReplInvariant, Shapes
  <2>5. PokeHolds'
    <3>1. buffer' = Patched(BytesOf(lba), offset, text)'
      BY <1>6, <2>1 DEF Patched, BytesOf
    <3>2. offset + Len(text) <= LBA_SIZE
      BY <1>1, <1>2, <1>6
    <3> QED BY <1>1, <2>1, <2>2, <2>3, <3>1, <3>2 DEF PokeHolds
  <2>6. ConfinedWhenSizesAgree' /\ PokeKeepsRest'
    BY <2>1 DEF ConfinedWhenSizesAgree, Confined, PokeKeepsRest
  <2>7. NoPanicWhenSizesAgree' /\ WriteZeroesTail'
    BY <2>1, <2>2
    DEF ReplInvariant, NoPanicWhenSizesAgree, WriteZeroesTail, SizesAgree
  <2> QED BY <2>4, <2>5, <2>6, <2>7 DEF ReplInvariant
<1> QED BY <1>4, <1>5, <1>6 DEF PokeRead

\* poke's write puts back the block it read with its patch in it.
LEMMA PokeWriteStep ==
  ASSUME ReplInvariant, PokeWrite
  PROVE  ReplInvariant'
<1> DEFINE lba == command.lba
           offset == command.offset
           text == command.text
<1>1. /\ command.op = "poke" /\ lba \in File /\ offset \in Nat
      /\ text \in Seq(Chars) /\ device = before
      /\ buffer = Patched(BytesOf(lba), offset, text)
      /\ ConfinedWrite(lba, buffer)
      /\ UNCHANGED <<device_lba_size, command, before>>
  BY DEF PokeWrite, ReplInvariant, PokeHolds
<1>2. LBA_SIZE \in Nat \ {0} /\ lba \in Nat /\ Len(text) \in Nat
  <2>1. Len(text) \in Nat
    <3> HIDE DEF text
    <3> QED BY <1>1
  <2>2. lba \in 0 .. DEVICE_BLOCKS - 1
    BY <1>1, FileAssumption
  <2> QED BY <2>1, <2>2, DeviceAssumption
<1> HIDE DEF lba, offset, text
<1>3. Len(buffer) = LBA_SIZE
  BY <1>1, <1>2, PatchedIs
<1>4. device_lba_size' \in MapSizes /\ Shapes' /\ PokeHolds'
  BY <1>1, WriteShape DEF ReplInvariant, Shapes, PokeHolds
<1>5. WriteZeroesTail'
  BY <1>1 DEF WriteZeroesTail
<1> SUFFICES ASSUME SizesAgree
             PROVE  Confined' /\ result' # "panic" /\ PokeKeepsRest'
  BY <1>1, <1>4, <1>5
  DEF ReplInvariant, ConfinedWhenSizesAgree, NoPanicWhenSizesAgree,
      PokeKeepsRest, SizesAgree
<1>6. Target(lba, buffer) = {lba}
  BY <1>2, <1>3 DEF Target
<1>7. result' \in {"ok", "error"}
  BY <1>1, <1>2, <1>3, WriteEffect
<1>8. \/ device' = device
      \/ device' = Overlaid(lba, buffer, {lba})
  <2>1. \/ device' = device
        \/ \E chosen \in SUBSET {lba} : device' = Overlaid(lba, buffer, chosen)
    BY <1>1, <1>2, <1>3, <1>6, WriteEffect
  <2>2. Overlaid(lba, buffer, {}) = device
    BY DEF Overlaid, ReplInvariant, Shapes
  <2> QED BY <2>1, <2>2
<1>9. \A b \in Blocks : b # lba => device'[b] = device[b]
  BY <1>8 DEF Overlaid
<1>10. Confined'
  BY <1>1, <1>9 DEF Confined
<1>11. ASSUME NEW k \in 0 .. LBA_SIZE - 1, lba \in Blocks
       PROVE  \/ device'[lba][k] = device[lba][k]
              \/ /\ k \in offset .. offset + Len(text) - 1
                 /\ device'[lba][k] = text[k - offset + 1]
  <2>1. CASE device' = device
    BY <2>1
  <2>2. CASE device' = Overlaid(lba, buffer, {lba})
    <3>1. (lba - lba) * LBA_SIZE + k + 1 = k + 1
      BY <1>2
    <3>2. device'[lba][k] = buffer[k + 1]
      BY <1>11, <2>2, <3>1 DEF Overlaid
    <3>3. buffer[k + 1] = IF k \in offset .. offset + Len(text) - 1
                            THEN text[k + 1 - offset] ELSE device[lba][k]
      <4>1. offset \in Nat /\ Len(text) \in Nat
        BY <1>1, <1>2
      <4>2. \A i \in 0 .. LBA_SIZE - 1 :
              Patched(BytesOf(lba), offset, text)[i + 1] =
                IF i \in offset .. offset + Len(text) - 1
                  THEN text[i + 1 - offset] ELSE device[lba][i]
        BY <4>1, PatchedIs
      <4> QED BY <1>1, <4>2, Zenon
    <3>4. k + 1 - offset = k - offset + 1
      BY <1>1, <1>2
    <3> QED BY <3>2, <3>3, <3>4
  <2> QED BY <1>8, <2>1, <2>2
<1>12. PokeKeepsRest'
  BY <1>1, <1>9, <1>11 DEF PokeKeepsRest, lba, offset, text
<1> QED BY <1>7, <1>10, <1>12

------------------------------------------------------------------------------
\* Every command keeps the invariant.
LEMMA ReplStep == ReplInvariant /\ [Next]_vars => ReplInvariant'
<1> SUFFICES ASSUME ReplInvariant, [Next]_vars
             PROVE  ReplInvariant'
  OBVIOUS
<1>1. LBA_SIZE \in Nat \ {0} /\ device_lba_size \in Nat
  BY DeviceAssumption, InputAssumption DEF ReplInvariant
<1>2. ASSUME NEW lba \in Lbas, NEW count \in Counts, Read(lba, count)
      PROVE  ReplInvariant'
  <2>1. PICK r \in {"ok", "error", "panic"} :
          Ends(r) /\ (r = "panic" => device_lba_size = 0)
    BY <1>2 DEF Read
  <2>2. Types("read", lba, 0, << >>)
    BY <1>2 DEF Read
  <2>3. SizesAgree => r # "panic"
    BY <1>1, <2>1 DEF SizesAgree
  <2> QED BY <2>1, <2>2, <2>3, EndsStep
<1>3. ASSUME NEW lba \in Lbas, NEW text \in Texts, Write(lba, text)
      PROVE  ReplInvariant'
  <2>1. Types("write", lba, 0, text) /\ lba \in Nat
    BY <1>3, InputAssumption DEF Write
  <2>2. CASE device_lba_size = 0
    <3>1. Ends("panic") /\ ~SizesAgree
      BY <1>1, <1>3, <2>2 DEF Write, SizesAgree
    <3> QED BY <2>1, <3>1, EndsStep
  <2>3. CASE device_lba_size \in Nat \ {0}
    <3>1. ConfinedWrite(lba, Padded(text))
      BY <1>3, <2>3 DEF Write
    <3>2. Len(Padded(text)) \in Nat
      <4>1. Len(text) \in Nat \ {0}
        BY TextIs
      <4> QED BY <2>3, <4>1, PaddedIs, BlocksOfText, WholeBlocks
    <3> QED BY <2>1, <2>3, <3>1, <3>2, TypedWrite, WriteTail DEF ReplInvariant
  <2> QED BY <1>1, <2>2, <2>3
<1>4. ASSUME NEW lba \in Lbas, NEW char \in Chars, NEW count \in Counts,
             Fill(lba, char, count)
      PROVE  ReplInvariant'
  <2> DEFINE bytes == count * device_lba_size
             data == [j \in 1 .. bytes |-> char]
  <2>1. Types("fill", lba, 0, data) /\ lba \in Nat /\ bytes \in Nat
    BY <1>1, <1>4, InputAssumption DEF Fill
  <2>2. CASE Ends("error")
    BY <2>1, <2>2, EndsStep
  <2>3. CASE ConfinedWrite(lba, data)
    <3>1. Len(data) \in Nat
      <4> HIDE DEF bytes
      <4> QED BY <2>1
    <3> HIDE DEF data
    <3> QED BY <2>1, <2>3, <3>1, TypedWrite DEF ReplInvariant
  <2> QED BY <1>4, <2>2, <2>3 DEF Fill
<1>5. ASSUME NEW lba \in Lbas, NEW offset \in Offsets,
             NEW len \in Lengths \cup {0}, Peek(lba, offset, len)
      PROVE  ReplInvariant'
  <2>1. Types("peek", lba, offset, << >>)
    BY <1>5 DEF Peek
  <2>2. PICK r \in {"ok", "error", "panic"} :
          /\ Ends(r)
          /\ r = "panic" => FitsInBlock(offset, len) /\ offset + len > LBA_SIZE
    BY <1>5 DEF Peek
  <2>3. SizesAgree => r # "panic"
    <3>1. offset \in Nat /\ len \in Nat
      BY InputAssumption
    <3> QED BY <1>1, <2>2, <3>1 DEF FitsInBlock, SizesAgree
  <2> QED BY <2>1, <2>2, <2>3, EndsStep
<1>6. ASSUME NEW lba \in Lbas, NEW offset \in Offsets, NEW text \in Texts,
             PokeRead(lba, offset, text)
      PROVE  ReplInvariant'
  BY <1>6, PokeReadStep, InputAssumption
<1>7. CASE PokeWrite
  BY <1>7, PokeWriteStep
<1>8. CASE UNCHANGED vars
  <2>1. /\ UNCHANGED <<device, device_lba_size, pc, command>>
        /\ UNCHANGED <<buffer, result, before>>
    BY <1>8 DEF vars
  <2>2. device_lba_size' \in MapSizes /\ Shapes' /\ PokeHolds'
    <3>1. Patched(BytesOf(command.lba), command.offset, command.text)'
            = Patched(BytesOf(command.lba), command.offset, command.text)
      BY <2>1 DEF BytesOf, Patched
    <3> QED BY <2>1, <3>1 DEF ReplInvariant, Shapes, PokeHolds
  <2>3. ConfinedWhenSizesAgree' /\ NoPanicWhenSizesAgree'
    BY <2>1 DEF ReplInvariant, ConfinedWhenSizesAgree, Confined,
       NoPanicWhenSizesAgree, SizesAgree
  <2>4. PokeKeepsRest' /\ WriteZeroesTail'
    BY <2>1 DEF ReplInvariant, PokeKeepsRest, WriteZeroesTail, SizesAgree
  <2> QED BY <2>2, <2>3, <2>4 DEF ReplInvariant
<1> QED BY <1>2, <1>3, <1>4, <1>5, <1>6, <1>7, <1>8 DEF Next

\* The invariant holds throughout every session.
THEOREM ReplInvariance == Spec => []ReplInvariant
BY InitRepl, ReplStep, PTL DEF Spec

\* With equal block sizes no command changes a block outside the file, also when
\* a write fails after some of its blocks.
THEOREM CommandsStayInTheFile == Spec => []ConfinedWhenSizesAgree
<1>1. ReplInvariant => ConfinedWhenSizesAgree
  BY DEF ReplInvariant
<1> QED BY <1>1, ReplInvariance, PTL

\* With equal block sizes no division and no slice of the REPL panics.
THEOREM CommandsNeverPanic == Spec => []NoPanicWhenSizesAgree
<1>1. ReplInvariant => NoPanicWhenSizesAgree
  BY DEF ReplInvariant
<1> QED BY <1>1, ReplInvariance, PTL

\* poke changes no byte but those of its patch, to the ones typed.
THEOREM PokeIsExact == Spec => []PokeKeepsRest
<1>1. ReplInvariant => PokeKeepsRest
  BY DEF ReplInvariant
<1> QED BY <1>1, ReplInvariance, PTL

\* A write that returned Ok put its text and zeroes to the end of its last block
\* on the device, and nothing else.
THEOREM WriteIsExact == Spec => []WriteZeroesTail
<1>1. ReplInvariant => WriteZeroesTail
  BY DEF ReplInvariant
<1> QED BY <1>1, ReplInvariance, PTL
=============================================================================
