---------------------------- MODULE TransferProofs ----------------------------
(***************************************************************************)
(* Proofs about Transfer: the submission entry is the call, the accesses   *)
(* keep each to its own part of the region and no assert fails, for every  *)
(* address of the region, width of usize, namespace, BAR and argument.     *)
(***************************************************************************)
EXTENDS Transfer, TLAPS

\* What the controller is, the size learnt from it and the list page.
Shapes ==
  /\ namespace \in Namespaces
  /\ bar \in Bars
  /\ block_size \in Int
  /\ DOMAIN prp_list = 0 .. PRP_LIST_CAPACITY - 1

\* The data of a call in progress fits in the data area.
CallFits ==
  pc \in {"submit", "polling", "copy"} =>
    call.bytes \in Int /\ call.bytes <= MAX_TRANSFER_BYTES

\* The zero-based count is that of so many bytes.
CountsBlocks(nlb, bytes) ==
  \E blocks \in Nat \ {0} : bytes = block_size * blocks /\ nlb = blocks - 1

\* The submission entry and the list as the call built them, until its answer.
EntryBuilt ==
  pc \in {"submit", "polling"} =>
    \/ /\ call = [op |-> "identify", slba |-> 0, bytes |-> 4096]
       /\ sqe = [NoEntry EXCEPT !.prp1 = DataPage(0)]
    \/ /\ call.op \in {"read", "write"}
       /\ call.slba \in Nat
       /\ sqe = Entry(call.slba, sqe.nlb, call.bytes)
       /\ \A i \in 0 .. ListEntries(call.bytes) - 1 :
            prp_list[i] = DataPage(i + 1)
       /\ NoWrap => CountsBlocks(sqe.nlb, call.bytes)

\* One access of the driver keeps to the part of the region it is for.
InsideArea(a) ==
  /\ Within(a, a.part)
  /\ \A part \in Parts \ {a.part} : Apart(a, part)

\* The inductive invariant.
TransferInvariant ==
  /\ Shapes
  /\ CallFits
  /\ EntryBuilt
  /\ \A a \in touched : InsideArea(a)
  /\ NoPanic

------------------------------------------------------------------------------
(* Sizes *)

\* A power of two with one of DSTRD's four-bit exponents is positive.
LEMMA DoorbellPower ==
  ASSUME NEW n \in 0 .. 15
  PROVE  2 ^ n \in Nat \ {0}
<1> DEFINE P == Nat \ {0}
<1>1. \/ n = 0 \/ n = 1 \/ n = 2 \/ n = 3 \/ n = 4 \/ n = 5 \/ n = 6 \/ n = 7
      \/ n = 8 \/ n = 9 \/ n = 10 \/ n = 11 \/ n = 12 \/ n = 13 \/ n = 14
      \/ n = 15
  OBVIOUS
<1>2. /\ 2 ^ 0 \in P /\ 2 ^ 1 \in P /\ 2 ^ 2 \in P /\ 2 ^ 3 \in P
      /\ 2 ^ 4 \in P /\ 2 ^ 5 \in P /\ 2 ^ 6 \in P /\ 2 ^ 7 \in P
      /\ 2 ^ 8 \in P /\ 2 ^ 9 \in P /\ 2 ^ 10 \in P /\ 2 ^ 11 \in P
      /\ 2 ^ 12 \in P /\ 2 ^ 13 \in P /\ 2 ^ 14 \in P /\ 2 ^ 15 \in P
  OBVIOUS
<1> HIDE DEF P
<1>3. 2 ^ n \in P
  BY <1>1, <1>2, Zenon
<1> QED BY <1>3 DEF P

\* The doorbells of both queues are aligned registers, and inside a BAR that has
\* them.
LEMMA DoorbellsInBar ==
  ASSUME Shapes, NEW queue \in {0, IO_QUEUE_ID},
         bar.length >= DOORBELL_BASE + 2 * (IO_QUEUE_ID + 1) * Stride
  PROVE  InBar(SubmissionDoorbell(queue)) /\ InBar(CompletionDoorbell(queue))
<1> DEFINE power == 2 ^ bar.dstrd
<1>1. power \in Nat \ {0}
  <2>1. bar.dstrd \in 0 .. 15
    BY ControllerAssumption DEF Shapes
  <2> QED BY <2>1, DoorbellPower
<1>2. bar.length \in Nat
  BY ControllerAssumption DEF Shapes
<1>3. Stride = 4 * power
  BY DEF Stride
<1> HIDE DEF power
<1> QED
  BY <1>1, <1>2, <1>3
  DEF InBar, SubmissionDoorbell, CompletionDoorbell, DOORBELL_BASE, IO_QUEUE_ID

\* Where the six parts of the region are, wherever the region is: in this order,
\* and none overlaps the next.
LEMMA PartBounds ==
  /\ Parts = {"admin_sq", "admin_cq", "io_sq", "io_cq", "prp_list", "data"}
  /\ First("admin_sq") = 0 /\ End("admin_sq") = 4096
  /\ First("admin_cq") = 4096 /\ End("admin_cq") = 5120
  /\ First("io_sq") = 8192 /\ End("io_sq") = 12288
  /\ First("io_cq") = 12288 /\ End("io_cq") = 13312
  /\ First("prp_list") = 16384 /\ End("prp_list") = 20480
  /\ First("data") = 20480 /\ End("data") = 2097152
<1>1. BASE \in Int
  BY AddressAssumption
<1>2. \A n \in Int : (BASE + n) - BASE = n
  BY <1>1
<1>3. /\ RingAddress("admin_sq") = BASE + 0
      /\ RingAddress("admin_cq") = BASE + 4096
      /\ RingAddress("io_sq") = BASE + 8192
      /\ RingAddress("io_cq") = BASE + 12288
  BY DEF RingAddress, PhysicalAddress, ADMIN_SUBMISSION_QUEUE_OFFSET,
     ADMIN_COMPLETION_QUEUE_OFFSET, IO_SUBMISSION_QUEUE_OFFSET,
     IO_COMPLETION_QUEUE_OFFSET
<1>4. /\ First("admin_sq") = 0 /\ First("admin_cq") = 4096
      /\ First("io_sq") = 8192 /\ First("io_cq") = 12288
  BY <1>2, <1>3 DEF First, Rings
<1>5. First("prp_list") = 16384 /\ First("data") = 20480
  BY DEF First, Rings, PRP_LIST_OFFSET, DATA_OFFSET
<1>6. /\ EntrySize("admin_sq") = 64 /\ EntrySize("io_sq") = 64
      /\ EntrySize("admin_cq") = 16 /\ EntrySize("io_cq") = 16
  BY DEF EntrySize
<1>7. /\ End("admin_sq") = 4096 /\ End("admin_cq") = 5120
      /\ End("io_sq") = 12288 /\ End("io_cq") = 13312
  BY <1>4, <1>6 DEF End, Rings, QUEUE_DEPTH
<1>8. End("prp_list") = 20480 /\ End("data") = 2097152
  BY DEF End, Rings, PRP_LIST_OFFSET, PRP_LIST_CAPACITY, DATA_OFFSET,
     HUGE_PAGE_SIZE
<1> QED BY <1>4, <1>5, <1>7, <1>8 DEF Parts, Rings

\* A transfer that fits in the data area takes at most 507 pages, all but the
\* first of which fit in the list.
LEMMA ListFits ==
  ASSUME NEW bytes \in Int, bytes <= MAX_TRANSFER_BYTES
  PROVE  /\ PageCount(bytes) \in Int
         /\ ListEntries(bytes) \in 0 .. PRP_LIST_CAPACITY
         /\ \A a \in ListAccess(bytes) : InsideArea(a) /\ InRegion(a)
<1>1. PageCount(bytes) \in Int /\ PageCount(bytes) <= 507
  BY DEF PageCount, PAGE_SIZE, MAX_TRANSFER_BYTES, HUGE_PAGE_SIZE, DATA_OFFSET
<1>2. ListEntries(bytes) \in 0 .. 506
  BY <1>1 DEF ListEntries
<1>3. PRP_LIST_CAPACITY = 512
  BY DEF PRP_LIST_CAPACITY, DATA_OFFSET, PRP_LIST_OFFSET
<1>4. ASSUME NEW a \in ListAccess(bytes)
      PROVE  InsideArea(a) /\ InRegion(a)
  <2> DEFINE n == ListEntries(bytes)
  <2>1. a = [part |-> "prp_list", offset |-> PRP_LIST_OFFSET, size |-> 8 * n,
             align |-> 8]
    BY <1>4 DEF ListAccess, Access
  <2>2. /\ a.part = "prp_list" /\ a.offset = 16384
        /\ a.size = 8 * n /\ a.align = 8
    BY <2>1 DEF PRP_LIST_OFFSET
  <2>3. n \in 0 .. 506
    BY <1>2
  <2> HIDE DEF n
  <2>4. InsideArea(a)
    BY <2>2, <2>3, PartBounds DEF InsideArea, Within, Apart
  <2>5. InRegion(a)
    BY <2>2, <2>3 DEF InRegion, HUGE_PAGE_SIZE
  <2> QED BY <2>4, <2>5
<1> QED BY <1>1, <1>2, <1>3, <1>4

\* An access to the data of a call that fits.
LEMMA DataFits ==
  ASSUME NEW bytes \in Int, bytes <= MAX_TRANSFER_BYTES
  PROVE  LET a == Access("data", DATA_OFFSET, bytes, 1)
         IN InsideArea(a) /\ InRegion(a)
<1> DEFINE a == Access("data", DATA_OFFSET, bytes, 1)
<1>1. /\ a.part = "data" /\ a.offset = 20480
      /\ a.size = bytes /\ a.align = 1
  BY DEF Access, DATA_OFFSET
<1> HIDE DEF a
<1>2. bytes <= 2076672
  BY DEF MAX_TRANSFER_BYTES, HUGE_PAGE_SIZE, DATA_OFFSET
<1>3. InRegion(a)
  BY <1>1, <1>2 DEF InRegion, HUGE_PAGE_SIZE
<1>4. InsideArea(a)
  BY <1>1, <1>2, PartBounds DEF InsideArea, Within, Apart
<1> QED BY <1>3, <1>4 DEF a

\* The entries of a queue, 64 of 64 bytes and 64 of 16, lie in its own two rings.
LEMMA SlotFits ==
  ASSUME NEW queue \in {0, IO_QUEUE_ID}, NEW slot \in Slots
  PROVE  LET s == Access(SubmissionRing(queue),
                         SubmissionOffset(queue) + slot * 64, 64, 8)
             c == Access(CompletionRing(queue),
                         CompletionOffset(queue) + slot * 16, 16, 4)
         IN InsideArea(s) /\ InRegion(s) /\ InsideArea(c) /\ InRegion(c)
<1> DEFINE s == Access(SubmissionRing(queue),
                       SubmissionOffset(queue) + slot * 64, 64, 8)
           c == Access(CompletionRing(queue),
                       CompletionOffset(queue) + slot * 16, 16, 4)
<1>1. slot \in 0 .. 63
  BY SlotsAssumption DEF QUEUE_DEPTH
<1>2. /\ s.part = SubmissionRing(queue)
      /\ s.offset = SubmissionOffset(queue) + slot * 64
      /\ s.size = 64 /\ s.align = 8
      /\ c.part = CompletionRing(queue)
      /\ c.offset = CompletionOffset(queue) + slot * 16
      /\ c.size = 16 /\ c.align = 4
  BY DEF Access
<1> HIDE DEF s, c
<1>3. \/ SubmissionOffset(queue) = 0 /\ SubmissionRing(queue) = "admin_sq"
      \/ SubmissionOffset(queue) = 8192 /\ SubmissionRing(queue) = "io_sq"
  BY DEF SubmissionOffset, SubmissionRing, ADMIN_SUBMISSION_QUEUE_OFFSET,
     IO_SUBMISSION_QUEUE_OFFSET
<1>4. \/ CompletionOffset(queue) = 4096 /\ CompletionRing(queue) = "admin_cq"
      \/ CompletionOffset(queue) = 12288 /\ CompletionRing(queue) = "io_cq"
  BY DEF CompletionOffset, CompletionRing, ADMIN_COMPLETION_QUEUE_OFFSET,
     IO_COMPLETION_QUEUE_OFFSET
<1>5. InsideArea(s)
  BY <1>1, <1>2, <1>3, PartBounds DEF InsideArea, Within, Apart
<1>6. InsideArea(c)
  BY <1>1, <1>2, <1>4, PartBounds DEF InsideArea, Within, Apart
<1>7. InRegion(s) /\ InRegion(c)
  BY <1>1, <1>2, <1>3, <1>4 DEF InRegion, HUGE_PAGE_SIZE
<1> QED BY <1>5, <1>6, <1>7 DEF s, c

------------------------------------------------------------------------------
(* Steps *)

\* Before open has learnt the block size nothing has been touched.
LEMMA InitTransfer == Init => TransferInvariant
<1> SUFFICES ASSUME Init PROVE TransferInvariant
  OBVIOUS
<1>1. Shapes
  BY DEF Init, Shapes
<1> QED BY <1>1 DEF Init, TransferInvariant, CallFits, EntryBuilt, NoPanic

\* A step whose accesses are inside their areas and whose asserts hold goes on
\* where it should.
LEMMA TouchStep ==
  ASSUME NEW accesses, NEW registers, NEW place, place # "panic",
         TransferInvariant, bar' = bar, Touch(accesses, registers, place),
         \A a \in accesses : InsideArea(a) /\ InRegion(a),
         bar.length >= DOORBELL_BASE + 2 * (IO_QUEUE_ID + 1) * Stride =>
           \A offset \in registers : InBar(offset)
  PROVE  /\ \A a \in touched' : InsideArea(a)
         /\ pc' \in {place, "panic"}
         /\ NoPanic'
<1>1. touched' = accesses /\ pc' \in {place, "panic"}
  BY DEF Touch
<1>2. (bar.length >= DOORBELL_BASE + 2 * (IO_QUEUE_ID + 1) * Stride)
        => pc' = place
  BY DEF Touch
<1>3. Stride' = Stride
  BY DEF Stride
<1> QED BY <1>1, <1>2, <1>3 DEF NoPanic

\* A call that is refused.
LEMMA RefuseStep ==
  ASSUME TransferInvariant, Refuse
  PROVE  TransferInvariant'
<1>1. Touch({}, {}, "idle") /\ UNCHANGED <<fixed, prp_list>>
  BY DEF Refuse
<1>2. /\ \A a \in touched' : InsideArea(a)
      /\ pc' \in {"idle", "panic"} /\ NoPanic'
  BY <1>1, TouchStep DEF fixed
<1> QED BY <1>1, <1>2
        DEF TransferInvariant, Shapes, CallFits, EntryBuilt, fixed

\* The command of a call that fits, of a whole number of blocks.
LEMMA ProceedStep ==
  ASSUME TransferInvariant, NEW op \in {"read", "write"}, NEW slba \in Nat,
         NEW bytes \in Int, NEW nlb, NEW copies,
         Proceed(op, slba, nlb, bytes, copies),
         bytes <= MAX_TRANSFER_BYTES,
         \A a \in copies : InsideArea(a) /\ InRegion(a),
         NoWrap => CountsBlocks(nlb, bytes)
  PROVE  TransferInvariant'
<1>1. /\ call' = [op |-> op, slba |-> slba, bytes |-> bytes]
      /\ sqe' = Entry(slba, nlb, bytes)
      /\ prp_list' = [i \in DOMAIN prp_list |-> IF i < ListEntries(bytes)
                                                 THEN DataPage(i + 1)
                                                 ELSE prp_list[i]]
      /\ Touch(copies \cup ListAccess(bytes), {}, "submit")
      /\ namespace' = namespace /\ bar' = bar /\ block_size' = block_size
  BY DEF Proceed, fixed
<1>2. call'.op = op /\ call'.slba = slba /\ call'.bytes = bytes
  BY <1>1
<1>3. /\ \A a \in touched' : InsideArea(a)
      /\ pc' \in {"submit", "panic"} /\ NoPanic'
  <2>1. \A a \in copies \cup ListAccess(bytes) : InsideArea(a) /\ InRegion(a)
    BY ListFits
  <2> QED BY <1>1, <2>1, TouchStep
<1>4. Shapes' /\ CallFits'
  BY <1>1, <1>2 DEF TransferInvariant, Shapes, CallFits
<1>5. sqe' = Entry(call.slba, sqe.nlb, call.bytes)' /\ sqe'.nlb = nlb
  BY <1>1, <1>2 DEF Entry
<1>6. ASSUME NEW i \in 0 .. ListEntries(bytes) - 1
      PROVE  prp_list'[i] = DataPage(i + 1)
  <2>1. ListEntries(bytes) \in 0 .. PRP_LIST_CAPACITY
    BY ListFits
  <2>2. PRP_LIST_CAPACITY = 512
    BY DEF PRP_LIST_CAPACITY, DATA_OFFSET, PRP_LIST_OFFSET
  <2>3. i \in DOMAIN prp_list /\ i < ListEntries(bytes)
    BY <2>1, <2>2 DEF TransferInvariant, Shapes
  <2> QED BY <1>1, <2>3
<1>7. (NoWrap => CountsBlocks(sqe.nlb, call.bytes))'
  BY <1>1, <1>2, <1>5 DEF NoWrap, CountsBlocks
<1>8. EntryBuilt'
  BY <1>1, <1>2, <1>5, <1>6, <1>7 DEF EntryBuilt
<1> QED BY <1>3, <1>4, <1>8 DEF TransferInvariant

\* A multiple of the block size, as a number of blocks.
LEMMA Multiple ==
  ASSUME NEW M \in Nat \ {0}, NEW n \in Nat \ {0}, n % M = 0
  PROVE  \E blocks \in Nat \ {0} : n = M * blocks
<1> DEFINE q == n \div M
<1>1. q \in Int /\ n = M * q
  OBVIOUS
<1> HIDE DEF q
<1>2. q \in Nat \ {0}
  BY <1>1
<1> QED BY <1>1, <1>2

\* The number of values of a u16 is an integer, wherever it need not be known.
LEMMA U16IsInt == U16 \in Int
BY DEF U16

\* The zero-based count of a write that fits, in blocks of a legal size.
LEMMA WriteCounts ==
  ASSUME NEW length \in Nat \ {0}, length <= MAX_TRANSFER_BYTES,
         block_size \in Int, NoWrap, length % block_size = 0
  PROVE  CountsBlocks(ZeroBased(length \div block_size), length)
<1>1. block_size \in Nat \ {0} /\ block_size >= 32
  BY DEF NoWrap
<1>2. PICK blocks \in Nat \ {0} : length = block_size * blocks
  BY <1>1, Multiple
<1>3. length \div block_size = blocks
  BY <1>1, <1>2
<1>4. blocks <= 64896
  <2>1. block_size * blocks <= 2076672
    BY <1>2 DEF MAX_TRANSFER_BYTES, HUGE_PAGE_SIZE, DATA_OFFSET
  <2>2. block_size * blocks >= 32 * blocks
    BY <1>1
  <2>3. block_size * blocks \in Int
    BY <1>1
  <2> QED BY <2>1, <2>2, <2>3
<1>5. ZeroBased(blocks) = blocks - 1
  BY <1>4 DEF ZeroBased, U16
<1> QED BY <1>2, <1>3, <1>5 DEF CountsBlocks

\* The length of a read whose usize product does not wrap.
LEMMA ReadCounts ==
  ASSUME NEW count \in 1 .. U16 - 1, block_size \in Int, NoWrap
  PROVE  CountsBlocks(count - 1, (block_size * count) % USIZE)
<1> DEFINE most == U16 - 1
           bytes == block_size * count
<1>1. USIZE \in Nat \ {0}
  BY UsizeAssumption DEF USIZE
<1>2. most \in Int /\ count \in Nat \ {0} /\ count <= most
  BY U16IsInt
<1> HIDE DEF most
<1>3. block_size \in Nat /\ block_size * most < USIZE
  BY DEF NoWrap, most
<1>4. bytes \in Nat /\ bytes <= block_size * most /\ block_size * most \in Int
  BY <1>2, <1>3
<1> HIDE DEF bytes
<1>5. bytes < USIZE
  BY <1>1, <1>3, <1>4
<1>6. bytes % USIZE = bytes
  BY <1>1, <1>4, <1>5
<1>7. CountsBlocks(count - 1, bytes)
  BY <1>2 DEF CountsBlocks, bytes
<1> QED BY <1>6, <1>7 DEF bytes

\* Every step keeps the invariant.
LEMMA TransferStep == TransferInvariant /\ [Next]_vars => TransferInvariant'
<1> SUFFICES ASSUME TransferInvariant, [Next]_vars
             PROVE  TransferInvariant'
  OBVIOUS
<1>1. CASE LearnBlockSize
  <2>1. namespace.lbads[namespace.flbas % 16] \in Nat
    <3>1. /\ namespace.flbas \in 0 .. 255
          /\ namespace.lbads \in [0 .. 63 -> Nat]
      BY ControllerAssumption DEF TransferInvariant, Shapes
    <3>2. namespace.flbas % 16 \in 0 .. 63
      BY <3>1
    <3> QED BY <3>1, <3>2
  <2>2. block_size' \in Int
    <3>1. namespace.lbads[namespace.flbas % 16] % USIZE_BITS \in Nat
      BY <2>1, UsizeAssumption
    <3> QED BY <1>1, <3>1 DEF LearnBlockSize
  <2>3. /\ pc' = "idle"
        /\ UNCHANGED <<namespace, bar, prp_list, touched>>
    BY <1>1 DEF LearnBlockSize
  <2> QED BY <2>2, <2>3
          DEF TransferInvariant, Shapes, CallFits, EntryBuilt, NoPanic
<1>2. ASSUME NEW slba \in Slbas, NEW count \in Counts, Read(slba, count)
      PROVE  TransferInvariant'
  <2>0. count \in 0 .. U16 - 1
    BY ArgumentsAssumption
  <2>1. slba \in Nat /\ count \in Nat /\ block_size \in Int
    <3>1. slba \in Nat
      BY ArgumentsAssumption
    <3>2. count \in Nat
      BY <2>0
    <3> QED BY <3>1, <3>2 DEF TransferInvariant, Shapes
  <2> DEFINE bytes == (block_size * count) % USIZE
  <2>2. bytes \in Int
    <3>1. USIZE \in Nat \ {0}
      BY UsizeAssumption DEF USIZE
    <3>2. block_size * count \in Int
      BY <2>1
    <3> QED BY <3>1, <3>2
  <2>3. CASE count = 0 \/ bytes > MAX_TRANSFER_BYTES
    BY <1>2, <2>3, RefuseStep DEF Read
  <2>4. CASE ~(count = 0 \/ bytes > MAX_TRANSFER_BYTES)
    <3>1. Proceed("read", slba, count - 1, bytes, {})
      BY <1>2, <2>4 DEF Read
    <3>2. bytes <= MAX_TRANSFER_BYTES
      BY <2>2, <2>4 DEF MAX_TRANSFER_BYTES, HUGE_PAGE_SIZE, DATA_OFFSET
    <3>3. count # 0
      BY <2>4
    <3>4. count \in 1 .. U16 - 1 => (NoWrap => CountsBlocks(count - 1, bytes))
      BY <2>1, ReadCounts
    <3> HIDE DEF bytes
    <3>5. count \in 1 .. U16 - 1
      BY <2>0, <3>3, U16IsInt
    <3> QED BY <2>1, <2>2, <3>1, <3>2, <3>4, <3>5, ProceedStep
  <2> QED BY <2>3, <2>4
<1>3. ASSUME NEW slba \in Slbas, NEW length \in Lengths, Write(slba, length)
      PROVE  TransferInvariant'
  <2>1. slba \in Nat /\ length \in Nat /\ block_size \in Int
    BY ArgumentsAssumption DEF TransferInvariant, Shapes
  <2>2. CASE \/ length = 0 \/ length % block_size # 0
             \/ length > MAX_TRANSFER_BYTES
    BY <1>3, <2>2, RefuseStep DEF Write
  <2>3. CASE ~(\/ length = 0 \/ length % block_size # 0
               \/ length > MAX_TRANSFER_BYTES)
    <3> DEFINE nlb == ZeroBased(length \div block_size)
    <3>1. Proceed("write", slba, nlb, length,
                  {Access("data", DATA_OFFSET, length, 1)})
      BY <1>3, <2>3 DEF Write
    <3>2. length <= MAX_TRANSFER_BYTES
      BY <2>1, <2>3 DEF MAX_TRANSFER_BYTES, HUGE_PAGE_SIZE, DATA_OFFSET
    <3>3. NoWrap => CountsBlocks(nlb, length)
      BY <2>1, <2>3, <3>2, WriteCounts
    <3>4. \A a \in {Access("data", DATA_OFFSET, length, 1)} :
            InsideArea(a) /\ InRegion(a)
      BY <2>1, <3>2, DataFits
    <3> HIDE DEF nlb
    <3> QED BY <2>1, <3>1, <3>2, <3>3, <3>4, ProceedStep
  <2> QED BY <2>2, <2>3
<1>4. CASE Identify
  <2>1. /\ call' = [op |-> "identify", slba |-> 0, bytes |-> 4096]
        /\ sqe' = [NoEntry EXCEPT !.prp1 = DataPage(0)]
        /\ Touch({}, {}, "submit")
        /\ UNCHANGED <<namespace, bar, block_size, prp_list>>
    BY <1>4 DEF Identify, fixed
  <2>2. /\ \A a \in touched' : InsideArea(a)
        /\ pc' \in {"submit", "panic"} /\ NoPanic'
    BY <2>1, TouchStep
  <2>3. Shapes' /\ EntryBuilt'
    BY <2>1 DEF TransferInvariant, Shapes, EntryBuilt
  <2>4. CallFits'
    <3>1. call'.bytes = 4096
      BY <2>1
    <3> QED BY <3>1
            DEF CallFits, MAX_TRANSFER_BYTES, HUGE_PAGE_SIZE, DATA_OFFSET
  <2> QED BY <2>2, <2>3, <2>4 DEF TransferInvariant
<1>5. QueueOf(call.op) \in {0, IO_QUEUE_ID}
  BY DEF QueueOf
<1>6. ASSUME NEW slot \in Slots, Submit(slot)
      PROVE  TransferInvariant'
  <2> DEFINE queue == QueueOf(call.op)
             a == Access(SubmissionRing(queue),
                         SubmissionOffset(queue) + slot * 64, 64, 8)
             register == SubmissionDoorbell(queue)
  <2>1. /\ pc = "submit" /\ Touch({a}, {register}, "polling")
        /\ UNCHANGED <<namespace, bar, block_size, call, sqe, prp_list>>
    BY <1>6 DEF Submit, fixed
  <2>2. InsideArea(a) /\ InRegion(a)
    BY <1>5, SlotFits
  <2>3. bar.length >= DOORBELL_BASE + 2 * (IO_QUEUE_ID + 1) * Stride
          => InBar(register)
    BY <1>5, DoorbellsInBar DEF TransferInvariant
  <2> HIDE DEF queue, a, register
  <2>4. /\ \A b \in touched' : InsideArea(b)
        /\ pc' \in {"polling", "panic"} /\ NoPanic'
    BY <2>1, <2>2, <2>3, TouchStep
  <2>5. Shapes' /\ CallFits'
    BY <2>1, <2>4 DEF TransferInvariant, Shapes, CallFits
  <2>6. EntryBuilt'
    <3>1. Entry(call.slba, sqe.nlb, call.bytes)'
            = Entry(call.slba, sqe.nlb, call.bytes)
      BY <2>1 DEF Entry
    <3>2. (NoWrap => CountsBlocks(sqe.nlb, call.bytes))'
            = (NoWrap => CountsBlocks(sqe.nlb, call.bytes))
      BY <2>1 DEF NoWrap, CountsBlocks
    <3> QED BY <2>1, <3>1, <3>2 DEF TransferInvariant, EntryBuilt
  <2> QED BY <2>4, <2>5, <2>6 DEF TransferInvariant
<1>7. ASSUME NEW slot \in Slots, NEW success \in BOOLEAN,
             TakeCompletion(slot, success)
      PROVE  TransferInvariant'
  <2> DEFINE queue == QueueOf(call.op)
             a == Access(CompletionRing(queue),
                         CompletionOffset(queue) + slot * 16, 16, 4)
             register == CompletionDoorbell(queue)
             copies == success /\ call.op # "write"
  <2>1. /\ pc = "polling"
        /\ Touch({a}, {register}, IF copies THEN "copy" ELSE "idle")
        /\ copies => call' = call
        /\ UNCHANGED <<namespace, bar, block_size, prp_list>>
    BY <1>7 DEF TakeCompletion, fixed
  <2>2. InsideArea(a) /\ InRegion(a)
    BY <1>5, SlotFits
  <2>3. bar.length >= DOORBELL_BASE + 2 * (IO_QUEUE_ID + 1) * Stride
          => InBar(register)
    BY <1>5, DoorbellsInBar DEF TransferInvariant
  <2> HIDE DEF queue, a, register, copies
  <2>4. /\ \A b \in touched' : InsideArea(b)
        /\ pc' \in {IF copies THEN "copy" ELSE "idle", "panic"} /\ NoPanic'
    BY <2>1, <2>2, <2>3, TouchStep
  <2> QED BY <2>1, <2>4 DEF TransferInvariant, Shapes, CallFits, EntryBuilt
<1>8. CASE CopyOut
  <2> DEFINE a == Access("data", DATA_OFFSET, call.bytes, 1)
  <2>1. /\ Touch({a}, {}, "idle")
        /\ UNCHANGED <<namespace, bar, block_size, prp_list>>
    BY <1>8 DEF CopyOut, fixed
  <2>2. call.bytes \in Int /\ call.bytes <= MAX_TRANSFER_BYTES
    BY <1>8 DEF CopyOut, TransferInvariant, CallFits
  <2>3. InsideArea(a) /\ InRegion(a)
    BY <2>2, DataFits
  <2> HIDE DEF a
  <2>4. /\ \A b \in touched' : InsideArea(b)
        /\ pc' \in {"idle", "panic"} /\ NoPanic'
    BY <2>1, <2>3, TouchStep
  <2> QED BY <2>1, <2>4 DEF TransferInvariant, Shapes, CallFits, EntryBuilt
<1>9. CASE UNCHANGED vars
  BY <1>9 DEF vars, TransferInvariant, Shapes, CallFits, EntryBuilt, NoPanic,
     Entry, Stride, NoWrap, CountsBlocks
<1> QED BY <1>1, <1>2, <1>3, <1>4, <1>6, <1>7, <1>8, <1>9 DEF Next

------------------------------------------------------------------------------
(* The controller's reading *)

\* What the controller moves is what the caller asked for.
LEMMA MovesTheCall ==
  ASSUME TransferInvariant, pc = "polling", Plain
  PROVE  BytesMoved = call.bytes
<1>1. CASE call.op = "identify"
  BY <1>1 DEF BytesMoved, TransferInvariant, EntryBuilt
<1>2. CASE call.op # "identify"
  <2>1. /\ CountsBlocks(sqe.nlb, call.bytes)
        /\ block_size \in Int /\ block_size = BlockMoved
    BY <1>2 DEF TransferInvariant, EntryBuilt, Shapes, Plain
  <2>2. PICK blocks \in Nat \ {0} :
          call.bytes = block_size * blocks /\ sqe.nlb = blocks - 1
    BY <2>1 DEF CountsBlocks
  <2>3. BytesMoved = (blocks - 1 + 1) * block_size
    BY <1>2, <2>1, <2>2 DEF BytesMoved
  <2> QED BY <2>1, <2>2, <2>3
<1> QED BY <1>1, <1>2

\* Each page of the transfer is at its own place of the data area, whichever of
\* PRP1, PRP2 and the list names it.
LEMMA PagesInPlace ==
  ASSUME TransferInvariant, pc = "polling", BytesMoved = call.bytes,
         NEW page \in 0 .. PageCount(BytesMoved) - 1
  PROVE  PageAddress(page) = DataPage(page)
<1>1. PageCount(call.bytes) \in Int
  BY ListFits DEF TransferInvariant, CallFits
<1>2. sqe.prp1 = DataPage(0)
  BY DEF TransferInvariant, EntryBuilt, NoEntry, Entry
<1>3. CASE page = 0
  BY <1>2, <1>3 DEF PageAddress
<1>4. CASE page # 0
  <2>1. page \in 1 .. PageCount(call.bytes) - 1
    BY <1>1, <1>4
  <2>2. call.op # "identify"
    <3> SUFFICES ASSUME call.op = "identify" PROVE FALSE
      OBVIOUS
    <3>1. call.bytes = 4096
      BY DEF TransferInvariant, EntryBuilt
    <3>2. PageCount(call.bytes) = 1
      BY <3>1 DEF PageCount, PAGE_SIZE
    <3> QED BY <2>1, <3>2
  <2>3. /\ sqe = Entry(call.slba, sqe.nlb, call.bytes)
        /\ \A i \in 0 .. ListEntries(call.bytes) - 1 :
             prp_list[i] = DataPage(i + 1)
    BY <2>2 DEF TransferInvariant, EntryBuilt
  <2>4. CASE PageCount(call.bytes) = 2
    <3>1. sqe.prp2 = DataPage(1)
      BY <2>3, <2>4 DEF Entry, Prp2
    <3>2. page = 1
      BY <2>1, <2>4
    <3> QED BY <2>4, <3>1, <3>2 DEF PageAddress
  <2>5. CASE PageCount(call.bytes) # 2
    <3>1. ListEntries(call.bytes) = PageCount(call.bytes) - 1
      BY <1>1, <2>1, <2>5 DEF ListEntries
    <3>2. page - 1 \in 0 .. ListEntries(call.bytes) - 1 /\ (page - 1) + 1 = page
      BY <1>1, <2>1, <3>1
    <3>3. prp_list[page - 1] = DataPage(page)
      BY <2>3, <3>2
    <3> QED BY <1>4, <2>5, <3>3 DEF PageAddress
  <2> QED BY <2>4, <2>5
<1> QED BY <1>3, <1>4

\* The two halves of the starting block put together.
LEMMA StartsAtTheBlock ==
  ASSUME TransferInvariant, pc = "polling"
  PROVE  sqe.cdw10 + DWORD * sqe.cdw11 = call.slba
<1>1. DWORD \in Nat \ {0}
  BY AddressAssumption
<1>2. CASE /\ call = [op |-> "identify", slba |-> 0, bytes |-> 4096]
           /\ sqe = [NoEntry EXCEPT !.prp1 = DataPage(0)]
  <2>1. sqe.cdw10 = 0 /\ sqe.cdw11 = 0 /\ call.slba = 0
    BY <1>2 DEF NoEntry
  <2> QED BY <1>1, <2>1
<1>3. CASE sqe = Entry(call.slba, sqe.nlb, call.bytes) /\ call.slba \in Nat
  <2>1. sqe.cdw10 = call.slba % DWORD /\ sqe.cdw11 = call.slba \div DWORD
    BY <1>3 DEF Entry
  <2> DEFINE n == call.slba
  <2>2. n = DWORD * (n \div DWORD) + (n % DWORD)
    <3>1. n \in Nat
      BY <1>3
    <3> HIDE DEF n
    <3> QED BY <1>1, <3>1
  <2>3. n % DWORD \in Int /\ DWORD * (n \div DWORD) \in Int
    BY <1>1, <1>3
  <2> QED BY <2>1, <2>2, <2>3
<1> QED BY <1>2, <1>3 DEF TransferInvariant, EntryBuilt

\* The invariant holds throughout.
THEOREM TransferInvariance == Spec => []TransferInvariant
BY InitTransfer, TransferStep, PTL DEF Spec

\* The submission entry a controller fetches asks for the bytes, the blocks and
\* the places of the call, for every address of the region and every format whose
\* block size the driver knows.
THEOREM EntryIsTheCall == Spec => []CommandIsTheCall
<1>1. TransferInvariant => CommandIsTheCall
  BY MovesTheCall, PagesInPlace, StartsAtTheBlock DEF CommandIsTheCall
<1> QED BY <1>1, TransferInvariance, PTL

\* Every access of the driver lies in the ring of its own queue, in the PRP list or
\* in the data, whichever it is for, and touches no other of them; and no transfer
\* of the controller leaves the data.
THEOREM AccessesKeepToTheirArea == Spec => []OwnArea
<1>1. TransferInvariant => OwnArea
  <2> SUFFICES ASSUME TransferInvariant PROVE OwnArea
    OBVIOUS
  <2>1. \A a \in touched : InsideArea(a)
    BY DEF TransferInvariant
  <2>2. ASSUME pc = "polling", Plain
        PROVE  DATA_OFFSET + BytesMoved <= HUGE_PAGE_SIZE
    <3>1. BytesMoved = call.bytes
      BY <2>2, MovesTheCall
    <3>2. call.bytes \in Int /\ call.bytes <= MAX_TRANSFER_BYTES
      BY <2>2 DEF TransferInvariant, CallFits
    <3> QED BY <3>1, <3>2 DEF MAX_TRANSFER_BYTES, HUGE_PAGE_SIZE, DATA_OFFSET
  <2> QED BY <2>1, <2>2 DEF OwnArea, InsideArea
<1> QED BY <1>1, TransferInvariance, PTL

\* No assert on an access to the region fails, and none on a register in a BAR
\* that has the doorbells.
THEOREM AssertsHold == Spec => []NoPanic
<1>1. TransferInvariant => NoPanic
  BY DEF TransferInvariant
<1> QED BY <1>1, TransferInvariance, PTL
=============================================================================
