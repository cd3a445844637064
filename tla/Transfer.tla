------------------------------- MODULE Transfer -------------------------------
(***************************************************************************)
(* One call of read, write or identify of src/src/nvmetoy.rs in bytes: the *)
(* layout of the DMA region, the block size learnt from Identify, PRP      *)
(* entries, the zero-based u16 block count, doorbell offsets, and the      *)
(* bounds and alignment asserts of DmaRegion and NvmeBar.  A failing       *)
(* assert is a panic.                                                      *)
(*                                                                         *)
(* The other side is the controller's reading of the submission entry:     *)
(* how many bytes it moves, and where.  What is moved when, timeouts and   *)
(* the rings are QueuePair's and DataPath's; here a call finds its rings   *)
(* at any of the given slots and is answered or refused.                   *)
(***************************************************************************)
EXTENDS Integers

CONSTANTS
  DWORD,       \* 2^32; less in models
  USIZE_BITS,  \* 64; less in models
  BASE,        \* physical address of the region
  Namespaces,  \* Identify Namespace: flbas, and lbads and ms by format index
  Bars,        \* register BARs: length in bytes, and CAP.DSTRD
  Slbas, Counts, Lengths,  \* arguments: blocks of a read, bytes of a write
  Slots        \* ring slots a call may find its queues at

\* Mutant: queues that take two pages.
DoubleDepth == 128
QUEUE_DEPTH == 64
U16 == 65536
USIZE == 2 ^ USIZE_BITS

ASSUME AddressAssumption == DWORD \in Nat \ {0} /\ BASE \in Nat \ {0}
ASSUME UsizeAssumption == USIZE_BITS \in Nat \ {0} /\ USIZE > 0
ASSUME ControllerAssumption ==
  /\ \A n \in Namespaces : /\ n.flbas \in 0 .. 255
                            /\ n.lbads \in [0 .. 63 -> Nat]
                            /\ n.ms \in [0 .. 63 -> Nat]
  /\ \A b \in Bars : b.length \in Nat /\ b.dstrd \in 0 .. 15
ASSUME SlotsAssumption == Slots \subseteq 0 .. QUEUE_DEPTH - 1
ASSUME ArgumentsAssumption ==
  /\ Slbas \subseteq 0 .. DWORD * DWORD - 1
  /\ Counts \subseteq 0 .. U16 - 1
  /\ Lengths \subseteq Nat

VARIABLES
  namespace, bar,  \* what the controller is, fixed
  block_size,      \* of the namespace, cached; 0: not learnt yet
  pc, call, result,
  sqe,             \* the submission entry the controller will fetch
  prp_list,        \* the PRP list page: physical addresses
  touched          \* the driver's accesses to the region in its last step

vars == <<namespace, bar, block_size, pc, call, result, sqe, prp_list, touched>>
fixed == <<namespace, bar, block_size>>

------------------------------------------------------------------------------
(* Layout *)

PAGE_SIZE == 4096
HUGE_PAGE_SIZE == 2097152
ADMIN_SUBMISSION_QUEUE_OFFSET == 0
ADMIN_COMPLETION_QUEUE_OFFSET == 4096
IO_SUBMISSION_QUEUE_OFFSET == 8192
IO_COMPLETION_QUEUE_OFFSET == 12288
PRP_LIST_OFFSET == 16384
DATA_OFFSET == 20480

MAX_TRANSFER_BYTES == HUGE_PAGE_SIZE - DATA_OFFSET
PRP_LIST_CAPACITY == (DATA_OFFSET - PRP_LIST_OFFSET) \div 8

DOORBELL_BASE == 4096
IO_QUEUE_ID == 1
QueueOf(op) == IF op = "identify" THEN 0 ELSE IO_QUEUE_ID
SubmissionOffset(queue) == IF queue = 0 THEN ADMIN_SUBMISSION_QUEUE_OFFSET
                                        ELSE IO_SUBMISSION_QUEUE_OFFSET
CompletionOffset(queue) == IF queue = 0 THEN ADMIN_COMPLETION_QUEUE_OFFSET
                                        ELSE IO_COMPLETION_QUEUE_OFFSET
Stride == 4 * 2 ^ bar.dstrd

\* Mutant: the completion doorbell is that of the next queue's submissions.
NextDoorbell(queue) == DOORBELL_BASE + (2 * queue + 2) * Stride

SubmissionDoorbell(queue) == DOORBELL_BASE + (2 * queue) * Stride
CompletionDoorbell(queue) == DOORBELL_BASE + (2 * queue + 1) * Stride

PhysicalAddress(offset) == BASE + offset
DataPage(page) == PhysicalAddress(DATA_OFFSET + page * PAGE_SIZE)

\* The parts of the region.
SubmissionRing(queue) == IF queue = 0 THEN "admin_sq" ELSE "io_sq"
CompletionRing(queue) == IF queue = 0 THEN "admin_cq" ELSE "io_cq"
Rings == {"admin_sq", "admin_cq", "io_sq", "io_cq"}
Parts == Rings \cup {"prp_list", "data"}

\* Where the controller is told that a ring is: ASQ, ACQ, the two Create commands.
RingAddress(ring) ==
  PhysicalAddress(CASE ring = "admin_sq" -> ADMIN_SUBMISSION_QUEUE_OFFSET
                    [] ring = "admin_cq" -> ADMIN_COMPLETION_QUEUE_OFFSET
                    [] ring = "io_sq" -> IO_SUBMISSION_QUEUE_OFFSET
                    [] ring = "io_cq" -> IO_COMPLETION_QUEUE_OFFSET)

\* CC.IOSQES and CC.IOCQES; the entries of the admin queues have these sizes too.
EntrySize(ring) == IF ring \in {"admin_sq", "io_sq"} THEN 64 ELSE 16

\* check_bytes and check_typed, and NvmeBar::check of a 32-bit register; part is
\* what an access is for.
Access(part, offset, size, align) ==
  [part |-> part, offset |-> offset, size |-> size, align |-> align]
InRegion(a) == a.offset + a.size <= HUGE_PAGE_SIZE /\ a.offset % a.align = 0
InBar(offset) == offset + 4 <= bar.length /\ offset % 4 = 0

\* Go on at a place of the code if the asserts of these accesses hold.
Touch(accesses, registers, place) ==
  /\ touched' = accesses
  /\ pc' = IF /\ \A a \in accesses : InRegion(a)
              /\ \A offset \in registers : InBar(offset)
             THEN place ELSE "panic"

------------------------------------------------------------------------------
NoCall == [op |-> "none", slba |-> 0, bytes |-> 0]
NoEntry == [nlb |-> 0, cdw10 |-> 0, cdw11 |-> 0, prp1 |-> 0, prp2 |-> 0]

Init ==
  /\ namespace \in Namespaces
  /\ bar \in Bars
  /\ block_size = 0
  /\ pc = "opening"
  /\ call = NoCall
  /\ result = "none"
  /\ sqe = NoEntry
  /\ prp_list = [i \in 0 .. PRP_LIST_CAPACITY - 1 |-> 0]
  /\ touched = {}

\* namespace_block_size in open: flbas & 0xF, and 1usize << lbads, which a release
\* build shifts by lbads modulo the width.
LearnBlockSize ==
  /\ pc = "opening"
  /\ block_size' = 2 ^ (namespace.lbads[namespace.flbas % 16] % USIZE_BITS)
  /\ pc' = "idle"
  /\ UNCHANGED <<namespace, bar, call, result, sqe, prp_list, touched>>

PageCount(bytes) == (bytes + PAGE_SIZE - 1) \div PAGE_SIZE

\* data_pointers: what PRP2 and the list hold for a transfer of so many bytes.
Prp2(bytes) == IF PageCount(bytes) <= 1 THEN 0
               ELSE IF PageCount(bytes) = 2 THEN DataPage(1)
               ELSE PhysicalAddress(PRP_LIST_OFFSET)
ListEntries(bytes) == IF PageCount(bytes) <= 2 THEN 0 ELSE PageCount(bytes) - 1
ListAccess(bytes) ==
  IF ListEntries(bytes) = 0 THEN {}
  ELSE {Access("prp_list", PRP_LIST_OFFSET, 8 * ListEntries(bytes), 8)}

\* Mutant: the block count as it is.
OneBased(blocks) == blocks % U16

\* block_count as u16 - 1, in a release build.
ZeroBased(blocks) == ((blocks % U16) + U16 - 1) % U16

\* nvme_read and nvme_write.
Entry(slba, nlb, bytes) ==
  [nlb |-> nlb,
   cdw10 |-> slba % DWORD, cdw11 |-> slba \div DWORD,
   prp1 |-> DataPage(0), prp2 |-> Prp2(bytes)]

EndCall(r) ==
  /\ call' = NoCall
  /\ result' = r
  /\ sqe' = NoEntry

Refuse ==
  /\ EndCall("error")
  /\ Touch({}, {}, "idle")
  /\ UNCHANGED <<fixed, prp_list>>

\* Build the command of a call.
Proceed(op, slba, nlb, bytes, copies) ==
  /\ call' = [op |-> op, slba |-> slba, bytes |-> bytes]
  /\ result' = "pending"
  /\ sqe' = Entry(slba, nlb, bytes)
  /\ prp_list' = [i \in DOMAIN prp_list |-> IF i < ListEntries(bytes)
                                             THEN DataPage(i + 1)
                                             ELSE prp_list[i]]
  /\ Touch(copies \cup ListAccess(bytes), {}, "submit")
  /\ UNCHANGED fixed

\* block_size * block_count wraps in a release build; the block count does not.
Read(slba, count) ==
  LET total == (block_size * count) % USIZE
  IN /\ pc = "idle"
     /\ IF count = 0 \/ total > MAX_TRANSFER_BYTES
          THEN Refuse
          ELSE Proceed("read", slba, count - 1, total, {})

Write(slba, length) ==
  /\ pc = "idle"
  /\ IF length = 0 \/ length % block_size # 0 \/ length > MAX_TRANSFER_BYTES
       THEN Refuse
       ELSE Proceed("write", slba, ZeroBased(length \div block_size), length,
                    {Access("data", DATA_OFFSET, length, 1)})

Identify ==
  /\ pc = "idle"
  /\ call' = [op |-> "identify", slba |-> 0, bytes |-> 4096]
  /\ result' = "pending"
  /\ sqe' = [NoEntry EXCEPT !.prp1 = DataPage(0)]
  /\ Touch({}, {}, "submit")
  /\ UNCHANGED <<fixed, prp_list>>

------------------------------------------------------------------------------
(* submit_and_wait, and the copy out of the region *)

Submit(slot) ==
  LET queue == QueueOf(call.op)
  IN /\ pc = "submit"
     /\ Touch({Access(SubmissionRing(queue), SubmissionOffset(queue) + slot * 64,
                      64, 8)},
              {SubmissionDoorbell(queue)}, "polling")
     /\ UNCHANGED <<fixed, call, result, sqe, prp_list>>

\* The controller has answered: the entry is read and the doorbell rung.
TakeCompletion(slot, success) ==
  LET queue == QueueOf(call.op)
      copies == success /\ call.op # "write"
  IN /\ pc = "polling"
     /\ Touch({Access(CompletionRing(queue), CompletionOffset(queue) + slot * 16,
                      16, 4)},
              {CompletionDoorbell(queue)}, IF copies THEN "copy" ELSE "idle")
     /\ IF copies THEN UNCHANGED <<call, result, sqe>>
                  ELSE EndCall(IF success THEN "ok" ELSE "error")
     /\ UNCHANGED <<fixed, prp_list>>

CopyOut ==
  /\ pc = "copy"
  /\ Touch({Access("data", DATA_OFFSET, call.bytes, 1)}, {}, "idle")
  /\ EndCall("ok")
  /\ UNCHANGED <<fixed, prp_list>>

Next ==
  \/ LearnBlockSize
  \/ \E slba \in Slbas, count \in Counts : Read(slba, count)
  \/ \E slba \in Slbas, length \in Lengths : Write(slba, length)
  \/ Identify
  \/ \E slot \in Slots : Submit(slot)
  \/ \E slot \in Slots, success \in BOOLEAN : TakeCompletion(slot, success)
  \/ CopyOut

Spec == Init /\ [][Next]_vars

------------------------------------------------------------------------------
(* The controller's reading of the command (external) *)

\* FIDXU and FIDXL; bit 4 interleaves the metadata with the data.
FormatIndex == (namespace.flbas % 16) + 16 * ((namespace.flbas \div 32) % 4)
BlockMoved ==
  2 ^ namespace.lbads[FormatIndex]
    + IF (namespace.flbas \div 16) % 2 = 1 THEN namespace.ms[FormatIndex] ELSE 0

BytesMoved == IF call.op = "identify" THEN 4096 ELSE (sqe.nlb + 1) * BlockMoved

\* Where the page-th page of the transfer is, from PRP1, PRP2 and the list.
PageAddress(page) == IF page = 0 THEN sqe.prp1
                     ELSE IF PageCount(BytesMoved) = 2 THEN sqe.prp2
                     ELSE prp_list[page - 1]

------------------------------------------------------------------------------
(* Properties *)

\* Neither the u16 block count of a transfer nor the usize length of one wraps; no
\* legal format is below 512 bytes, and 32 is what the count needs.
NoWrap == block_size >= 32 /\ block_size * (U16 - 1) < USIZE

\* The driver knows how much the controller moves per block, and can count it.
Plain == block_size = BlockMoved /\ NoWrap

\* A submitted command is the call: as many bytes, from the same block, each page
\* at its own place in the data area.
CommandIsTheCall ==
  pc = "polling" /\ Plain =>
    /\ BytesMoved = call.bytes
    /\ sqe.cdw10 + DWORD * sqe.cdw11 = call.slba
    /\ \A page \in 0 .. PageCount(BytesMoved) - 1 :
         PageAddress(page) = DataPage(page)

\* A part of the region: a ring is what the controller was told of, as long as the
\* queue is deep; the list and the data are the driver's own.
First(part) == CASE part \in Rings -> RingAddress(part) - BASE
                 [] part = "prp_list" -> PRP_LIST_OFFSET
                 [] part = "data" -> DATA_OFFSET
End(part) == CASE part \in Rings -> First(part) + QUEUE_DEPTH * EntrySize(part)
               [] part = "prp_list" -> PRP_LIST_OFFSET + 8 * PRP_LIST_CAPACITY
               [] part = "data" -> HUGE_PAGE_SIZE

Within(a, part) == First(part) <= a.offset /\ a.offset + a.size <= End(part)
Apart(a, part) == a.offset + a.size <= First(part) \/ End(part) <= a.offset

\* Every access lies in the ring of its own queue, in the list or in the data,
\* whichever it is for, and touches no other part, at every slot and length; and
\* what the controller moves stays in the data.
OwnArea ==
  /\ \A a \in touched : Within(a, a.part) /\ \A part \in Parts \ {a.part} : Apart(a, part)
  /\ pc = "polling" /\ Plain =>
       DATA_OFFSET + BytesMoved <= HUGE_PAGE_SIZE

\* No assert of DmaRegion ever fails, and none of NvmeBar when the BAR has the
\* doorbells of both queues.
NoPanic ==
  bar.length >= DOORBELL_BASE + 2 * (IO_QUEUE_ID + 1) * Stride => pc # "panic"
=============================================================================
