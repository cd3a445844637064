---------------------------- MODULE DataPathProofs ----------------------------
(***************************************************************************)
(* Proofs about DataPath: the one PRP list, rewritten by every large       *)
(* transfer, always leads every outstanding command to its own blocks of   *)
(* the data area; until a command times out the driver is the array of     *)
(* blocks that BlockStore describes; and in a session of the REPL on this  *)
(* driver (Session) no block outside the file changes, timeouts and late   *)
(* commands included.                                                      *)
(***************************************************************************)
EXTENDS Session, TLAPS

\* A positive multiple of M is at least M.
LEMMA PositiveMultiple ==
  ASSUME NEW M \in Nat \ {0}, NEW k \in Int, k >= 1
  PROVE  M * k >= M
OBVIOUS

\* Division with remainder, and the range of the remainder.
LEMMA DivMod ==
  ASSUME NEW M \in Nat \ {0}, NEW n \in Nat
  PROVE  /\ n \div M \in Nat
         /\ n % M \in 0 .. M - 1
         /\ n = M * (n \div M) + (n % M)
OBVIOUS

\* A transfer of count blocks, M to a page, of which at most P pages are there,
\* takes between one and P pages, and each of its blocks is in one of them.
LEMMA PageOfBlock ==
  ASSUME NEW M \in Nat \ {0}, NEW P \in Nat, NEW count \in Nat \ {0},
         count <= P * M
  PROVE  /\ (count + M - 1) \div M \in 1 .. P
         /\ \A k \in 0 .. count - 1 :
              k \div M \in 0 .. ((count + M - 1) \div M) - 1
OBVIOUS

\* The pages of a transfer that fits the data area, and the list entries that
\* data_pointers writes for it.
LEMMA ListForIs ==
  ASSUME prp_list \in [PrpList -> 0 .. DATA_PAGES - 1],
         NEW count \in Nat \ {0}, count <= MAX_TRANSFER
  PROVE  /\ ListFor(count) \in [PrpList -> 0 .. DATA_PAGES - 1]
         /\ \A i \in PrpList : prp_list[i] = i + 1 => ListFor(count)[i] = i + 1
         /\ \A k \in 0 .. count - 1 :
              LET page == k \div BLOCKS_PER_PAGE
              IN \/ page = 0
                 \/ Prp2For(count) = "second_page" /\ page = 1
                 \/ /\ Prp2For(count) = "list"
                    /\ page - 1 \in PrpList
                    /\ ListFor(count)[page - 1] = page
<1> DEFINE pages == PagesFor(count)
<1>1. /\ pages \in 1 .. DATA_PAGES
      /\ \A k \in 0 .. count - 1 : k \div BLOCKS_PER_PAGE \in 0 .. pages - 1
  BY LayoutAssumption, PageOfBlock DEF MAX_TRANSFER, PagesFor
<1>2. \A i \in PrpList :
        ListFor(count)[i] = IF pages > 2 /\ i < pages - 1 THEN i + 1
                                                          ELSE prp_list[i]
  BY DEF ListFor
<1>3. ListFor(count) \in [PrpList -> 0 .. DATA_PAGES - 1]
  <2>1. \A i \in PrpList :
          (IF pages > 2 /\ i < pages - 1 THEN i + 1 ELSE prp_list[i])
            \in 0 .. DATA_PAGES - 1
    <3>1. pages \in 1 .. DATA_PAGES
      BY <1>1
    <3> HIDE DEF pages
    <3> QED BY <3>1, LayoutAssumption DEF PrpList
  <2> QED BY <2>1 DEF ListFor
<1>4. ASSUME NEW k \in 0 .. count - 1
      PROVE  LET page == k \div BLOCKS_PER_PAGE
             IN \/ page = 0
                \/ Prp2For(count) = "second_page" /\ page = 1
                \/ /\ Prp2For(count) = "list"
                   /\ page - 1 \in PrpList
                   /\ ListFor(count)[page - 1] = page
  <2> DEFINE page == k \div BLOCKS_PER_PAGE
  <2>1. page \in 0 .. pages - 1
    BY <1>1
  <2>a. pages \in 1 .. DATA_PAGES
    BY <1>1
  <2>2. /\ pages = 2 => Prp2For(count) = "second_page"
        /\ pages > 2 => Prp2For(count) = "list"
    <3>1. ASSUME pages = 2 PROVE Prp2For(count) = "second_page"
      <4>1. ~(pages <= 1)
        BY <3>1
      <4> QED BY <3>1, <4>1, Zenon DEF Prp2For
    <3>2. ASSUME pages > 2 PROVE Prp2For(count) = "list"
      <4>1. ~(pages <= 1) /\ pages # 2
        BY <2>a, <3>2, LayoutAssumption
      <4> QED BY <4>1, Zenon DEF Prp2For
    <3> QED BY <3>1, <3>2
  <2> HIDE DEF page, pages
  <2>3. page - 1 \in PrpList \/ page = 0
    BY <2>a, <2>1, LayoutAssumption, PrpListAssumption DEF PrpList
  <2>4. \/ page = 0
        \/ Prp2For(count) = "second_page" /\ page = 1
        \/ /\ Prp2For(count) = "list"
           /\ page - 1 \in PrpList
           /\ ListFor(count)[page - 1] = page
    <3>1. CASE pages <= 2
      <4>1. page = 0 \/ (pages = 2 /\ page = 1)
        BY <2>a, <2>1, <3>1, LayoutAssumption
      <4> QED BY <2>2, <4>1, Zenon
    <3>2. CASE pages > 2 /\ page # 0
      <4>1. page - 1 < pages - 1 /\ page = (page - 1) + 1
        BY <2>a, <2>1, LayoutAssumption
      <4>2. ListFor(count)[page - 1] = page
        BY <1>2, <2>3, <3>2, <4>1
      <4>3. Prp2For(count) = "list"
        BY <2>2, <3>2
      <4> QED BY <2>3, <3>2, <4>2, <4>3, Zenon
    <3>3. pages <= 2 \/ pages > 2
      BY <2>a, LayoutAssumption
    <3> QED BY <3>1, <3>2, <3>3, Zenon
  <2> QED BY <2>4 DEF page
<1> QED BY <1>2, <1>3, <1>4

\* The PRP list is reached by no block before the first call.
LEMMA InitPointers == Init => PointersInvariant
BY LayoutAssumption DEF Init, PointersInvariant, PrpList

\* Setting up the pointers of a new transfer changes no entry that a block still
\* to be moved relies on, and sets all those its own blocks need.
LEMMA SetUpStep ==
  ASSUME PointersInvariant,
         NEW count \in Nat \ {0}, count <= MAX_TRANSFER,
         prp_list' = ListFor(count), call'.count = count, moves' = moves
  PROVE  PointersInvariant'
<1>1. prp_list \in [PrpList -> 0 .. DATA_PAGES - 1]
  BY DEF PointersInvariant
<1>2. prp_list' \in [PrpList -> 0 .. DATA_PAGES - 1]
  BY <1>1, ListForIs
<1>3. \A k \in 0 .. count - 1 :
        Reaches(Prp2For(count), k \div BLOCKS_PER_PAGE)'
  BY <1>1, ListForIs DEF Reaches, Prp2For, PagesFor
<1>4. ASSUME NEW m \in moves
      PROVE  m.k \in Nat /\ Reaches(m.command.prp2, m.k \div BLOCKS_PER_PAGE)'
  <2> DEFINE page == m.k \div BLOCKS_PER_PAGE
  <2>1. m.k \in Nat /\ Reaches(m.command.prp2, page)
    BY DEF PointersInvariant
  <2>2. page \in Nat
    BY <2>1, LayoutAssumption, DivMod
  <2> HIDE DEF page
  <2>3. \A i \in PrpList : prp_list[i] = i + 1 => prp_list'[i] = i + 1
    BY <1>1, ListForIs
  <2>4. Reaches(m.command.prp2, page)'
    <3>1. CASE m.command.prp2 = "list" /\ page - 1 \in PrpList
               /\ prp_list[page - 1] = page
      <4>1. page = (page - 1) + 1
        BY <2>2
      <4>2. prp_list'[page - 1] = (page - 1) + 1
        BY <2>3, <3>1, <4>1
      <4> QED BY <3>1, <4>1, <4>2 DEF Reaches
    <3> QED BY <2>1, <3>1 DEF Reaches
  <2> QED BY <2>1, <2>4 DEF page
<1> QED BY <1>2, <1>3, <1>4 DEF PointersInvariant, Prp2For, PagesFor

\* Every step of the driver and of the controller keeps the pointers right.
LEMMA PointersStep == PointersInvariant /\ [Next]_vars => PointersInvariant'
<1> SUFFICES ASSUME PointersInvariant, [Next]_vars
             PROVE  PointersInvariant'
  OBVIOUS
<1>1. ASSUME NEW slba \in Slbas, NEW count \in Counts, Read(slba, count)
      PROVE  PointersInvariant'
  <2>1. CASE count = 0 \/ count > MAX_TRANSFER
    BY <1>1, <2>1
    DEF Read, BeginCall, Refuse, PointersInvariant, Reaches, memoryVars,
        commandVars
  <2>2. CASE ~(count = 0 \/ count > MAX_TRANSFER)
    <3>1. count \in Nat \ {0} /\ count <= MAX_TRANSFER
      BY <2>2, RequestsAssumption, LayoutAssumption DEF MAX_TRANSFER
    <3>2. prp_list' = ListFor(count) /\ call'.count = count /\ moves' = moves
      BY <1>1, <2>2 DEF Read, BeginCall, Proceed, ReadCall, commandVars
    <3> QED BY <3>1, <3>2, SetUpStep
  <2> QED BY <2>1, <2>2
<1>2. ASSUME NEW slba \in Slbas, NEW count \in Counts, NEW ragged \in BOOLEAN,
             NEW data \in [1 .. count -> Contents], Write(slba, data, ragged)
      PROVE  PointersInvariant'
  <2>1. CASE data = << >> \/ ragged \/ Len(data) > MAX_TRANSFER
    BY <1>2, <2>1
    DEF Write, BeginCall, Refuse, PointersInvariant, Reaches, memoryVars,
        commandVars
  <2>2. CASE ~(data = << >> \/ ragged \/ Len(data) > MAX_TRANSFER)
    <3>1. Len(data) \in Nat \ {0} /\ Len(data) <= MAX_TRANSFER
      <4>1. count \in Nat /\ data \in Seq(Contents) /\ data # << >>
        BY <2>2, RequestsAssumption
      <4> QED BY <2>2, <4>1, LayoutAssumption DEF MAX_TRANSFER
    <3>2. prp_list' = ListFor(Len(data)) /\ call'.count = Len(data)
          /\ moves' = moves
      BY <1>2, <2>2 DEF Write, BeginCall, Proceed, WriteCall, commandVars
    <3> QED BY <3>1, <3>2, SetUpStep
  <2> QED BY <2>1, <2>2
<1>3. CASE Identify
  <2>1. \A k \in 0 .. 1 - 1 : k \div BLOCKS_PER_PAGE = 0
    BY LayoutAssumption
  <2> QED BY <1>3, <2>1
          DEF Identify, BeginCall, Proceed, IdentifyCall, commandVars,
              PointersInvariant, Reaches, Prp2For, PagesFor
<1>4. ASSUME NEW queue, NEW serial, pc = "submit", SubmitTo(queue, serial)
      PROVE  PointersInvariant'
  <2>1. prp_list' = prp_list /\ pc' = "wait"
    BY <1>4 DEF SubmitTo, memoryVars
  <2>2. /\ call.count \in Nat
        /\ \A k \in 0 .. call.count - 1 :
             Reaches(Command.prp2, k \div BLOCKS_PER_PAGE)
    BY <1>4 DEF PointersInvariant, Command
  <2> DEFINE new(k) == [queue |-> queue, serial |-> serial, k |-> k,
                        command |-> Command]
  <2>3. \A k : new(k).k = k /\ new(k).command = Command
    OBVIOUS
  <2>4. moves' = moves \cup {new(k) : k \in 0 .. call.count - 1}
    BY <1>4 DEF SubmitTo
  <2> HIDE DEF new
  <2>5. ASSUME NEW m \in moves'
        PROVE  m.k \in Nat /\ Reaches(m.command.prp2, m.k \div BLOCKS_PER_PAGE)
    <3>1. CASE m \in moves
      BY <3>1 DEF PointersInvariant
    <3>2. CASE m \notin moves
      <4>1. PICK k \in 0 .. call.count - 1 : m = new(k)
        BY <2>4, <3>2
      <4> QED BY <2>2, <2>3, <4>1
    <3> QED BY <3>1, <3>2
  <2> QED BY <2>1, <2>5 DEF PointersInvariant, Reaches
<1>5. ASSUME prp_list' = prp_list, moves' \subseteq moves,
             pc' # "submit" \/ UNCHANGED <<pc, call>>
      PROVE  PointersInvariant'
  BY <1>5 DEF PointersInvariant, Reaches, Prp2For, PagesFor
<1>6. CASE SubmitIo \/ SubmitAdmin
  BY <1>4, <1>6 DEF SubmitIo, SubmitAdmin
<1>7. CASE AnswerIo \/ AnswerAdmin
  <2>1. ASSUME NEW queue, NEW serial, NEW outcome,
               Finish(queue, serial, outcome)
        PROVE  PointersInvariant'
    BY <1>5, <2>1 DEF Finish, EndCall, memoryVars
  <2> QED BY <1>7, <2>1 DEF AnswerIo, AnswerAdmin
<1>8. CASE TimeOut \/ CopyOut
  BY <1>5, <1>8 DEF TimeOut, CopyOut, EndCall, memoryVars, commandVars
<1>9. ASSUME NEW m \in moves, Move(m)
      PROVE  PointersInvariant'
  BY <1>5, <1>9 DEF Move, callVars
<1>10. ASSUME NEW queue, NEW serial, Ends(queue, serial)
       PROVE  PointersInvariant'
  BY <1>5, <1>10 DEF Ends, memoryVars, callVars
<1>11. ASSUME NEW serial, CompleteIo(serial) \/ CompleteAdmin(serial)
       PROVE  PointersInvariant'
  BY <1>10, <1>11 DEF CompleteIo, CompleteAdmin
<1>12. CASE Lose
  BY <1>5, <1>12 DEF Lose, memoryVars, callVars
<1>13. CASE UNCHANGED vars
  BY <1>5, <1>13 DEF vars, memoryVars, callVars, commandVars
<1> QED
  BY <1>1, <1>2, <1>3, <1>6, <1>7, <1>8, <1>9, <1>11, <1>12, <1>13
  DEF Next, Caller, Driver, Controller

\* Pointers that are right lead every block to its own place.
LEMMA PointersGivePlaces == PointersInvariant => PrpListStable
<1> SUFFICES ASSUME PointersInvariant, NEW m \in moves
             PROVE  PlaceOf(m.command, m.k) = m.k
  BY DEF PrpListStable
<1> DEFINE page == m.k \div BLOCKS_PER_PAGE
<1>1. m.k \in Nat /\ Reaches(m.command.prp2, page)
  BY DEF PointersInvariant
<1>2. /\ page \in Nat /\ m.k % BLOCKS_PER_PAGE \in Nat
      /\ m.k = BLOCKS_PER_PAGE * page + (m.k % BLOCKS_PER_PAGE)
  <2> DEFINE k == m.k
  <2>1. k \in Nat
    BY <1>1
  <2> HIDE DEF k
  <2>2. /\ k \div BLOCKS_PER_PAGE \in Nat
        /\ k % BLOCKS_PER_PAGE \in 0 .. BLOCKS_PER_PAGE - 1
        /\ k = BLOCKS_PER_PAGE * (k \div BLOCKS_PER_PAGE)
                + (k % BLOCKS_PER_PAGE)
    BY <2>1, LayoutAssumption, DivMod
  <2> QED BY <2>2, LayoutAssumption DEF k
<1>3. PlaceOf(m.command, m.k) = PageAt(m.command, page) * BLOCKS_PER_PAGE
                                  + (m.k % BLOCKS_PER_PAGE)
  BY DEF PlaceOf
<1> HIDE DEF page
<1>4. PageAt(m.command, page) = page
  BY <1>1, <1>2 DEF PageAt, Reaches, PrpList
<1>5. page * BLOCKS_PER_PAGE = BLOCKS_PER_PAGE * page
  BY <1>2, LayoutAssumption
<1> QED BY <1>2, <1>3, <1>4, <1>5

\* Later calls rewrite the PRP list under commands that are still outstanding,
\* and yet every block moves to or from its own place in the data area.
THEOREM PrpListIsStable == Spec => []PrpListStable
BY PointersGivePlaces, InitPointers, PointersStep, PTL DEF Spec

------------------------------------------------------------------------------
(* Refinement: until a command times out, the driver is a BlockStore. *)

\* What the driver's calls are, and what of them the controller may hold.
CallInvariant ==
  /\ a_issued \in Nat /\ io_issued \in Nat
  /\ a_timeouts \in Nat /\ io_timeouts \in Nat
  /\ pc # "idle" <=> result = "pending"
  /\ pc # "idle" =>
       /\ call.op \in {"read", "write", "identify"}
       /\ call.slba \in Nat
       /\ call.count \in 1 .. MAX_TRANSFER
       /\ call.op = "write" => call.data \in [1 .. call.count -> Contents]
       /\ call.op = "identify" => call.count = 1
       /\ before \in [Blocks -> BlockContents]
  /\ pc = "copy" => call.op # "write"
  /\ \A m \in moves : m.queue \in {"io", "admin"} /\ m.k \in DataArea

\* No command is with the controller, none has an answer waiting.
Quiet ==
  /\ io_pending = {} /\ io_completions = << >>
  /\ a_pending = {} /\ a_completions = << >>
  /\ failed = {} /\ moves = {}

\* The one command of a queue: being carried out, or finished.
OneCommand(queue, issued, pending, completions) ==
  /\ \/ pending = {issued} /\ completions = << >> /\ failed = {}
     \/ /\ pending = {} /\ completions = <<issued>>
        /\ failed \subseteq {<<queue, issued>>} /\ moves = {}
  /\ \A m \in moves :
       /\ m.queue = queue /\ m.serial = issued
       /\ m.command.op = call.op /\ m.command.slba = call.slba
       /\ m.k \in 0 .. call.count - 1

\* Until the first timeout the controller holds the command of the call in
\* progress and no other.
OnlyThisCall ==
  /\ pc # "wait" => Quiet
  /\ pc = "wait" /\ call.op = "identify" =>
       /\ OneCommand("admin", a_issued, a_pending, a_completions)
       /\ io_pending = {} /\ io_completions = << >>
  /\ pc = "wait" /\ call.op # "identify" =>
       /\ OneCommand("io", io_issued, io_pending, io_completions)
       /\ a_pending = {} /\ a_completions = << >>

\* The k-th block of the call has been moved.
Moved(k) ==
  \/ /\ call.op = "read" /\ call.slba + k \in Blocks
     /\ buffer[k] = before[call.slba + k]
  \/ /\ call.op = "write" /\ call.slba + k \in Blocks
     /\ storage[call.slba + k] = call.data[k + 1]
  \/ call.op = "identify" /\ buffer[k] = IdentifyData

\* How far the call in progress is: what a write has put in the data area is
\* still there, every block has been moved or is about to be, and each block of
\* the device is as it was or as the write wants it.
SoFar ==
  /\ pc \in {"submit", "wait"} /\ call.op = "write" =>
       \A k \in 0 .. call.count - 1 : buffer[k] = call.data[k + 1]
  /\ pc \in {"wait", "copy"} /\ failed = {} =>
       \A k \in 0 .. call.count - 1 : Moved(k) \/ \E m \in moves : m.k = k
  /\ pc # "idle" =>
       \A b \in Blocks :
         \/ storage[b] = before[b]
         \/ /\ call.op = "write" /\ b \in call.slba .. call.slba + call.count - 1
            /\ storage[b] = call.data[b - call.slba + 1]

\* What the refinement rests on.
StoreInvariant ==
  /\ TypeOK
  /\ PointersInvariant
  /\ CallInvariant
  /\ ~TimedOut => OnlyThisCall /\ SoFar

\* The data area has room for at least one page.
LEMMA DataAreaIs ==
  /\ MAX_TRANSFER \in Nat /\ MAX_TRANSFER >= BLOCKS_PER_PAGE
  /\ MAX_TRANSFER >= 1
<1>1. BLOCKS_PER_PAGE * DATA_PAGES >= BLOCKS_PER_PAGE
  BY LayoutAssumption, PositiveMultiple
<1>2. BLOCKS_PER_PAGE * DATA_PAGES = DATA_PAGES * BLOCKS_PER_PAGE
  BY LayoutAssumption
<1>3. DATA_PAGES * BLOCKS_PER_PAGE \in Nat
  BY LayoutAssumption
<1> QED BY <1>1, <1>2, <1>3, LayoutAssumption DEF MAX_TRANSFER

\* open has returned and no call has been made.
LEMMA InitStore == Init => StoreInvariant
<1> SUFFICES ASSUME Init PROVE StoreInvariant
  OBVIOUS
<1> USE DEF Init, Admin!Init, Io!Init
<1>1. TypeOK
  BY LayoutAssumption
  DEF TypeOK, NoCall, BlockContents, PrpList
<1>2. PointersInvariant
  BY InitPointers
<1>3. CallInvariant
  BY DEF CallInvariant
<1>4. OnlyThisCall
  BY DEF OnlyThisCall, Quiet
<1>5. SoFar
  BY DEF SoFar
<1> QED BY <1>1, <1>2, <1>3, <1>4, <1>5 DEF StoreInvariant

\* A call that is refused leaves the driver idle.
LEMMA RefuseTypes ==
  ASSUME StoreInvariant, BeginCall, Refuse
  PROVE  TypeOK' /\ CallInvariant'
BY DEF StoreInvariant, TypeOK, CallInvariant, BeginCall, Refuse, NoCall,
       memoryVars, commandVars, adminVars, ioVars, Pending

\* A call that goes on has found its arguments within bounds.
LEMMA ProceedTypes ==
  ASSUME StoreInvariant, BeginCall, NEW c, Proceed(c),
         c.op \in {"read", "write", "identify"},
         c.slba \in Nat, c.count \in 1 .. MAX_TRANSFER,
         c.op = "write" => c.data \in [1 .. c.count -> Contents],
         c.op = "identify" => c.count = 1,
         buffer' \in [DataArea -> BlockContents],
         prp_list' \in [PrpList -> 0 .. DATA_PAGES - 1]
  PROVE  TypeOK' /\ CallInvariant'
BY DEF StoreInvariant, TypeOK, CallInvariant, BeginCall, Proceed,
       commandVars, adminVars, ioVars, Pending

\* Read's arguments.
LEMMA ReadTypes ==
  ASSUME StoreInvariant, NEW slba \in Slbas, NEW count \in Counts,
         Read(slba, count)
  PROVE  TypeOK' /\ CallInvariant'
<1>1. CASE count = 0 \/ count > MAX_TRANSFER
  BY <1>1, RefuseTypes DEF Read
<1>2. CASE ~(count = 0 \/ count > MAX_TRANSFER)
  <2>1. count \in 1 .. MAX_TRANSFER /\ slba \in Nat
    BY <1>2, RequestsAssumption, DataAreaIs
  <2>2. BeginCall /\ Proceed(ReadCall(slba, count)) /\ buffer' = buffer
        /\ prp_list' = ListFor(count)
    BY <1>2 DEF Read
  <2>3. /\ buffer \in [DataArea -> BlockContents]
        /\ prp_list \in [PrpList -> 0 .. DATA_PAGES - 1]
    BY DEF StoreInvariant, TypeOK
  <2>4. ListFor(count) \in [PrpList -> 0 .. DATA_PAGES - 1]
    BY <2>1, <2>3, ListForIs
  <2> QED BY <2>1, <2>2, <2>3, <2>4, ProceedTypes DEF ReadCall
<1> QED BY <1>1, <1>2

\* What a write that goes on has done.
LEMMA WriteProceeds ==
  ASSUME StoreInvariant, NEW slba \in Slbas, NEW count \in Counts,
         NEW ragged \in BOOLEAN, NEW data \in [1 .. count -> Contents],
         Write(slba, data, ragged),
         ~(data = << >> \/ ragged \/ Len(data) > MAX_TRANSFER)
  PROVE  /\ slba \in Nat /\ count \in 1 .. MAX_TRANSFER /\ Len(data) = count
         /\ BeginCall /\ Proceed(WriteCall(slba, data))
         /\ prp_list' \in [PrpList -> 0 .. DATA_PAGES - 1]
         /\ buffer' \in [DataArea -> BlockContents]
         /\ \A k \in 0 .. count - 1 : buffer'[k] = data[k + 1]
<1>1. slba \in Nat /\ count \in Nat
  BY RequestsAssumption
<1>2. Len(data) = count /\ data \in Seq(Contents)
  BY <1>1
<1>3. count \in 1 .. MAX_TRANSFER
  BY <1>1, <1>2, DataAreaIs
<1>4. /\ buffer \in [DataArea -> BlockContents]
      /\ prp_list \in [PrpList -> 0 .. DATA_PAGES - 1]
  BY DEF StoreInvariant, TypeOK
<1>5. prp_list' \in [PrpList -> 0 .. DATA_PAGES - 1]
  BY <1>2, <1>3, <1>4, ListForIs DEF Write
<1>6. buffer' = [i \in DataArea |-> IF i < count THEN data[i + 1] ELSE buffer[i]]
  BY <1>2 DEF Write
<1>7. buffer' \in [DataArea -> BlockContents]
  BY <1>1, <1>4, <1>6, DataAreaIs DEF DataArea, BlockContents
<1>8. \A k \in 0 .. count - 1 : buffer'[k] = data[k + 1]
  BY <1>3, <1>6, DataAreaIs DEF DataArea
<1>9. BeginCall /\ Proceed(WriteCall(slba, data))
  BY DEF Write
<1> QED BY <1>1, <1>2, <1>3, <1>5, <1>7, <1>8, <1>9

\* Write's arguments.
LEMMA WriteTypes ==
  ASSUME StoreInvariant, NEW slba \in Slbas, NEW count \in Counts,
         NEW ragged \in BOOLEAN, NEW data \in [1 .. count -> Contents],
         Write(slba, data, ragged)
  PROVE  TypeOK' /\ CallInvariant'
<1>1. CASE data = << >> \/ ragged \/ Len(data) > MAX_TRANSFER
  BY <1>1, RefuseTypes DEF Write
<1>2. CASE ~(data = << >> \/ ragged \/ Len(data) > MAX_TRANSFER)
  <2> DEFINE c == WriteCall(slba, data)
  <2>1. /\ slba \in Nat /\ count \in 1 .. MAX_TRANSFER /\ Len(data) = count
        /\ BeginCall /\ Proceed(c)
        /\ prp_list' \in [PrpList -> 0 .. DATA_PAGES - 1]
        /\ buffer' \in [DataArea -> BlockContents]
    BY <1>2, WriteProceeds
  <2>2. c.op = "write" /\ c.slba = slba /\ c.count = count /\ c.data = data
    BY <2>1 DEF WriteCall
  <2> HIDE DEF c
  <2> QED BY <2>1, <2>2, ProceedTypes
<1> QED BY <1>1, <1>2

\* What a submission adds: one move for each block of the call.
LEMMA SubmitAdds ==
  ASSUME NEW queue, NEW serial, call.count \in Nat, SubmitTo(queue, serial)
  PROVE  /\ moves \subseteq moves'
         /\ \A m \in moves' \ moves :
              /\ m.queue = queue /\ m.serial = serial
              /\ m.k \in 0 .. call.count - 1
              /\ m.command.op = call.op /\ m.command.slba = call.slba
         /\ \A k \in 0 .. call.count - 1 : \E m \in moves' : m.k = k
<1> DEFINE new(k) == [queue |-> queue, serial |-> serial, k |-> k,
                      command |-> Command]
<1>1. \A k : /\ new(k).queue = queue /\ new(k).serial = serial /\ new(k).k = k
             /\ new(k).command.op = call.op
             /\ new(k).command.slba = call.slba
  BY DEF Command
<1>2. moves' = moves \cup {new(k) : k \in 0 .. call.count - 1}
  BY DEF SubmitTo
<1> HIDE DEF new
<1> QED BY <1>1, <1>2

\* The types are kept.
LEMMA TypesStep == StoreInvariant /\ [Next]_vars => TypeOK' /\ CallInvariant'
<1> SUFFICES ASSUME StoreInvariant, [Next]_vars
             PROVE  TypeOK' /\ CallInvariant'
  OBVIOUS
<1>0. TypeOK /\ CallInvariant /\ PointersInvariant
  BY DEF StoreInvariant
<1>1. CASE Identify
  <2>1. BeginCall /\ Proceed(IdentifyCall) /\ UNCHANGED <<buffer, prp_list>>
    BY <1>1 DEF Identify
  <2>2. 1 \in 1 .. MAX_TRANSFER
    BY DataAreaIs
  <2> QED BY <1>0, <2>1, <2>2, ProceedTypes DEF IdentifyCall, TypeOK
<1>2. CASE SubmitIo
  <2>1. /\ pc = "submit" /\ SubmitTo("io", io_issued + 1) /\ call.count \in Nat
        /\ call.count <= MAX_TRANSFER
        /\ io_issued' = io_issued + 1
        /\ io_pending' = io_pending \cup {io_issued + 1}
        /\ UNCHANGED <<a_issued, a_pending, a_timeouts, io_timeouts>>
    BY <1>0, <1>2 DEF SubmitIo, Io!Issue, adminVars, CallInvariant
  <2>2. \A m \in moves' :
          /\ m.queue \in {"io", "admin"} /\ m.k \in DataArea
          /\ m.serial \in Pending(m.queue)'
    BY <1>0, <2>1, SubmitAdds, DataAreaIs
    DEF CallInvariant, TypeOK, Pending, DataArea
  <2>3. /\ io_pending' \subseteq 1 .. io_issued'
        /\ a_pending' \subseteq 1 .. a_issued'
        /\ io_issued' \in Nat /\ a_issued' \in Nat
    BY <1>0, <2>1 DEF TypeOK, CallInvariant
  <2>4. pc' = "wait" /\ UNCHANGED <<memoryVars, call, result, output, before>>
    BY <2>1 DEF SubmitTo
  <2> QED BY <1>0, <2>1, <2>2, <2>3, <2>4 DEF TypeOK, CallInvariant, memoryVars
<1>3. CASE SubmitAdmin
  <2>1. /\ pc = "submit" /\ SubmitTo("admin", a_issued + 1)
        /\ call.count \in Nat /\ call.count <= MAX_TRANSFER
        /\ a_issued' = a_issued + 1
        /\ a_pending' = a_pending \cup {a_issued + 1}
        /\ UNCHANGED <<io_issued, io_pending, a_timeouts, io_timeouts>>
    BY <1>0, <1>3 DEF SubmitAdmin, Admin!Issue, ioVars, CallInvariant
  <2>2. \A m \in moves' :
          /\ m.queue \in {"io", "admin"} /\ m.k \in DataArea
          /\ m.serial \in Pending(m.queue)'
    BY <1>0, <2>1, SubmitAdds, DataAreaIs
    DEF CallInvariant, TypeOK, Pending, DataArea
  <2>3. /\ io_pending' \subseteq 1 .. io_issued'
        /\ a_pending' \subseteq 1 .. a_issued'
        /\ io_issued' \in Nat /\ a_issued' \in Nat
    BY <1>0, <2>1 DEF TypeOK, CallInvariant
  <2>4. pc' = "wait" /\ UNCHANGED <<memoryVars, call, result, output, before>>
    BY <2>1 DEF SubmitTo
  <2> QED BY <1>0, <2>1, <2>2, <2>3, <2>4 DEF TypeOK, CallInvariant, memoryVars
<1>4. CASE AnswerIo \/ AnswerAdmin
  <2>1. /\ pc = "wait"
        /\ UNCHANGED <<a_issued, a_pending, a_timeouts, io_issued, io_pending,
                       io_timeouts>>
    BY <1>4
    DEF AnswerIo, AnswerAdmin, Io!Answer, Admin!Answer, adminVars, ioVars
  <2>2. ASSUME NEW queue, NEW serial, NEW outcome,
               Finish(queue, serial, outcome)
        PROVE  TypeOK' /\ CallInvariant'
    BY <1>0, <2>1, <2>2
    DEF Finish, Checked, EndCall, TypeOK, CallInvariant, memoryVars, Pending
  <2> QED BY <1>4, <2>2 DEF AnswerIo, AnswerAdmin
<1>5. CASE TimeOut
  <2>1. /\ io_timeouts' \in Nat /\ a_timeouts' \in Nat
        /\ UNCHANGED <<a_issued, a_pending, io_issued, io_pending>>
    BY <1>0, <1>5
    DEF TimeOut, CallInvariant, Io!GiveUp, Admin!GiveUp, adminVars, ioVars
  <2> QED BY <1>0, <1>5, <2>1
          DEF TimeOut, EndCall, TypeOK, CallInvariant, memoryVars, commandVars,
              Pending
<1>6. CASE CopyOut
  BY <1>0, <1>6
  DEF CopyOut, EndCall, TypeOK, CallInvariant, memoryVars, commandVars,
      adminVars, ioVars, Pending
<1>7. ASSUME NEW m \in moves, Move(m)
      PROVE  TypeOK' /\ CallInvariant'
  <2>1. PlaceOf(m.command, m.k) = m.k /\ m.k \in DataArea
    BY <1>0, PointersGivePlaces DEF PrpListStable, CallInvariant
  <2>2. /\ storage' \in [Blocks -> BlockContents]
        /\ buffer' \in [DataArea -> BlockContents]
    BY <1>0, <1>7, <2>1 DEF Move, TypeOK, BlockContents
  <2> QED BY <1>0, <1>7, <2>2
          DEF Move, TypeOK, CallInvariant, callVars, adminVars, ioVars, Pending
<1>8. ASSUME NEW serial \in io_pending, CompleteIo(serial)
      PROVE  TypeOK' /\ CallInvariant'
  BY <1>0, <1>8
  DEF CompleteIo, Io!Complete, Ends, MovesOf, TypeOK, CallInvariant, memoryVars,
      callVars, adminVars, Pending
<1>9. ASSUME NEW serial \in a_pending, CompleteAdmin(serial)
      PROVE  TypeOK' /\ CallInvariant'
  BY <1>0, <1>9
  DEF CompleteAdmin, Admin!Complete, Ends, MovesOf, TypeOK, CallInvariant,
      memoryVars, callVars, ioVars, Pending
<1>10. CASE Lose
  BY <1>0, <1>10
  DEF Lose, Io!Lose, Admin!Lose, TypeOK, CallInvariant, memoryVars, callVars,
      adminVars, ioVars, Pending
<1>11. CASE UNCHANGED vars
  BY <1>0, <1>11
  DEF vars, TypeOK, CallInvariant, memoryVars, callVars, commandVars, adminVars,
      ioVars, Pending
<1> QED
  BY <1>1, <1>2, <1>3, <1>4, <1>5, <1>6, <1>7, <1>8, <1>9, <1>10, <1>11,
     ReadTypes, WriteTypes
  DEF Next, Caller, Driver, Controller

\* Timeouts are never forgotten.
LEMMA TimedOutStays == CallInvariant /\ [Next]_vars /\ TimedOut => TimedOut'
<1> SUFFICES ASSUME CallInvariant, [Next]_vars, TimedOut PROVE TimedOut'
  OBVIOUS
<1>1. /\ io_timeouts' = io_timeouts \/ io_timeouts' = io_timeouts + 1
      /\ a_timeouts' = a_timeouts \/ a_timeouts' = a_timeouts + 1
  BY DEF Next, Caller, Driver, Controller, Read, Write, Identify, BeginCall,
         SubmitIo, SubmitAdmin, AnswerIo, AnswerAdmin, TimeOut, CopyOut, Move,
         CompleteIo, CompleteAdmin, Lose, Io!Issue, Admin!Issue, Io!Answer,
         Admin!Answer, Io!GiveUp, Admin!GiveUp, Io!Complete, Admin!Complete,
         Io!Lose, Admin!Lose, vars, adminVars, ioVars
<1> QED BY <1>1 DEF TimedOut, CallInvariant

\* Without a timeout, a call begins with nothing outstanding.
LEMMA BeginCoherent ==
  ASSUME OnlyThisCall, BeginCall, pc' \in {"idle", "submit"}
  PROVE  OnlyThisCall'
BY DEF OnlyThisCall, BeginCall, Quiet, commandVars, adminVars, ioVars

\* A call that is refused changes nothing.
LEMMA RefuseCoherent ==
  ASSUME OnlyThisCall, BeginCall, Refuse
  PROVE  OnlyThisCall' /\ SoFar'
<1>1. pc' = "idle"
  BY DEF BeginCall, Refuse
<1>2. OnlyThisCall'
  BY <1>1, BeginCoherent
<1> QED BY <1>1, <1>2 DEF SoFar

\* A call that goes on starts from the device as it is.
LEMMA ProceedCoherent ==
  ASSUME OnlyThisCall, BeginCall, NEW c, Proceed(c),
         c.op = "write" => \A k \in 0 .. c.count - 1 : buffer'[k] = c.data[k + 1]
  PROVE  OnlyThisCall' /\ SoFar'
<1>1. pc' = "submit" /\ call' = c /\ before' = storage /\ storage' = storage
  BY DEF Proceed
<1>2. OnlyThisCall'
  BY <1>1, BeginCoherent
<1>3. SoFar'
  BY <1>1 DEF SoFar
<1> QED BY <1>2, <1>3

\* The calls up to the submission.
LEMMA CallerCoherent ==
  ASSUME StoreInvariant, ~TimedOut, Caller
  PROVE  OnlyThisCall' /\ SoFar'
<1>0. OnlyThisCall
  BY DEF StoreInvariant
<1>1. ASSUME NEW slba \in Slbas, NEW count \in Counts, Read(slba, count)
      PROVE  OnlyThisCall' /\ SoFar'
  <2>1. CASE count = 0 \/ count > MAX_TRANSFER
    BY <1>0, <1>1, <2>1, RefuseCoherent DEF Read
  <2>2. CASE ~(count = 0 \/ count > MAX_TRANSFER)
    BY <1>0, <1>1, <2>2, ProceedCoherent DEF Read, ReadCall
  <2> QED BY <2>1, <2>2
<1>2. ASSUME NEW slba \in Slbas, NEW count \in Counts, NEW ragged \in BOOLEAN,
             NEW data \in [1 .. count -> Contents], Write(slba, data, ragged)
      PROVE  OnlyThisCall' /\ SoFar'
  <2>1. CASE data = << >> \/ ragged \/ Len(data) > MAX_TRANSFER
    BY <1>0, <1>2, <2>1, RefuseCoherent DEF Write
  <2>2. CASE ~(data = << >> \/ ragged \/ Len(data) > MAX_TRANSFER)
    <3> DEFINE c == WriteCall(slba, data)
    <3>1. /\ Len(data) = count /\ BeginCall /\ Proceed(c)
          /\ \A k \in 0 .. count - 1 : buffer'[k] = data[k + 1]
      BY <1>2, <2>2, WriteProceeds
    <3>2. c.count = count /\ c.data = data
      BY <3>1 DEF WriteCall
    <3> HIDE DEF c
    <3> QED BY <1>0, <3>1, <3>2, ProceedCoherent
  <2> QED BY <2>1, <2>2
<1>3. CASE Identify
  BY <1>0, <1>3, ProceedCoherent DEF Identify, IdentifyCall
<1> QED BY <1>1, <1>2, <1>3 DEF Caller

\* The submission: every block of the call is about to be moved.
LEMMA SubmitCoherent ==
  ASSUME StoreInvariant, ~TimedOut, SubmitIo \/ SubmitAdmin
  PROVE  OnlyThisCall' /\ SoFar'
<1>0. OnlyThisCall /\ SoFar /\ CallInvariant /\ pc = "submit" /\ Quiet
      /\ call.count \in Nat
  BY DEF StoreInvariant, SubmitIo, SubmitAdmin, OnlyThisCall, CallInvariant
<1>1. ASSUME NEW queue, NEW serial, SubmitTo(queue, serial)
      PROVE  /\ SoFar'
             /\ pc' = "wait" /\ call' = call /\ failed' = {}
             /\ \A m \in moves' :
                  /\ m.queue = queue /\ m.serial = serial
                  /\ m.k \in 0 .. call.count - 1
                  /\ m.command.op = call.op /\ m.command.slba = call.slba
  <2>1. /\ pc' = "wait" /\ failed' = {} /\ moves = {}
        /\ UNCHANGED <<storage, buffer, call, before>>
    BY <1>0, <1>1 DEF SubmitTo, memoryVars, Quiet
  <2>2. /\ \A m \in moves' :
             /\ m.queue = queue /\ m.serial = serial
             /\ m.k \in 0 .. call.count - 1
             /\ m.command.op = call.op /\ m.command.slba = call.slba
        /\ \A k \in 0 .. call.count - 1 : \E m \in moves' : m.k = k
    BY <1>0, <1>1, <2>1, SubmitAdds
  <2> QED BY <1>0, <2>1, <2>2 DEF SoFar
<1>2. CASE SubmitIo
  <2>1. /\ call.op # "identify" /\ SubmitTo("io", io_issued + 1)
        /\ io_issued' = io_issued + 1 /\ io_pending' = {io_issued + 1}
        /\ io_completions' = << >> /\ a_pending' = {} /\ a_completions' = << >>
    BY <1>0, <1>2 DEF SubmitIo, Io!Issue, Quiet, adminVars
  <2> QED BY <1>1, <2>1 DEF OnlyThisCall, OneCommand
<1>3. CASE SubmitAdmin
  <2>1. /\ call.op = "identify" /\ SubmitTo("admin", a_issued + 1)
        /\ a_issued' = a_issued + 1 /\ a_pending' = {a_issued + 1}
        /\ a_completions' = << >> /\ io_pending' = {} /\ io_completions' = << >>
    BY <1>0, <1>3 DEF SubmitAdmin, Admin!Issue, Quiet, ioVars
  <2> QED BY <1>1, <2>1 DEF OnlyThisCall, OneCommand
<1> QED BY <1>2, <1>3

\* The answer there is belongs to the call that takes it, and its cid matches.
LEMMA AnswerIsOwn ==
  ASSUME OnlyThisCall, AnswerIo \/ AnswerAdmin
  PROVE  \E queue, serial :
           /\ Finish(queue, serial, "ok")
           /\ failed \subseteq {<<queue, serial>>} /\ moves = {}
           /\ io_pending' = {} /\ io_completions' = << >>
           /\ a_pending' = {} /\ a_completions' = << >>
<1>1. CASE AnswerIo
  <2>1. /\ call.op # "identify"
        /\ io_completions = <<io_issued>>
        /\ io_pending = {}
        /\ failed \subseteq {<<"io", io_issued>>} /\ moves = {}
        /\ a_pending = {} /\ a_completions = << >>
    BY <1>1 DEF AnswerIo, Io!Answer, OnlyThisCall, OneCommand
  <2>2. Head(io_completions) = io_issued /\ Tail(io_completions) = << >>
    BY <2>1
  <2>3. io_outcome' = "ok"
    BY <1>1, <2>2 DEF AnswerIo, Io!Answer
  <2> QED BY <1>1, <2>1, <2>2, <2>3 DEF AnswerIo, Io!Answer, adminVars
<1>2. CASE AnswerAdmin
  <2>1. call.op = "identify" /\ a_completions = <<a_issued>> /\ a_pending = {}
        /\ failed \subseteq {<<"admin", a_issued>>} /\ moves = {}
        /\ io_pending = {} /\ io_completions = << >>
    BY <1>2 DEF AnswerAdmin, Admin!Answer, OnlyThisCall, OneCommand
  <2>2. Head(a_completions) = a_issued /\ Tail(a_completions) = << >>
    BY <2>1
  <2>3. a_outcome' = "ok"
    BY <1>2, <2>2 DEF AnswerAdmin, Admin!Answer
  <2> QED BY <1>2, <2>1, <2>2, <2>3 DEF AnswerAdmin, Admin!Answer, ioVars
<1> QED BY <1>1, <1>2

\* The answer: nothing is outstanding any more.
LEMMA AnswerCoherent ==
  ASSUME StoreInvariant, ~TimedOut, AnswerIo \/ AnswerAdmin
  PROVE  OnlyThisCall' /\ SoFar'
<1>0. OnlyThisCall /\ SoFar /\ pc = "wait"
  BY DEF StoreInvariant, AnswerIo, AnswerAdmin
<1>1. PICK queue, serial :
        /\ Finish(queue, serial, "ok")
        /\ failed \subseteq {<<queue, serial>>} /\ moves = {}
        /\ io_pending' = {} /\ io_completions' = << >>
        /\ a_pending' = {} /\ a_completions' = << >>
  BY <1>0, AnswerIsOwn
<1>2. /\ failed' = {} /\ moves' = {} /\ pc' \in {"idle", "copy"}
      /\ UNCHANGED <<storage, buffer, call>>
      /\ pc' = "copy" => failed = {} /\ before' = before
  BY <1>1 DEF Finish, Checked, EndCall, memoryVars
<1>3. OnlyThisCall'
  BY <1>1, <1>2 DEF OnlyThisCall, Quiet
<1>4. SoFar'
  BY <1>0, <1>1, <1>2 DEF SoFar, Moved
<1> QED BY <1>3, <1>4

\* What is still to be moved is part of the call in progress.
LEMMA MovesAreOwn ==
  ASSUME OnlyThisCall, NEW m \in moves
  PROVE  /\ pc = "wait" /\ failed = {}
         /\ m.command.op = call.op /\ m.command.slba = call.slba
         /\ m.k \in 0 .. call.count - 1
BY DEF OnlyThisCall, OneCommand, Quiet

\* Moving a block to or from the device brings the call one block on.
LEMMA MoveCoherent ==
  ASSUME StoreInvariant, ~TimedOut, NEW m \in moves, Move(m)
  PROVE  OnlyThisCall' /\ SoFar'
<1>0. OnlyThisCall /\ SoFar /\ TypeOK /\ CallInvariant /\ PointersInvariant
  BY DEF StoreInvariant
<1>1. /\ pc = "wait" /\ failed = {}
      /\ m.command.op = call.op /\ m.command.slba = call.slba
      /\ m.k \in 0 .. call.count - 1
      /\ PlaceOf(m.command, m.k) = m.k
  BY <1>0, MovesAreOwn, PointersGivePlaces DEF PrpListStable
<1>2. /\ call.slba \in Nat /\ call.count \in 1 .. MAX_TRANSFER
      /\ call.op = "identify" => call.count = 1
      /\ before \in [Blocks -> BlockContents]
      /\ storage \in [Blocks -> BlockContents]
      /\ buffer \in [DataArea -> BlockContents]
      /\ call.count - 1 \in DataArea
      /\ \A k \in 0 .. call.count - 1 : k \in DataArea
  BY <1>0, <1>1, DataAreaIs DEF CallInvariant, TypeOK, DataArea
<1>3. /\ moves' = moves \ {m}
      /\ UNCHANGED <<pc, call, before, failed, io_issued, io_pending,
                     io_completions, a_issued, a_pending, a_completions>>
  BY DEF Move, callVars, adminVars, ioVars
<1>4. OnlyThisCall'
  BY <1>0, <1>1, <1>3 DEF OnlyThisCall, OneCommand
<1>5. \A k \in 0 .. call.count - 1 :
        Moved(k) \/ (\E n \in moves' : n.k = k) \/ k = m.k
  BY <1>0, <1>1, <1>3 DEF SoFar
<1>6. CASE call.op = "read"
  <2>1. /\ call.slba + m.k \in Blocks /\ storage' = storage
        /\ buffer' = [buffer EXCEPT ![m.k] = storage[call.slba + m.k]]
    BY <1>1, <1>6 DEF Move
  <2>2. storage[call.slba + m.k] = before[call.slba + m.k]
    BY <1>0, <1>1, <1>6, <2>1 DEF SoFar
  <2>3. \A k \in 0 .. call.count - 1 :
          /\ k = m.k => Moved(k)'
          /\ k # m.k /\ Moved(k) => Moved(k)'
    BY <1>1, <1>2, <1>3, <1>6, <2>1, <2>2 DEF Moved
  <2>4. SoFar'
    BY <1>0, <1>1, <1>3, <1>5, <1>6, <2>1, <2>3 DEF SoFar
  <2> QED BY <1>4, <2>4
<1>7. CASE call.op = "write"
  <2>1. /\ call.slba + m.k \in Blocks /\ buffer' = buffer
        /\ storage' = [storage EXCEPT ![call.slba + m.k] = buffer[m.k]]
    BY <1>1, <1>7 DEF Move
  <2>2. buffer[m.k] = call.data[m.k + 1]
    BY <1>0, <1>1, <1>7 DEF SoFar
  <2>3. \A k \in 0 .. call.count - 1 :
          /\ k = m.k => Moved(k)'
          /\ k # m.k /\ Moved(k) => Moved(k)'
    BY <1>1, <1>2, <1>3, <1>7, <2>1, <2>2 DEF Moved
  <2>4. ASSUME NEW b \in Blocks
        PROVE  \/ storage'[b] = before[b]
               \/ /\ b \in call.slba .. call.slba + call.count - 1
                  /\ storage'[b] = call.data[b - call.slba + 1]
    <3>1. CASE b = call.slba + m.k
      <4>1. b - call.slba = m.k /\ b \in call.slba .. call.slba + call.count - 1
        BY <1>1, <1>2, <3>1
      <4>2. storage'[b] = call.data[m.k + 1]
        BY <1>2, <2>1, <2>2, <3>1
      <4> QED BY <4>1, <4>2
    <3>2. CASE b # call.slba + m.k
      <4>1. storage'[b] = storage[b]
        BY <1>2, <2>1, <3>2
      <4> QED BY <1>0, <1>1, <4>1 DEF SoFar
    <3> QED BY <3>1, <3>2
  <2>5. SoFar'
    BY <1>0, <1>1, <1>3, <1>5, <1>7, <2>1, <2>3, <2>4 DEF SoFar
  <2> QED BY <1>4, <2>5
<1>8. CASE call.op = "identify"
  <2>1. /\ storage' = storage
        /\ buffer' = [i \in DataArea |-> IF i \in FirstPage THEN IdentifyData
                                                            ELSE buffer[i]]
    BY <1>1, <1>8 DEF Move
  <2>2. \A k \in 0 .. call.count - 1 : Moved(k)'
    BY <1>2, <1>3, <1>8, <2>1, LayoutAssumption DEF Moved, FirstPage
  <2>3. SoFar'
    BY <1>0, <1>1, <1>3, <1>8, <2>1, <2>2 DEF SoFar
  <2> QED BY <1>4, <2>3
<1> QED BY <1>0, <1>1, <1>6, <1>7, <1>8 DEF CallInvariant

\* A command finished: with success only after its last block.
LEMMA CompleteCoherent ==
  ASSUME StoreInvariant, ~TimedOut, NEW serial,
         CompleteIo(serial) \/ CompleteAdmin(serial)
  PROVE  OnlyThisCall' /\ SoFar'
<1>0. OnlyThisCall /\ SoFar
  BY DEF StoreInvariant
<1>1. ASSUME NEW queue, Ends(queue, serial), failed = {}, pc = "wait",
             \A m \in moves : m.queue = queue /\ m.serial = serial
      PROVE  /\ moves' = {} /\ failed' \subseteq {<<queue, serial>>}
             /\ pc' = "wait" /\ call' = call
             /\ SoFar'
  <2>1. /\ UNCHANGED <<storage, buffer, pc, call, before>>
        /\ moves' = {} /\ failed' \subseteq {<<queue, serial>>}
        /\ failed' = {} => moves = {}
    BY <1>1 DEF Ends, MovesOf, memoryVars, callVars
  <2> QED BY <1>0, <1>1, <2>1 DEF SoFar, Moved
<1>2. CASE CompleteIo(serial)
  <2>1. /\ pc = "wait" /\ call.op # "identify" /\ serial = io_issued
        /\ failed = {} /\ io_completions = << >> /\ io_pending = {io_issued}
        /\ \A m \in moves : m.queue = "io" /\ m.serial = serial
        /\ a_pending = {} /\ a_completions = << >>
    BY <1>0, <1>2 DEF CompleteIo, Io!Complete, OnlyThisCall, OneCommand, Quiet
  <2>2. /\ io_pending' = {} /\ io_completions' = <<io_issued>>
        /\ io_issued' = io_issued
        /\ a_pending' = {} /\ a_completions' = << >>
    BY <1>2, <2>1 DEF CompleteIo, Io!Complete, adminVars
  <2> QED BY <1>1, <1>2, <2>1, <2>2 DEF CompleteIo, OnlyThisCall, OneCommand
<1>3. CASE CompleteAdmin(serial)
  <2>1. /\ pc = "wait" /\ call.op = "identify" /\ serial = a_issued
        /\ failed = {} /\ a_completions = << >> /\ a_pending = {a_issued}
        /\ \A m \in moves : m.queue = "admin" /\ m.serial = serial
        /\ io_pending = {} /\ io_completions = << >>
    BY <1>0, <1>3
    DEF CompleteAdmin, Admin!Complete, OnlyThisCall, OneCommand, Quiet
  <2>2. /\ a_pending' = {} /\ a_completions' = <<a_issued>>
        /\ a_issued' = a_issued
        /\ io_pending' = {} /\ io_completions' = << >>
    BY <1>3, <2>1 DEF CompleteAdmin, Admin!Complete, ioVars
  <2> QED BY <1>1, <1>3, <2>1, <2>2 DEF CompleteAdmin, OnlyThisCall, OneCommand
<1> QED BY <1>2, <1>3

\* Every step keeps the call in progress and the device in step.
LEMMA StoreStep == StoreInvariant /\ [Next]_vars => StoreInvariant'
<1> SUFFICES ASSUME StoreInvariant, [Next]_vars
             PROVE  StoreInvariant'
  OBVIOUS
<1>0. TypeOK /\ CallInvariant /\ PointersInvariant
  BY DEF StoreInvariant
<1>1. TypeOK' /\ CallInvariant' /\ PointersInvariant'
  BY <1>0, TypesStep, PointersStep
<1>2. ASSUME ~TimedOut' PROVE OnlyThisCall' /\ SoFar'
  <2>0. ~TimedOut /\ OnlyThisCall /\ SoFar
    BY <1>0, <1>2, TimedOutStays DEF StoreInvariant
  <2>1. CASE TimeOut
    <3>1. \/ io_timeouts' = io_timeouts + 1 /\ a_timeouts' = a_timeouts
          \/ a_timeouts' = a_timeouts + 1 /\ io_timeouts' = io_timeouts
      BY <2>1 DEF TimeOut, Io!GiveUp, Admin!GiveUp, adminVars, ioVars
    <3>2. TimedOut'
      BY <1>0, <3>1 DEF TimedOut, CallInvariant
    <3> QED BY <1>2, <3>2
  <2>2. CASE CopyOut
    <3>1. /\ pc = "copy"
          /\ pc' = "idle"
          /\ UNCHANGED <<commandVars, adminVars, ioVars>>
      BY <2>2 DEF CopyOut, EndCall
    <3> QED BY <2>0, <3>1
            DEF OnlyThisCall, SoFar, Quiet, commandVars, adminVars, ioVars
  <2>3. CASE Lose
    <3>1. a_timeouts >= LossThreshold \/ io_timeouts >= LossThreshold
      BY <2>3 DEF Lose, Io!Lose, Admin!Lose
    <3> QED BY <1>0, <2>0, <3>1, LossAssumption DEF TimedOut, CallInvariant
  <2>4. CASE UNCHANGED vars
    BY <2>0, <2>4 DEF vars, memoryVars, callVars, commandVars, adminVars, ioVars,
                  OnlyThisCall, OneCommand, Quiet, SoFar, Moved
  <2> QED
    BY <2>0, <2>1, <2>2, <2>3, <2>4, CallerCoherent, SubmitCoherent,
       AnswerCoherent, MoveCoherent, CompleteCoherent
    DEF Next, Driver, Controller
<1> QED BY <1>1, <1>2 DEF StoreInvariant

\* The inductive invariant.
THEOREM StoreInvariance == Spec => []StoreInvariant
BY InitStore, StoreStep, PTL DEF Spec

\* Calls and commands are what the driver builds, and memory holds contents.
THEOREM TypeCorrect == Spec => []TypeOK
BY StoreInvariance, PTL DEF StoreInvariant

\* A step that leaves the call, its result and the timeouts alone is not seen;
\* the device may change under a call in progress.
LEMMA UnseenStep ==
  ASSUME UNCHANGED <<call, result, output, before, a_timeouts, io_timeouts>>,
         result = "pending" \/ storage' = storage
  PROVE  UNCHANGED Store!storeVars
BY DEF Store!storeVars, TimedOut

\* A call begins.
LEMMA CallerBegins ==
  ASSUME CallInvariant, Caller
  PROVE  Store!Begin
<1>1. ASSUME BeginCall, Refuse PROVE Store!Begin
  BY <1>1 DEF BeginCall, Refuse, CallInvariant, Store!Begin, memoryVars,
              adminVars, ioVars, TimedOut
<1>2. ASSUME BeginCall, NEW c, Proceed(c) PROVE Store!Begin
  BY <1>2 DEF BeginCall, Proceed, CallInvariant, Store!Begin, adminVars, ioVars,
              TimedOut
<1> QED BY <1>1, <1>2 DEF Caller, Read, Write, Identify

\* Without a timeout, an answer that is not Ok fails the call, one that is Ok
\* ends a write, and a read or an Identify has its data still to copy.
LEMMA AnswerRefines ==
  ASSUME StoreInvariant, ~TimedOut, AnswerIo \/ AnswerAdmin
  PROVE  Store!Fail \/ Store!WriteOk \/ UNCHANGED Store!storeVars
<1>0. OnlyThisCall /\ SoFar /\ TypeOK /\ CallInvariant /\ pc = "wait"
  BY DEF StoreInvariant, AnswerIo, AnswerAdmin
<1>1. PICK queue, serial :
        /\ Finish(queue, serial, "ok")
        /\ failed \subseteq {<<queue, serial>>} /\ moves = {}
  BY <1>0, AnswerIsOwn
<1>2. UNCHANGED <<a_timeouts, io_timeouts>>
  BY DEF AnswerIo, AnswerAdmin, Io!Answer, Admin!Answer, adminVars, ioVars
<1>3. UNCHANGED <<storage, call, output>> /\ result = "pending"
  BY <1>0, <1>1 DEF Finish, memoryVars, CallInvariant
<1>4. /\ call.slba \in Nat /\ call.count \in 1 .. MAX_TRANSFER
      /\ storage \in [Blocks -> BlockContents]
      /\ before \in [Blocks -> BlockContents]
      /\ \A b \in Blocks :
           \/ storage[b] = before[b]
           \/ /\ call.op = "write"
              /\ b \in call.slba .. call.slba + call.count - 1
              /\ storage[b] = call.data[b - call.slba + 1]
  BY <1>0 DEF CallInvariant, TypeOK, SoFar
<1>5. CASE result' = "error"
  BY <1>2, <1>3, <1>4, <1>5
  DEF Store!Fail, Store!Blocks, Store!Span, Blocks, TimedOut
<1>6. CASE result' = "ok" /\ call.op = "write"
  <2>1. failed = {}
    BY <1>1, <1>6 DEF Finish, Checked, EndCall
  <2>2. \A k \in 0 .. call.count - 1 :
          /\ call.slba + k \in Blocks
          /\ storage[call.slba + k] = call.data[k + 1]
    BY <1>0, <1>1, <1>6, <2>1 DEF SoFar, Moved
  <2>3. ASSUME NEW b \in call.slba .. call.slba + call.count - 1
        PROVE  b \in Blocks /\ storage[b] = call.data[b - call.slba + 1]
    <3>1. b - call.slba \in 0 .. call.count - 1
          /\ call.slba + (b - call.slba) = b
      BY <1>4
    <3> QED BY <2>2, <3>1
  <2>4. storage = [b \in Blocks |->
                     IF b \in call.slba .. call.slba + call.count - 1
                       THEN call.data[b - call.slba + 1] ELSE before[b]]
    BY <1>4, <2>3
  <2> QED BY <1>2, <1>3, <1>6, <2>3, <2>4
          DEF Store!WriteOk, Store!Blocks, Store!Span, Blocks, TimedOut
<1>7. CASE pc' = "copy"
  <2>1. UNCHANGED <<result, before>>
    BY <1>1, <1>7 DEF Finish, EndCall
  <2> QED BY <1>2, <1>3, <2>1, UnseenStep
<1> QED BY <1>1, <1>5, <1>6, <1>7 DEF Finish, Checked, EndCall

\* Without a timeout, what CopyOut finds in the data area is what was asked for.
LEMMA CopyRefines ==
  ASSUME StoreInvariant, ~TimedOut, CopyOut
  PROVE  Store!ReadOk \/ Store!IdentifyOk
<1>0. OnlyThisCall /\ SoFar /\ TypeOK /\ CallInvariant
  BY DEF StoreInvariant
<1>1. /\ pc = "copy" /\ result = "pending" /\ result' = "ok"
      /\ output' = [k \in 1 .. call.count |-> buffer[k - 1]]
      /\ UNCHANGED <<storage, call, a_timeouts, io_timeouts>>
  BY <1>0 DEF CopyOut, EndCall, CallInvariant, memoryVars, adminVars, ioVars
<1>2. /\ call.op \in {"read", "identify"}
      /\ call.slba \in Nat /\ call.count \in 1 .. MAX_TRANSFER
      /\ call.op = "identify" => call.count = 1
      /\ storage \in [Blocks -> BlockContents]
      /\ before \in [Blocks -> BlockContents]
  BY <1>0, <1>1 DEF CallInvariant, TypeOK
<1>3. \A k \in 0 .. call.count - 1 : Moved(k)
  BY <1>0, <1>1 DEF SoFar, OnlyThisCall, Quiet
<1>4. storage = before
  BY <1>0, <1>1, <1>2 DEF SoFar
<1>5. CASE call.op = "read"
  <2>1. ASSUME NEW k \in 1 .. call.count
        PROVE  call.slba + k - 1 \in Blocks
               /\ buffer[k - 1] = before[call.slba + k - 1]
    <3>1. /\ k - 1 \in 0 .. call.count - 1
          /\ call.slba + (k - 1) = call.slba + k - 1
      BY <1>2
    <3> QED BY <1>3, <1>5, <3>1 DEF Moved
  <2>2. output' = [k \in 1 .. call.count |-> before[call.slba + k - 1]]
    BY <1>1, <2>1
  <2>3. call.slba .. call.slba + call.count - 1 \subseteq Blocks
    <3> SUFFICES ASSUME NEW b \in call.slba .. call.slba + call.count - 1
                 PROVE  b \in Blocks
      OBVIOUS
    <3>1. b - call.slba + 1 \in 1 .. call.count
          /\ call.slba + (b - call.slba + 1) - 1 = b
      BY <1>2
    <3> QED BY <2>1, <3>1
  <2> QED BY <1>1, <1>4, <1>5, <2>2, <2>3
          DEF Store!ReadOk, Store!Span, Store!Blocks, Blocks, TimedOut
<1>6. CASE call.op = "identify"
  <2>1. buffer[0] = IdentifyData
    BY <1>2, <1>3, <1>6 DEF Moved
  <2>2. output' = <<IdentifyData>>
    BY <1>1, <1>2, <1>6, <2>1
  <2> QED BY <1>1, <1>4, <1>6, <2>2 DEF Store!IdentifyOk, TimedOut
<1> QED BY <1>2, <1>5, <1>6

\* read, write and identify over the two queue pairs, the one data area and the
\* one PRP list implement an array of blocks until a command times out.
THEOREM ImplementsBlockStore == Spec => ImplementsStore
<1>1. Init => Store!Init
  BY DEF Init, Store!Init, Admin!Init, Io!Init, TimedOut
<1>2. StoreInvariant /\ [Next]_vars => [Store!Next]_Store!storeVars
  <2> SUFFICES ASSUME StoreInvariant, [Next]_vars
               PROVE  [Store!Next]_Store!storeVars
    OBVIOUS
  <2>0. CallInvariant
    BY DEF StoreInvariant
  <2>1. CASE TimedOut
    <3>1. TimedOut'
      BY <2>0, <2>1, TimedOutStays
    <3> QED BY <2>1, <3>1 DEF Store!Next, Store!Unspecified
  <2>2. CASE ~TimedOut
    <3>0. OnlyThisCall
      BY <2>2 DEF StoreInvariant
    <3>1. CASE Caller
      BY <2>0, <3>1, CallerBegins DEF Store!Next
    <3>2. CASE SubmitIo \/ SubmitAdmin
      BY <3>2, UnseenStep
      DEF SubmitIo, SubmitAdmin, SubmitTo, Io!Issue, Admin!Issue, memoryVars,
          adminVars, ioVars
    <3>3. CASE AnswerIo \/ AnswerAdmin
      BY <2>2, <3>3, AnswerRefines DEF Store!Next
    <3>4. CASE TimeOut
      <4>1. result = "pending"
        BY <2>0, <3>4 DEF TimeOut, CallInvariant
      <4>2. TimedOut' = TRUE
        BY <2>0, <3>4 DEF TimeOut, Io!GiveUp, Admin!GiveUp, adminVars, ioVars,
                          TimedOut, CallInvariant
      <4> QED BY <2>2, <4>1, <4>2 DEF Store!Next, Store!Break
    <3>5. CASE CopyOut
      BY <2>2, <3>5, CopyRefines DEF Store!Next
    <3>6. ASSUME NEW m \in moves, Move(m)
          PROVE  [Store!Next]_Store!storeVars
      <4>1. result = "pending"
        BY <2>0, <3>0, MovesAreOwn DEF CallInvariant
      <4> QED BY <3>6, <4>1, UnseenStep DEF Move, callVars, adminVars, ioVars
    <3>7. ASSUME NEW serial, CompleteIo(serial) \/ CompleteAdmin(serial)
          PROVE  [Store!Next]_Store!storeVars
      BY <3>7, UnseenStep
      DEF CompleteIo, CompleteAdmin, Io!Complete, Admin!Complete, Ends,
          memoryVars, callVars, adminVars, ioVars
    <3>8. CASE Lose
      BY <3>8, UnseenStep
      DEF Lose, Io!Lose, Admin!Lose, memoryVars, callVars, adminVars, ioVars
    <3>9. CASE UNCHANGED vars
      BY <3>9, UnseenStep DEF vars, memoryVars, callVars, adminVars, ioVars
    <3> QED BY <3>1, <3>2, <3>3, <3>4, <3>5, <3>6, <3>7, <3>8, <3>9
            DEF Next, Driver, Controller
  <2> QED BY <2>1, <2>2
<1> QED BY <1>1, <1>2, StoreInvariance, PTL
        DEF Spec, ImplementsStore, Store!Spec

------------------------------------------------------------------------------
(* A session of the REPL on this driver. *)

\* Confinement with what it rests on.  The call in progress and the commands
\* outstanding are within the file; poke goes back to the block of the last call.
SessionInvariant ==
  /\ storage = [b \in Blocks |-> storage[b]]
  /\ call.slba \in Nat
  /\ pc = "submit" => call.count \in Nat
  /\ CommandsStayInFile
  /\ ConfinedThroughout

\* The first command has not been typed.
LEMMA InitSession == SessionInit => SessionInvariant
BY DEF SessionInit, Init, SessionInvariant, NoCall, CommandsStayInFile,
       ConfinedThroughout

\* A range the check accepts starts at a block of the file and, shifted by any
\* number below its length, stays in it.
LEMMA CheckedRange ==
  ASSUME NEW lba \in Nat, NEW count \in Nat, Check(lba, count),
         NEW k \in 0 .. count - 1
  PROVE  lba + k \in File
BY DEF Check

\* Setting up a call: nothing outstanding changes.
LEMMA BeginStep ==
  ASSUME SessionInvariant, NEW c, Proceed(c), moves' = moves,
         c.slba \in Nat, c.count \in Nat,
         c.op \in {"read", "write"} => Check(c.slba, c.count)
  PROVE  SessionInvariant'
BY DEF SessionInvariant, Proceed, CommandsStayInFile, ConfinedThroughout, Check

\* A call that is refused.
LEMMA RefuseStep ==
  ASSUME SessionInvariant, BeginCall, Refuse
  PROVE  SessionInvariant'
BY DEF SessionInvariant, BeginCall, Refuse, NoCall, memoryVars, commandVars,
       CommandsStayInFile, ConfinedThroughout

\* read with a range that the check has accepted.
LEMMA ReadStep ==
  ASSUME SessionInvariant, NEW lba \in Nat, NEW count \in Nat,
         Check(lba, count), Read(lba, count)
  PROVE  SessionInvariant'
<1>1. CASE count = 0 \/ count > MAX_TRANSFER
  BY <1>1, RefuseStep DEF Read
<1>2. CASE ~(count = 0 \/ count > MAX_TRANSFER)
  <2>1. Proceed(ReadCall(lba, count)) /\ moves' = moves
    BY <1>2 DEF Read, BeginCall, commandVars
  <2> QED BY <2>1, BeginStep DEF ReadCall
<1> QED BY <1>1, <1>2

\* write with a range that the check has accepted.
LEMMA WriteStep ==
  ASSUME SessionInvariant, NEW lba \in Nat, NEW data \in Seq(Contents),
         Check(lba, Len(data)), Write(lba, data, FALSE)
  PROVE  SessionInvariant'
<1>1. CASE data = << >> \/ Len(data) > MAX_TRANSFER
  BY <1>1, RefuseStep DEF Write
<1>2. CASE ~(data = << >> \/ Len(data) > MAX_TRANSFER)
  <2>1. Proceed(WriteCall(lba, data)) /\ moves' = moves
    BY <1>2 DEF Write, BeginCall, commandVars
  <2>2. Len(data) \in Nat
    OBVIOUS
  <2> QED BY <2>1, <2>2, BeginStep DEF WriteCall
<1> QED BY <1>1, <1>2

\* Every step of the REPL, the driver and the controller keeps the session in
\* its file.
LEMMA SessionStep ==
  SessionInvariant /\ [SessionNext]_sessionVars => SessionInvariant'
<1> SUFFICES ASSUME SessionInvariant, [SessionNext]_sessionVars
             PROVE  SessionInvariant'
  OBVIOUS
<1>1. ASSUME NEW lba \in Slbas, NEW count \in Counts, ConfinedRead(lba, count)
      PROVE  SessionInvariant'
  BY <1>1, ReadStep, RequestsAssumption DEF ConfinedRead
<1>2. ASSUME NEW lba \in Slbas, NEW count \in Counts,
             NEW data \in [1 .. count -> Contents], ConfinedWrite(lba, data)
      PROVE  SessionInvariant'
  <2>1. lba \in Nat /\ count \in Nat
    BY RequestsAssumption
  <2>2. data \in Seq(Contents)
    BY <2>1
  <2> QED BY <1>2, <2>1, <2>2, WriteStep DEF ConfinedWrite
<1>3. CASE ReplIdentify
  <2>1. Proceed(IdentifyCall) /\ moves' = moves
    BY <1>3 DEF ReplIdentify, Identify, BeginCall, commandVars
  <2> QED BY <2>1, BeginStep DEF IdentifyCall
<1>4. ASSUME NEW lba \in Slbas, PokeRead(lba)
      PROVE  SessionInvariant'
  BY <1>4, ReadStep, RequestsAssumption DEF PokeRead
<1>5. ASSUME NEW block \in Contents, PokeWrite(block)
      PROVE  SessionInvariant'
  <2>1. <<block>> \in Seq(Contents) /\ Len(<<block>>) = 1
    OBVIOUS
  <2>2. call.slba \in Nat
    BY DEF SessionInvariant
  <2> QED BY <1>5, <2>1, <2>2, WriteStep DEF PokeWrite
<1>6. ASSUME storage' = storage, moves' \subseteq moves, call' = call,
             pc' # "submit" \/ pc' = pc
      PROVE  SessionInvariant'
  BY <1>6 DEF SessionInvariant, CommandsStayInFile, ConfinedThroughout
<1>7. CASE PokeFails
  BY <1>6, <1>7 DEF PokeFails, vars, memoryVars, callVars, commandVars
<1>8. ASSUME NEW queue, NEW serial, pc = "submit", SubmitTo(queue, serial)
      PROVE  SessionInvariant'
  <2>1. call' = call /\ storage' = storage /\ pc' = "wait"
    BY <1>8 DEF SubmitTo, memoryVars
  <2>2. /\ call.slba \in Nat /\ call.count \in Nat
        /\ call.op \in {"read", "write"} => Check(call.slba, call.count)
    BY <1>8 DEF SessionInvariant, CommandsStayInFile, Check
  <2> DEFINE new(k) == [queue |-> queue, serial |-> serial, k |-> k,
                        command |-> Command]
  <2>3. \A k : /\ new(k).k = k
               /\ new(k).command.op = call.op
               /\ new(k).command.slba = call.slba
    BY DEF Command
  <2>4. moves' = moves \cup {new(k) : k \in 0 .. call.count - 1}
    BY <1>8 DEF SubmitTo
  <2> HIDE DEF new
  <2>5. ASSUME NEW m \in moves', m.command.op \in {"read", "write"}
        PROVE  m.command.slba + m.k \in File
    <3>1. CASE m \in moves
      BY <2>5, <3>1 DEF SessionInvariant, CommandsStayInFile
    <3>2. CASE m \notin moves
      <4>1. PICK k \in 0 .. call.count - 1 : m = new(k)
        BY <2>4, <3>2
      <4>2. call.slba + k \in File
        BY <2>2, <2>3, <2>5, <4>1, CheckedRange
      <4> QED BY <2>3, <4>1, <4>2
    <3> QED BY <3>1, <3>2
  <2> QED BY <2>1, <2>5
          DEF SessionInvariant, CommandsStayInFile, ConfinedThroughout
<1>9. CASE SubmitIo \/ SubmitAdmin
  BY <1>8, <1>9 DEF SubmitIo, SubmitAdmin
<1>10. CASE AnswerIo \/ AnswerAdmin
  <2>1. ASSUME NEW queue, NEW serial, NEW outcome,
               Finish(queue, serial, outcome)
        PROVE  SessionInvariant'
    BY <1>6, <2>1 DEF Finish, EndCall, memoryVars
  <2> QED BY <1>10, <2>1 DEF AnswerIo, AnswerAdmin
<1>11. CASE TimeOut \/ CopyOut
  BY <1>6, <1>11 DEF TimeOut, CopyOut, EndCall, memoryVars, commandVars
<1>12. ASSUME NEW m \in moves, Move(m)
       PROVE  SessionInvariant'
  <2>1. call' = call /\ pc' = pc /\ moves' \subseteq moves
    BY <1>12 DEF Move, callVars
  <2>2. CASE storage' = storage
    BY <1>6, <2>1, <2>2
  <2>3. CASE storage' # storage
    <3> DEFINE block == m.command.slba + m.k
    <3>1. /\ m.command.op = "write" /\ block \in Blocks
          /\ storage' = [storage EXCEPT ![block] =
                           buffer[PlaceOf(m.command, m.k)]]
      BY <1>12, <2>3 DEF Move
    <3>2. block \in File
      BY <3>1 DEF SessionInvariant, CommandsStayInFile
    <3> HIDE DEF block
    <3>3. /\ storage' = [b \in Blocks |-> storage'[b]]
          /\ \A b \in Blocks \ File : storage'[b] = storage[b]
      BY <3>1, <3>2 DEF SessionInvariant
    <3> QED BY <2>1, <3>3
            DEF SessionInvariant, CommandsStayInFile, ConfinedThroughout
  <2> QED BY <2>2, <2>3
<1>13. ASSUME NEW queue, NEW serial, Ends(queue, serial)
       PROVE  SessionInvariant'
  BY <1>6, <1>13 DEF Ends, memoryVars, callVars
<1>14. ASSUME NEW serial, CompleteIo(serial) \/ CompleteAdmin(serial)
       PROVE  SessionInvariant'
  BY <1>13, <1>14 DEF CompleteIo, CompleteAdmin
<1>15. CASE Lose
  BY <1>6, <1>15 DEF Lose, memoryVars, callVars
<1>16. CASE UNCHANGED sessionVars
  BY <1>6, <1>16
  DEF sessionVars, vars, memoryVars, callVars, commandVars
<1> QED
  BY <1>1, <1>2, <1>3, <1>4, <1>5, <1>7, <1>9, <1>10, <1>11, <1>12, <1>14,
     <1>15, <1>16
  DEF SessionNext, Repl, Poke, Driver, Controller

\* Every command the controller ever holds names blocks of the file only, however
\* long after its call has given up.
THEOREM CommandsConfined == SessionSpec => []CommandsStayInFile
<1>1. SessionInvariant => CommandsStayInFile
  BY DEF SessionInvariant
<1> QED BY <1>1, InitSession, SessionStep, PTL DEF SessionSpec

\* No block outside the file is ever changed, whatever times out and whatever an
\* abandoned command later finds in the shared buffer.
THEOREM SessionConfined == SessionSpec => []ConfinedThroughout
<1>1. SessionInvariant => ConfinedThroughout
  BY DEF SessionInvariant
<1> QED BY <1>1, InitSession, SessionStep, PTL DEF SessionSpec
=============================================================================
