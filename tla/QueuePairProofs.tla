--------------------------- MODULE QueuePairProofs ---------------------------
(***************************************************************************)
(* Proofs about QueuePair: its inductive invariant, and from it that the   *)
(* phase tag is exact, that Ok answers the caller's own command, that the  *)
(* controller fetches in order until the submission ring can be overrun,   *)
(* that a cid mismatch presupposes a timeout, and that the whole is a      *)
(* CommandChannel.                                                         *)
(***************************************************************************)
EXTENDS QueuePair, FiniteSetTheorems, SequenceTheorems, TLAPS

\* A ring index moved on by one either increments or wraps to slot 0.
LEMMA NextIndex ==
  ASSUME NEW D \in Nat \ {0}, NEW i \in 0 .. D - 1
  PROVE  (i + 1) % D = IF i = D - 1 THEN 0 ELSE i + 1
OBVIOUS

\* Two numbers with the same remainder differ by at least the modulus.
LEMMA SameRemainder ==
  ASSUME NEW M \in Nat \ {0}, NEW a \in Nat, NEW b \in Nat,
         a % M = b % M, a < b
  PROVE  b - a >= M
OBVIOUS

\* % computes the remainder.
LEMMA RemainderIs ==
  ASSUME NEW M \in Nat \ {0}, NEW q \in Int, NEW r \in 0 .. M - 1
  PROVE  (M * q + r) % M = r
OBVIOUS

\* A counter kept modulo M follows the counter it abbreviates.
LEMMA NextRemainder ==
  ASSUME NEW M \in Nat \ {0}, NEW n \in Nat
  PROVE  ((n % M) + 1) % M = (n + 1) % M
<1> DEFINE r == n % M
           q == n \div M
<1>1. r \in 0 .. M - 1 /\ q \in Int /\ n = M * q + r
  OBVIOUS
<1> HIDE DEF r, q
<1>2. CASE r = M - 1
  <2>1. n + 1 = M * (q + 1) + 0 /\ q + 1 \in Int /\ 0 \in 0 .. M - 1
    BY <1>1, <1>2
  <2>2. (n + 1) % M = 0
    BY <2>1, RemainderIs
  <2> QED BY <2>2, <1>2, NextIndex, <1>1 DEF r
<1>3. CASE r < M - 1
  <2>1. n + 1 = M * q + (r + 1) /\ r + 1 \in 0 .. M - 1
    BY <1>1, <1>3
  <2>2. (n + 1) % M = r + 1
    BY <2>1, <1>1, RemainderIs
  <2>3. (r + 1) % M = r + 1
    BY <1>1, <1>3, NextIndex
  <2> QED BY <2>2, <2>3 DEF r
<1> QED BY <1>1, <1>2, <1>3

\* A sum of two numbers below M wraps at most once.
LEMMA WrapOnce ==
  ASSUME NEW M \in Nat \ {0}, NEW n \in 0 .. 2 * M - 1
  PROVE  n % M = IF n < M THEN n ELSE n - M
OBVIOUS

\* A slot index moved on by one increments or wraps, and stays a slot.
LEMMA NextSlotIs ==
  ASSUME NEW i \in Slots
  PROVE  /\ NextSlot(i) = IF i = QUEUE_DEPTH - 1 THEN 0 ELSE i + 1
         /\ NextSlot(i) \in Slots
BY NextIndex, QueueDepthAssumption DEF NextSlot, Slots

\* A phase tag flipped is the other one of the two.
LEMMA Flipped ==
  ASSUME NEW x \in BOOLEAN, NEW y \in BOOLEAN
  PROVE  /\ (~x) \in BOOLEAN
         /\ (~x) = y <=> x # y
         /\ y = (~x) <=> x # y
BY Zenon

\* QueuePair::new over a zeroed region and a controller just enabled establish
\* the inductive invariant.
LEMMA InitInvariant == Init => InductiveInvariant
<1> SUFFICES ASSUME Init PROVE InductiveInvariant
  OBVIOUS
<1> USE QueueDepthAssumption, CidSpaceAssumption DEF Init
<1>1. TypeOK
  BY DEF TypeOK, Slots, Cids, SubmissionQueueEntry, CompletionQueueEntry,
         ZeroedSqe, ZeroedCqe
<1>2. CompletionRing
  <2>1. \A i \in Slots : cq[i].phase # cq_phase
    BY Zenon DEF ZeroedCqe
  <2>2. completion_phase = cq_phase
    BY Zenon
  <2> HIDE DEF Init
  <2>3. /\ completion_head = 0 /\ cq_tail = 0 /\ cq_doorbell = 0
        /\ posted = 0 /\ consumed = 0 /\ pc = "idle"
    BY DEF Init
  <2> QED BY <2>1, <2>2, <2>3 DEF CompletionRing, Slots
<1>3. OneCompletionPerCall
  BY DEF OneCompletionPerCall
<1>4. CidsFollowSerials
  BY DEF CidsFollowSerials, Stamped, Slots, ZeroedSqe, ZeroedCqe, Between
<1>5. SubmissionRing
  BY FS_EmptySet DEF SubmissionRing, Between, Announced
<1>6. OneOutstanding
  BY DEF OneOutstanding, ZeroedCqe
<1> QED BY <1>1, <1>2, <1>3, <1>4, <1>5, <1>6
        DEF InductiveInvariant, AcceptedIsOwn, MismatchOnlyAfterTimeout

\* No step of submit_and_wait or of the controller leaves the types.
LEMMA TypeStep == TypeOK /\ [Next]_vars => TypeOK'
<1> SUFFICES ASSUME TypeOK, [Next]_vars PROVE TypeOK'
  OBVIOUS
<1> USE QueueDepthAssumption, CidSpaceAssumption
    DEF TypeOK, Cids, SubmissionQueueEntry, CompletionQueueEntry
<1>1. CASE WriteSubmissionEntry
  BY <1>1 DEF WriteSubmissionEntry, controllerVars
<1>2. CASE RingSubmissionDoorbell
  BY <1>2, NextSlotIs DEF RingSubmissionDoorbell, controllerVars, historyVars
<1>3. CASE PollAgain
  BY <1>3 DEF PollAgain, controllerVars, historyVars
<1>4. CASE TimeOut
  BY <1>4 DEF TimeOut, controllerVars
<1>5. CASE TakeCompletion
  <2>1. completion_phase' \in BOOLEAN
    BY <1>5, Zenon DEF TakeCompletion, FlipAtWrap
  <2> QED BY <1>5, <2>1, NextSlotIs DEF TakeCompletion, controllerVars
<1>6. CASE Return
  BY <1>6 DEF Return, CidComparison, controllerVars, historyVars
<1>7. CASE Fetch
  BY <1>7, NextSlotIs DEF Fetch, driverVars
<1>8. ASSUME NEW command \in inflight, Post(command) PROVE TypeOK'
  <2>1. cq_phase' \in BOOLEAN
    BY <1>8, Zenon DEF Post, FlipAtWrap
  <2>2. cq' \in [Slots -> CompletionQueueEntry]
    BY <1>8 DEF Post
  <2>3. cq_tail' \in Slots /\ inflight' \in SUBSET SubmissionQueueEntry
    BY <1>8, NextSlotIs DEF Post
  <2> QED BY <1>8, <2>1, <2>2, <2>3 DEF Post, driverVars
<1>9. CASE UNCHANGED vars
  BY <1>9 DEF vars, driverVars, controllerVars, historyVars
<1> QED BY <1>1, <1>2, <1>3, <1>4, <1>5, <1>6, <1>7, <1>8, <1>9
        DEF Next, Driver, Controller

\* Every step keeps the two ends of the completion ring in step: the phase tags,
\* the numbering of the entries and the trailing doorbell.
LEMMA CompletionRingStep ==
  TypeOK /\ CompletionRing /\ [Next]_vars => CompletionRing'
<1> SUFFICES ASSUME TypeOK, CompletionRing, [Next]_vars PROVE CompletionRing'
  OBVIOUS
<1> USE QueueDepthAssumption
<1>1. CASE /\ UNCHANGED <<cq, cq_tail, cq_phase, posted, consumed,
                          completion_phase, completion_head, cq_doorbell,
                          completion>>
           /\ pc' = pc \/ (pc' # "return" /\ pc # "return")
  BY <1>1 DEF CompletionRing
<1>2. CASE TakeCompletion
  <2>1. completion_head \in Slots /\ cq_tail \in Slots /\ cq_doorbell \in Slots
        /\ posted \in Nat /\ consumed \in Nat
    BY DEF TypeOK
  <2>2. pc = "poll" /\ pc' = "return" /\ consumed' = consumed + 1
        /\ completion_head' = NextSlot(completion_head)
        /\ completion' = cq[completion_head]
        /\ UNCHANGED <<cq, cq_tail, cq_phase, posted, cq_doorbell>>
    BY <1>2 DEF TakeCompletion, controllerVars
  <2>3. IF NextSlot(completion_head) = 0
          THEN completion_phase' = cq_phase <=> completion_phase # cq_phase
          ELSE completion_phase' = completion_phase
    BY <1>2, Flipped, Zenon DEF TakeCompletion, FlipAtWrap, TypeOK
  <2>4. IF completion_phase = cq_phase THEN completion_head < cq_tail
                                       ELSE completion_head > cq_tail
    BY <1>2, <2>1 DEF TakeCompletion, Matches, CompletionRing
  <2>5. cq[completion_head].seq = consumed + 1
    BY <2>1, <2>4 DEF CompletionRing, Slots
  <2>6. completion_phase' # cq_phase' => completion_phase # cq_phase
    BY <2>1, <2>2, <2>3, <2>4, NextSlotIs DEF Slots
  <2>7. IF completion_phase' = cq_phase'
          THEN /\ completion_head' <= cq_tail'
               /\ posted' - consumed' = cq_tail' - completion_head'
          ELSE /\ completion_head' > cq_tail'
               /\ posted' - consumed' = QUEUE_DEPTH + cq_tail' - completion_head'
    BY <2>1, <2>2, <2>3, <2>4, NextSlotIs DEF CompletionRing, Slots
  <2> QED BY <2>1, <2>2, <2>5, <2>6, <2>7 DEF CompletionRing
<1>3. CASE Return
  BY <1>3 DEF CompletionRing, Return, controllerVars, historyVars, TypeOK
<1>4. ASSUME NEW command \in inflight, Post(command) PROVE CompletionRing'
  <2>1. completion_head \in Slots /\ cq_tail \in Slots /\ cq_doorbell \in Slots
        /\ posted \in Nat /\ consumed \in Nat
    BY DEF TypeOK
  <2>2. /\ posted' = posted + 1 /\ cq_tail' = NextSlot(cq_tail)
        /\ NextSlot(cq_tail) # cq_doorbell
        /\ cq' = [cq EXCEPT ![cq_tail] =
                    [serial |-> command.serial, cid |-> command.cid,
                     phase |-> cq_phase, seq |-> posted + 1]]
        /\ UNCHANGED <<completion_head, completion_phase, consumed,
                       completion, pc, cq_doorbell>>
    BY <1>4 DEF Post, driverVars
  <2>3. IF NextSlot(cq_tail) = 0
          THEN /\ cq_phase' # cq_phase
               /\ completion_phase = cq_phase' <=> completion_phase # cq_phase
               /\ \A i \in Slots : cq[i].phase = cq_phase' <=> cq[i].phase # cq_phase
          ELSE cq_phase' = cq_phase
    BY <1>4, Flipped, Zenon
       DEF Post, FlipAtWrap, TypeOK, CompletionQueueEntry
  <2>4. \A i \in Slots :
          /\ i # cq_tail => cq'[i] = cq[i]
          /\ i = cq_tail => cq'[i].phase = cq_phase /\ cq'[i].seq = posted + 1
    BY <2>1, <2>2 DEF TypeOK
  <2>5. \A i \in Slots : cq'[i].phase = cq_phase' <=> i < cq_tail'
    BY <2>1, <2>2, <2>3, <2>4, NextSlotIs DEF CompletionRing, Slots
  <2>6. \A i \in Slots :
          i < cq_tail' => cq'[i].seq = posted' - (cq_tail' - 1 - i)
    <3> SUFFICES ASSUME NEW i \in Slots, i < cq_tail'
                 PROVE  cq'[i].seq = posted' - (cq_tail' - 1 - i)
      OBVIOUS
    <3>1. cq_tail' = cq_tail + 1
      BY <2>1, <2>2, NextSlotIs DEF Slots
    <3>2. CASE i = cq_tail
      BY <2>1, <2>2, <2>4, <3>1, <3>2 DEF Slots
    <3>3. CASE i < cq_tail
      BY <2>1, <2>2, <2>4, <3>1, <3>3 DEF CompletionRing, Slots
    <3> QED BY <3>1, <3>2, <3>3, <2>1 DEF Slots
  <2>a. /\ IF completion_phase = cq_phase
             THEN /\ completion_head <= cq_tail
                  /\ posted - consumed = cq_tail - completion_head
             ELSE /\ completion_head > cq_tail
                  /\ posted - consumed = QUEUE_DEPTH + cq_tail - completion_head
        /\ completion_head = IF pc = "return" THEN NextSlot(cq_doorbell)
                                              ELSE cq_doorbell
        /\ posted - consumed + (IF pc = "return" THEN 1 ELSE 0) < QUEUE_DEPTH
    BY DEF CompletionRing
  <2>7. posted - consumed + (IF pc = "return" THEN 1 ELSE 0) < QUEUE_DEPTH - 1
    BY <2>1, <2>2, <2>a, NextSlotIs DEF Slots
  <2>8. IF completion_phase = cq_phase'
          THEN /\ completion_head <= cq_tail'
               /\ posted' - consumed = cq_tail' - completion_head
          ELSE /\ completion_head > cq_tail'
               /\ posted' - consumed = QUEUE_DEPTH + cq_tail' - completion_head
    <3>1. CASE NextSlot(cq_tail) = 0
      BY <2>1, <2>2, <2>3, <2>7, <2>a, <3>1, NextSlotIs DEF Slots
    <3>2. CASE NextSlot(cq_tail) # 0
      BY <2>1, <2>2, <2>3, <2>7, <2>a, <3>2, NextSlotIs DEF Slots
    <3> QED BY <3>1, <3>2
  <2>9. completion_phase # cq_phase' =>
          \A i \in Slots :
            i >= cq_tail' =>
              cq'[i].seq = posted' - cq_tail' - (QUEUE_DEPTH - 1 - i)
    <3> SUFFICES ASSUME completion_phase # cq_phase',
                        NEW i \in Slots, i >= cq_tail'
                 PROVE  cq'[i].seq = posted' - cq_tail' - (QUEUE_DEPTH - 1 - i)
      OBVIOUS
    <3>1. CASE NextSlot(cq_tail) = 0
      <4>1. cq_tail = QUEUE_DEPTH - 1 /\ cq_tail' = 0
        BY <3>1, <2>1, <2>2, NextSlotIs DEF Slots
      <4>2. CASE i = cq_tail
        BY <2>1, <2>2, <2>4, <4>1, <4>2
      <4>3. CASE i < cq_tail
        BY <2>1, <2>2, <2>4, <4>1, <4>3 DEF CompletionRing, Slots
      <4> QED BY <4>1, <4>2, <4>3 DEF Slots
    <3>2. CASE NextSlot(cq_tail) # 0
      <4>1. cq_tail' = cq_tail + 1 /\ cq_phase' = cq_phase
        BY <3>2, <2>1, <2>2, <2>3, NextSlotIs DEF Slots
      <4>2. i # cq_tail /\ i >= cq_tail
        BY <4>1, <2>1 DEF Slots
      <4> QED BY <2>1, <2>2, <2>4, <4>1, <4>2 DEF CompletionRing, Slots
    <3> QED BY <3>1, <3>2
  <2> QED BY <2>1, <2>2, <2>5, <2>6, <2>7, <2>8, <2>9 DEF CompletionRing
<1> QED
  BY <1>1, <1>2, <1>3, <1>4
  DEF Next, Driver, Controller, WriteSubmissionEntry, RingSubmissionDoorbell,
      PollAgain, TimeOut, Fetch, vars, driverVars, controllerVars, historyVars

\* Every call of submit_and_wait accounts for one completion or one timeout.
LEMMA OneCompletionPerCallStep ==
  TypeOK /\ OneCompletionPerCall /\ [Next]_vars => OneCompletionPerCall'
BY DEF TypeOK, OneCompletionPerCall, Next, Driver, Controller,
       WriteSubmissionEntry, RingSubmissionDoorbell, PollAgain, TimeOut,
       TakeCompletion, Return, Fetch, Post, vars, driverVars, controllerVars,
       historyVars

\* What Between covers, slot by slot.
LEMMA BetweenIs ==
  ASSUME NEW from \in Slots, NEW to \in Slots, NEW i
  PROVE  i \in Between(from, to) <=>
           /\ i \in Slots
           /\ IF from <= to THEN from <= i /\ i < to ELSE from <= i \/ i < to
BY QueueDepthAssumption DEF Between, Slots

\* Moving the end of a range of slots on adds the slot it was at, or empties the
\* range if it meets the start.
LEMMA BetweenGrows ==
  ASSUME NEW from \in Slots, NEW to \in Slots
  PROVE  /\ NextSlot(to) = from => Between(from, NextSlot(to)) = {}
         /\ NextSlot(to) # from =>
              Between(from, NextSlot(to)) = Between(from, to) \cup {to}
<1> DEFINE next == NextSlot(to)
<1>1. next \in Slots /\ next = IF to = QUEUE_DEPTH - 1 THEN 0 ELSE to + 1
  BY NextSlotIs
<1> HIDE DEF next
<1>2. ASSUME next = from
      PROVE  Between(from, next) = {}
  <2>1. \A i : i \notin Between(from, next)
    BY <1>1, <1>2, BetweenIs DEF Slots
  <2> QED BY <2>1
<1>3. ASSUME next # from
      PROVE  Between(from, next) = Between(from, to) \cup {to}
  <2>1. ASSUME NEW i
        PROVE  i \in Between(from, next) <=> i \in Between(from, to) \/ i = to
    <3>1. i \in Between(from, next) <=>
            /\ i \in Slots
            /\ IF from <= next THEN from <= i /\ i < next
                               ELSE from <= i \/ i < next
      BY <1>1, BetweenIs
    <3>2. i \in Between(from, to) <=>
            /\ i \in Slots
            /\ IF from <= to THEN from <= i /\ i < to ELSE from <= i \/ i < to
      BY BetweenIs
    <3> QED BY <1>1, <1>3, <3>1, <3>2, QueueDepthAssumption DEF Slots
  <2> QED BY <2>1
<1> QED BY <1>2, <1>3 DEF next

\* Every step keeps the cid a function of the serial: in next_cid, in the rings,
\* in flight and in the completion a call has taken.
LEMMA CidsStep ==
  TypeOK /\ CidsFollowSerials /\ [Next]_vars => CidsFollowSerials'
<1> SUFFICES ASSUME TypeOK, CidsFollowSerials, [Next]_vars
             PROVE  CidsFollowSerials'
  OBVIOUS
<1> USE QueueDepthAssumption, CidSpaceAssumption
<1>1. CASE WriteSubmissionEntry
  <2>1. issued \in Nat /\ submission_tail \in Slots /\ sq_head \in Slots
        /\ sq \in [Slots -> SubmissionQueueEntry]
    BY DEF TypeOK
  <2>2. next_cid' = issued' % CID_SPACE
    BY <1>1, <2>1, NextRemainder DEF WriteSubmissionEntry, CidsFollowSerials
  <2>3. issued' = issued + 1 /\ cid' = issued % CID_SPACE
    BY <1>1 DEF WriteSubmissionEntry, CidsFollowSerials
  <2>4. /\ sq' = [sq EXCEPT ![submission_tail] =
                    [serial |-> issued + 1, cid |-> issued % CID_SPACE]]
        /\ pc' = "ring"
        /\ UNCHANGED <<submission_tail, sq_doorbell, sq_head, cq, inflight,
                       completion>>
    BY <1>1 DEF WriteSubmissionEntry, CidsFollowSerials, controllerVars
  <2>5. \A i \in Slots : Stamped(sq[i])' /\ Stamped(cq[i])'
    BY <2>1, <2>3, <2>4
    DEF CidsFollowSerials, Stamped, TypeOK, SubmissionQueueEntry,
        CompletionQueueEntry
  <2>6. \A command \in inflight' : Stamped(command)' /\ command.serial > 0
    BY <2>1, <2>3, <2>4
    DEF CidsFollowSerials, Stamped, TypeOK, SubmissionQueueEntry
  <2>7. Stamped(completion)'
    BY <2>1, <2>3, <2>4
    DEF CidsFollowSerials, Stamped, TypeOK, CompletionQueueEntry
  <2>8. \A i \in Between(sq_head, sq_doorbell)' : sq'[i].serial > 0
    BY <2>1, <2>4, BetweenIs DEF CidsFollowSerials
  <2> QED BY <2>1, <2>2, <2>3, <2>4, <2>5, <2>6, <2>7, <2>8
          DEF CidsFollowSerials
<1>2. CASE RingSubmissionDoorbell
  <2>1. submission_tail \in Slots /\ sq_head \in Slots
        /\ sq_doorbell = submission_tail
        /\ submission_tail' = NextSlot(submission_tail)
        /\ sq_doorbell' = NextSlot(submission_tail)
        /\ pc = "ring" /\ pc' = "poll"
        /\ UNCHANGED <<sq, cq, sq_head, inflight, completion, issued, cid,
                       next_cid>>
    BY <1>2 DEF RingSubmissionDoorbell, TypeOK, controllerVars, historyVars,
                CidsFollowSerials
  <2>2. \A i \in Between(sq_head, sq_doorbell)' :
          i \in Between(sq_head, sq_doorbell) \/ i = submission_tail
    BY <2>1, NextSlotIs, BetweenIs DEF Slots
  <2>3. \A i \in Between(sq_head, sq_doorbell)' : sq'[i].serial > 0
    BY <2>1, <2>2 DEF CidsFollowSerials
  <2> QED BY <2>1, <2>3 DEF CidsFollowSerials, Stamped
<1>3. CASE PollAgain \/ TimeOut \/ Return
  BY <1>3 DEF PollAgain, TimeOut, Return, CidsFollowSerials, Stamped, Between,
              controllerVars, historyVars
<1>4. CASE TakeCompletion
  BY <1>4 DEF TakeCompletion, CidsFollowSerials, Stamped, Between, TypeOK,
              controllerVars
<1>5. CASE Fetch
  <2>1. sq_head \in Slots /\ sq_doorbell \in Slots
        /\ sq_head # sq_doorbell /\ sq_head' = NextSlot(sq_head)
        /\ inflight' = inflight \cup {sq[sq_head]}
        /\ UNCHANGED <<submission_tail, sq_doorbell, sq, cq, completion, issued,
                       cid, next_cid, pc>>
    BY <1>5 DEF Fetch, TypeOK, driverVars
  <2>2. sq_head \in Between(sq_head, sq_doorbell)
    BY <2>1, BetweenIs DEF Slots
  <2>3. \A i \in Between(sq_head, sq_doorbell)' :
          i \in Between(sq_head, sq_doorbell)
    BY <2>1, NextSlotIs, BetweenIs DEF Slots
  <2> QED BY <2>1, <2>2, <2>3 DEF CidsFollowSerials, Stamped
<1>6. ASSUME NEW command \in inflight, Post(command) PROVE CidsFollowSerials'
  <2>1. UNCHANGED <<submission_tail, sq_doorbell, sq, sq_head, completion,
                    issued, cid, next_cid, pc>>
        /\ inflight' = inflight \ {command}
    BY <1>6 DEF Post, driverVars
  <2>2. \A i \in Slots :
          /\ i # cq_tail => cq'[i] = cq[i]
          /\ i = cq_tail => cq'[i].serial = command.serial
                              /\ cq'[i].cid = command.cid
    BY <1>6 DEF Post, TypeOK
  <2>3. \A i \in Slots : Stamped(cq[i])' /\ (cq'[i].seq > 0 => cq'[i].serial > 0)
    BY <2>1, <2>2 DEF CidsFollowSerials, Stamped
  <2> QED BY <2>1, <2>3 DEF CidsFollowSerials, Stamped, Between
<1>7. CASE UNCHANGED vars
  BY <1>7 DEF CidsFollowSerials, Stamped, Between, vars, driverVars,
              controllerVars, historyVars
<1> QED BY <1>1, <1>2, <1>3, <1>4, <1>5, <1>6, <1>7
        DEF Next, Driver, Controller

\* Every step keeps Ok answers own: when the cid comparison succeeds, the two
\* serials are equal or a multiple of CID_SPACE apart.
LEMMA AcceptedStep ==
  TypeOK /\ CompletionRing /\ CidsFollowSerials /\ AcceptedIsOwn /\ [Next]_vars
    => AcceptedIsOwn'
<1> SUFFICES ASSUME TypeOK, CompletionRing, CidsFollowSerials, AcceptedIsOwn,
                    [Next]_vars
             PROVE  AcceptedIsOwn'
  OBVIOUS
<1>1. CASE Return
  <2> SUFFICES ASSUME completion.cid = cid
               PROVE  \/ completion.serial = issued
                      \/ issued - completion.serial >= CID_SPACE
    BY <1>1 DEF Return, CidComparison, AcceptedIsOwn, historyVars
  <2>1. completion.serial > 0 /\ completion.serial <= issued
    BY <1>1 DEF Return, CompletionRing, CidsFollowSerials, Stamped
  <2>2. issued \in Nat /\ completion.serial \in Nat
    BY DEF TypeOK, CompletionQueueEntry
  <2>3. (completion.serial - 1) % CID_SPACE = (issued - 1) % CID_SPACE
    BY <2>1, <2>2 DEF CidsFollowSerials, Stamped
  <2>4. CASE completion.serial < issued
    <3> DEFINE a == completion.serial - 1
               b == issued - 1
    <3>1. a \in Nat /\ b \in Nat /\ a < b /\ a % CID_SPACE = b % CID_SPACE
      BY <2>1, <2>2, <2>3, <2>4
    <3>2. b - a = issued - completion.serial
      BY <2>2
    <3> HIDE DEF a, b
    <3>3. b - a >= CID_SPACE
      BY <3>1, SameRemainder, CidSpaceAssumption
    <3> QED BY <3>2, <3>3
  <2> QED BY <2>1, <2>2, <2>4
<1>2. CASE ~Return
  BY <1>2
  DEF AcceptedIsOwn, Next, Driver, Controller, WriteSubmissionEntry,
      RingSubmissionDoorbell, PollAgain, TimeOut, TakeCompletion, Fetch, Post,
      vars, driverVars, controllerVars, historyVars
<1> QED BY <1>1, <1>2

\* Fewer than QUEUE_DEPTH commands are announced and not fetched, as long as
\* the submission ring cannot have been overrun.
LEMMA RoomInSubmissionRing ==
  ASSUME TypeOK, CompletionRing, OneCompletionPerCall, SubmissionRing,
         timeouts < QUEUE_DEPTH - 1
  PROVE  /\ consumed <= posted
         /\ posted <= fetched
         /\ issued - fetched <= timeouts + (IF pc \in {"ring", "poll"}
                                              THEN 1 ELSE 0)
<1> USE QueueDepthAssumption
<1>1. consumed <= posted
  BY DEF TypeOK, CompletionRing, Slots
<1>2. posted <= fetched
  BY FS_CardinalityType DEF TypeOK, SubmissionRing
<1> QED BY <1>1, <1>2 DEF OneCompletionPerCall, TypeOK

\* Every step keeps the announced slots an in-order window of commands, as long
\* as the ring cannot have been overrun.
LEMMA SubmissionRingStep ==
  InductiveInvariant /\ [Next]_vars => SubmissionRing'
<1> SUFFICES ASSUME InductiveInvariant, [Next]_vars, timeouts' < QUEUE_DEPTH - 1
             PROVE  SubmissionRing'
  BY DEF SubmissionRing
<1> USE QueueDepthAssumption
<1>0. TypeOK /\ CompletionRing /\ OneCompletionPerCall /\ CidsFollowSerials
      /\ SubmissionRing
  BY DEF InductiveInvariant
<1>a. timeouts < QUEUE_DEPTH - 1
  BY <1>0 DEF TypeOK, Next, Driver, Controller, WriteSubmissionEntry,
      RingSubmissionDoorbell, PollAgain, TimeOut, TakeCompletion, Return, Fetch,
      Post, vars, driverVars, controllerVars, historyVars
<1>1. CASE WriteSubmissionEntry
  <2>1. issued \in Nat /\ submission_tail \in Slots /\ sq_head \in Slots
        /\ sq \in [Slots -> SubmissionQueueEntry] /\ fetched \in Nat
        /\ sq_doorbell = submission_tail
    BY <1>0 DEF TypeOK, CidsFollowSerials
  <2>2. /\ sq' = [sq EXCEPT ![submission_tail] =
                    [serial |-> issued + 1, cid |-> next_cid]]
        /\ Announced' = Announced
        /\ UNCHANGED <<sq_doorbell, sq_head, inflight, fetched, posted>>
    BY <1>1, <2>1 DEF WriteSubmissionEntry, controllerVars, Announced
  <2>3. Between(sq_head, sq_doorbell)' = Between(sq_head, sq_doorbell)
    BY <2>2 DEF Between
  <2>4. \A i \in Between(sq_head, sq_doorbell) : sq'[i] = sq[i]
    BY <2>1, <2>2, BetweenIs DEF Slots
  <2> QED BY <1>0, <1>a, <2>2, <2>3, <2>4 DEF SubmissionRing
<1>2. CASE RingSubmissionDoorbell
  <2>1. issued \in Nat /\ submission_tail \in Slots /\ sq_head \in Slots
        /\ fetched \in Nat /\ sq_doorbell = submission_tail
        /\ timeouts \in Nat /\ pc = "ring"
        /\ sq[submission_tail].serial = issued
    BY <1>0, <1>2 DEF TypeOK, CidsFollowSerials, RingSubmissionDoorbell
  <2>2. /\ sq_doorbell' = NextSlot(sq_doorbell)
        /\ Announced = issued - 1 /\ Announced' = issued
        /\ UNCHANGED <<sq, sq_head, inflight, fetched, posted>>
    BY <1>2, <2>1
    DEF RingSubmissionDoorbell, controllerVars, historyVars, Announced
  <2>3. issued - fetched <= QUEUE_DEPTH - 1
    BY <1>0, <1>a, <2>1, RoomInSubmissionRing
  <2>4. NextSlot(sq_doorbell) # sq_head
    BY <1>0, <1>a, <2>1, <2>2, <2>3, NextSlotIs DEF SubmissionRing, Slots
  <2>5. issued - fetched = IF sq_head <= sq_doorbell'
                             THEN sq_doorbell' - sq_head
                             ELSE QUEUE_DEPTH + sq_doorbell' - sq_head
    BY <1>0, <1>a, <2>1, <2>2, <2>4, NextSlotIs DEF SubmissionRing, Slots
  <2>6. \A i \in Between(sq_head, sq_doorbell)' :
          i \in Between(sq_head, sq_doorbell) \/ i = submission_tail
    <3>1. Between(sq_head, sq_doorbell)'
            = Between(sq_head, NextSlot(sq_doorbell))
      BY <2>2 DEF Between
    <3> QED BY <2>1, <3>1, BetweenGrows
  <2>7. issued = fetched + 1 + (IF sq_doorbell >= sq_head
                                  THEN sq_doorbell - sq_head
                                  ELSE QUEUE_DEPTH + sq_doorbell - sq_head)
    BY <1>0, <1>a, <2>1, <2>2 DEF SubmissionRing, Slots
  <2>8. \A i \in Between(sq_head, sq_doorbell)' :
         sq'[i].serial = fetched' + 1 + (IF i >= sq_head'
                                         THEN i - sq_head'
                                         ELSE QUEUE_DEPTH + i - sq_head')
    BY <1>0, <1>a, <2>1, <2>2, <2>6, <2>7 DEF SubmissionRing
  <2> QED BY <1>0, <1>a, <2>2, <2>5, <2>8 DEF SubmissionRing
<1>3. CASE /\ UNCHANGED <<sq, sq_head, sq_doorbell, inflight, fetched, posted,
                          issued>>
           /\ pc' = pc \/ (pc # "ring" /\ pc' # "ring")
  <2>1. Announced' = Announced
        /\ Between(sq_head, sq_doorbell)' = Between(sq_head, sq_doorbell)
    BY <1>3 DEF Announced, Between
  <2> QED BY <1>0, <1>a, <1>3, <2>1 DEF SubmissionRing
<1>4. CASE Fetch
  <2>1. sq_head \in Slots /\ sq_doorbell \in Slots /\ fetched \in Nat
        /\ posted \in Nat /\ issued \in Nat
        /\ sq_head # sq_doorbell /\ sq_head' = NextSlot(sq_head)
        /\ inflight' = inflight \cup {sq[sq_head]}
        /\ fetched' = sq[sq_head].serial
        /\ Announced' = Announced /\ Announced \in Int
        /\ UNCHANGED <<sq_doorbell, sq, posted>>
    BY <1>0, <1>4 DEF Fetch, TypeOK, driverVars, Announced
  <2>2. sq_head \in Between(sq_head, sq_doorbell)
    BY <2>1, BetweenIs DEF Slots
  <2>3. fetched' = fetched + 1
    BY <1>0, <1>a, <2>1, <2>2 DEF SubmissionRing, Slots
  <2>b. /\ \A command \in inflight : command.serial <= fetched
                                        /\ command.serial \in Nat
        /\ IsFiniteSet(inflight)
        /\ Cardinality(inflight) = fetched - posted
    BY <1>0, <1>a DEF SubmissionRing, TypeOK, SubmissionQueueEntry
  <2>4. sq[sq_head] \notin inflight
    <3>1. sq[sq_head].serial = fetched + 1 /\ fetched \in Nat
      BY <2>1, <2>3
    <3>2. ASSUME sq[sq_head] \in inflight PROVE FALSE
      <4>1. sq[sq_head].serial <= fetched
        BY <2>b, <3>2
      <4> QED BY <3>1, <4>1
    <3> QED BY <3>2
  <2>5. IsFiniteSet(inflight') /\ Cardinality(inflight') = fetched' - posted'
    BY <2>1, <2>3, <2>4, <2>b, FS_AddElement
  <2>6. Announced' - fetched' = IF sq_head' <= sq_doorbell'
                                  THEN sq_doorbell' - sq_head'
                                  ELSE QUEUE_DEPTH + sq_doorbell' - sq_head'
    BY <1>0, <1>a, <2>1, <2>3, NextSlotIs DEF SubmissionRing, Slots
  <2>7. \A i \in Between(sq_head, sq_doorbell)' :
          i \in Between(sq_head, sq_doorbell) /\ i # sq_head /\ i \in Slots
    BY <2>1, NextSlotIs, BetweenIs DEF Slots
  <2>8. \A i \in Between(sq_head, sq_doorbell)' :
         sq'[i].serial = fetched' + 1 + (IF i >= sq_head'
                                         THEN i - sq_head'
                                         ELSE QUEUE_DEPTH + i - sq_head')
    <3> SUFFICES ASSUME NEW i \in Between(sq_head, sq_doorbell)'
                 PROVE  sq[i].serial =
                          fetched + 2 + (IF i >= NextSlot(sq_head)
                                           THEN i - NextSlot(sq_head)
                                           ELSE QUEUE_DEPTH + i - NextSlot(sq_head))
      BY <2>1, <2>3
    <3>1. i \in Between(sq_head, sq_doorbell) /\ i # sq_head /\ i \in Slots
      BY <2>7
    <3>2. sq[i].serial = fetched + 1 + (IF i >= sq_head
                                         THEN i - sq_head
                                         ELSE QUEUE_DEPTH + i - sq_head)
      BY <1>0, <1>a, <3>1 DEF SubmissionRing
    <3> QED BY <2>1, <3>1, <3>2, NextSlotIs DEF Slots
  <2>9. \A command \in inflight' : command.serial <= fetched'
    <3> SUFFICES ASSUME NEW command \in inflight'
                 PROVE  command.serial <= fetched'
      OBVIOUS
    <3>1. CASE command \in inflight
      <4>1. command.serial <= fetched /\ command.serial \in Nat
        BY <2>b, <3>1
      <4> QED BY <2>1, <2>3, <4>1
    <3>2. CASE command = sq[sq_head]
      <4>1. command.serial = fetched'
        BY <2>1, <3>2
      <4> QED BY <2>1, <2>3, <4>1
    <3> QED BY <2>1, <3>1, <3>2
  <2> QED BY <2>5, <2>6, <2>8, <2>9 DEF SubmissionRing
<1>5. ASSUME NEW command \in inflight, Post(command) PROVE SubmissionRing'
  <2>1. UNCHANGED <<sq, sq_head, sq_doorbell, fetched, issued, pc>>
        /\ inflight' = inflight \ {command} /\ posted' = posted + 1
    BY <1>5 DEF Post, driverVars
  <2>2. Announced' = Announced
        /\ Between(sq_head, sq_doorbell)' = Between(sq_head, sq_doorbell)
    BY <2>1 DEF Announced, Between
  <2>3. IsFiniteSet(inflight') /\ Cardinality(inflight') = fetched' - posted'
    BY <1>0, <1>a, <1>5, <2>1, FS_RemoveElement, FS_CardinalityType
    DEF SubmissionRing, TypeOK
  <2> QED BY <1>0, <1>a, <2>1, <2>2, <2>3 DEF SubmissionRing
<1> QED
  BY <1>1, <1>2, <1>3, <1>4, <1>5
  DEF Next, Driver, Controller, PollAgain, TimeOut, TakeCompletion, Return,
      vars, driverVars, controllerVars, historyVars

\* Before the first timeout the counters are within one of each other.
LEMMA CountersWithoutTimeout ==
  ASSUME InductiveInvariant, timeouts = 0
  PROVE  /\ consumed <= posted /\ posted <= fetched /\ fetched <= Announced
         /\ Announced <= issued
         /\ issued = consumed + (IF pc \in {"ring", "poll"} THEN 1 ELSE 0)
         /\ IsFiniteSet(inflight) /\ Cardinality(inflight) = fetched - posted
<1> USE QueueDepthAssumption
<1>1. TypeOK /\ CompletionRing /\ OneCompletionPerCall /\ SubmissionRing
      /\ timeouts < QUEUE_DEPTH - 1
  BY DEF InductiveInvariant
<1>2. consumed <= posted /\ posted <= fetched
  BY <1>1, RoomInSubmissionRing
<1>3. issued = consumed + (IF pc \in {"ring", "poll"} THEN 1 ELSE 0)
  BY <1>1 DEF OneCompletionPerCall, TypeOK
<1>4. fetched <= Announced /\ Announced <= issued
  BY <1>1 DEF SubmissionRing, Announced, TypeOK, Slots
<1> QED BY <1>1, <1>2, <1>3, <1>4 DEF SubmissionRing

\* Without a timeout, a step never leaves a second command outstanding.
LEMMA OneOutstandingStep ==
  InductiveInvariant /\ [Next]_vars => OneOutstanding'
<1> SUFFICES ASSUME InductiveInvariant, [Next]_vars, timeouts' = 0
             PROVE  OneOutstanding'
  BY DEF OneOutstanding
<1>0. TypeOK /\ OneOutstanding /\ SubmissionRing /\ CompletionRing
  BY DEF InductiveInvariant
<1>a. timeouts = 0
  BY <1>0 DEF TypeOK, Next, Driver, Controller, WriteSubmissionEntry,
      RingSubmissionDoorbell, PollAgain, TimeOut, TakeCompletion, Return, Fetch,
      Post, vars, driverVars, controllerVars, historyVars
<1>b. issued \in Nat /\ consumed \in Nat /\ posted \in Nat /\ fetched \in Nat
      /\ timeouts < QUEUE_DEPTH - 1 /\ Announced \in Int
  BY <1>0, <1>a, QueueDepthAssumption DEF TypeOK, Announced
<1>1. CASE WriteSubmissionEntry
  <2>1. Cardinality(inflight) = 0 /\ IsFiniteSet(inflight)
    BY <1>1, <1>a, <1>b, CountersWithoutTimeout DEF WriteSubmissionEntry
  <2>2. inflight = {}
    BY <2>1, FS_EmptySet
  <2> QED BY <1>0, <1>1, <1>a, <2>2
          DEF WriteSubmissionEntry, OneOutstanding, controllerVars
<1>2. CASE Fetch
  <2>1. sq_head \in Slots /\ sq_doorbell \in Slots /\ sq_head # sq_doorbell
    BY <1>0, <1>2 DEF Fetch, TypeOK
  <2>2. sq_head \in Between(sq_head, sq_doorbell)
    BY <2>1, BetweenIs DEF Slots
  <2>3. sq[sq_head].serial = fetched + 1
    BY <1>0, <1>b, <2>1, <2>2 DEF SubmissionRing, Slots
  <2>4. Announced - fetched >= 1
    BY <1>0, <1>b, <2>1, QueueDepthAssumption DEF SubmissionRing, Slots
  <2>5. sq[sq_head].serial = issued
    BY <1>a, <1>b, <2>3, <2>4, CountersWithoutTimeout
  <2> QED BY <1>0, <1>2, <1>a, <2>5 DEF Fetch, OneOutstanding, driverVars
<1>3. ASSUME NEW command \in inflight, Post(command) PROVE OneOutstanding'
  <2>1. Cardinality(inflight) \in Nat /\ Cardinality(inflight) # 0
    BY <1>a, CountersWithoutTimeout, FS_EmptySet, FS_CardinalityType
  <2>2. issued = posted + 1
    BY <1>a, <1>b, <2>1, CountersWithoutTimeout
  <2>3. command.serial = issued
    BY <1>0, <1>a DEF OneOutstanding
  <2> QED BY <1>0, <1>3, <1>a, <2>2, <2>3
          DEF Post, OneOutstanding, TypeOK, driverVars
<1>4. CASE TakeCompletion
  BY <1>0, <1>4, <1>a DEF TakeCompletion, OneOutstanding, TypeOK, controllerVars
<1>5. CASE UNCHANGED <<inflight, issued, cq, completion>>
  BY <1>0, <1>5, <1>a DEF OneOutstanding
<1> QED
  BY <1>1, <1>2, <1>3, <1>4, <1>5
  DEF Next, Driver, Controller, RingSubmissionDoorbell, PollAgain, TimeOut,
      Return, CidComparison, vars, driverVars, controllerVars, historyVars

\* Without a timeout, the comparison of the cids in Return succeeds.
LEMMA MismatchStep ==
  InductiveInvariant /\ [Next]_vars => MismatchOnlyAfterTimeout'
<1> SUFFICES ASSUME InductiveInvariant, [Next]_vars
             PROVE  MismatchOnlyAfterTimeout'
  OBVIOUS
<1>0. TypeOK /\ OneOutstanding /\ CompletionRing /\ CidsFollowSerials
      /\ MismatchOnlyAfterTimeout
  BY DEF InductiveInvariant
<1>1. CASE Return /\ timeouts = 0
  <2>1. completion.serial = issued
    BY <1>0, <1>1, CountersWithoutTimeout
    DEF Return, CompletionRing, OneOutstanding, TypeOK
  <2>2. completion.cid = cid
    BY <1>0, <1>1, <2>1 DEF Return, CidsFollowSerials, Stamped
  <2> QED BY <1>1, <2>2 DEF Return, CidComparison, MismatchOnlyAfterTimeout
<1>2. CASE Return /\ timeouts # 0
  BY <1>0, <1>2
  DEF Return, CidComparison, MismatchOnlyAfterTimeout, TypeOK, historyVars
<1>3. CASE ~Return
  BY <1>0, <1>3
  DEF MismatchOnlyAfterTimeout, TypeOK, Next, Driver, Controller,
      WriteSubmissionEntry, RingSubmissionDoorbell, PollAgain, TimeOut,
      TakeCompletion, Fetch, Post, vars, driverVars, controllerVars, historyVars
<1> QED BY <1>1, <1>2, <1>3

\* The inductive invariant holds in every state the queue pair can reach.
THEOREM Invariance == Spec => []InductiveInvariant
<1>1. InductiveInvariant /\ [Next]_vars => InductiveInvariant'
  BY TypeStep, CompletionRingStep, OneCompletionPerCallStep, CidsStep,
     SubmissionRingStep, OneOutstandingStep, AcceptedStep, MismatchStep
  DEF InductiveInvariant
<1> QED BY InitInvariant, <1>1, PTL DEF Spec

\* The state of the queue pair is well typed: indexes stay within the rings and
\* the cid within its width.
THEOREM TypeCorrect == Spec => []TypeOK
BY Invariance, PTL DEF InductiveInvariant

\* The two ends of the completion ring tell whether the tag at the head matches.
LEMMA ExactPhaseTag == InductiveInvariant => PhaseTagExact
<1> SUFFICES ASSUME InductiveInvariant, pc = "poll" PROVE PhaseTagExact
  BY DEF PhaseTagExact
<1>1. TypeOK /\ CompletionRing
  BY DEF InductiveInvariant
<1>2. completion_head \in Slots /\ cq_tail \in Slots
      /\ posted \in Nat /\ consumed \in Nat
  BY <1>1 DEF TypeOK
<1>3. CASE completion_phase = cq_phase
  BY <1>1, <1>2, <1>3, QueueDepthAssumption
  DEF CompletionRing, PhaseTagExact, Matches, Slots
<1>4. CASE completion_phase # cq_phase
  <2>1. cq[completion_head].phase # cq_phase
    BY <1>1, <1>2, <1>4 DEF CompletionRing, Slots
  <2>2. Matches
    BY <1>1, <1>2, <1>4, <2>1, Zenon
    DEF Matches, TypeOK, CompletionQueueEntry
  <2> QED BY <1>1, <1>2, <1>4, <2>2, QueueDepthAssumption
          DEF CompletionRing, PhaseTagExact, Slots
<1> QED BY <1>3, <1>4

\* The phase tag test of submit_and_wait matches when and only when a completion
\* is waiting, and finds the oldest one, for every queue depth and every number
\* of laps.
THEOREM PhaseTagIsExact == Spec => []PhaseTagExact
BY ExactPhaseTag, Invariance, PTL

\* submit_and_wait returns Ok with the completion of its own command, or of one
\* left behind at least CID_SPACE commands ago.
THEOREM OkAnswersOwnCommand == Spec => []AcceptedIsOwn
BY Invariance, PTL DEF InductiveInvariant

\* The controller fetches each announced command once, in order and as written,
\* while fewer than QUEUE_DEPTH - 1 calls have timed out.
THEOREM ControllerFetchesInOrder == Spec => []FetchesInOrder
<1>1. InductiveInvariant => FetchesInOrder
  <2> SUFFICES ASSUME InductiveInvariant, timeouts < QUEUE_DEPTH - 1
               PROVE  FetchesInOrder
    BY DEF FetchesInOrder
  <2>1. sq_head \in Slots /\ sq_doorbell \in Slots /\ SubmissionRing
        /\ fetched \in Nat /\ Announced \in Int
    BY DEF InductiveInvariant, TypeOK, Announced
  <2>2. CASE sq_head = sq_doorbell
    BY <2>1, <2>2 DEF SubmissionRing, FetchesInOrder, Slots
  <2>3. CASE sq_head # sq_doorbell
    <3>1. sq_head \in Between(sq_head, sq_doorbell)
      BY <2>1, <2>3, BetweenIs DEF Slots
    <3> QED BY <2>1, <2>3, <3>1 DEF SubmissionRing, FetchesInOrder, Slots
  <2> QED BY <2>2, <2>3
<1> QED BY <1>1, Invariance, PTL

\* The cid error of submit_and_wait only follows an earlier timeout.
THEOREM MismatchImpliesTimeout == Spec => []MismatchOnlyAfterTimeout
BY Invariance, PTL DEF InductiveInvariant

------------------------------------------------------------------------------
(* Refinement: the rings implement CommandChannel. *)

\* A command is in one place: no serial is announced twice, nor both announced
\* and in flight, nor there before it is announced.
SerialsUnique ==
  /\ \A i, j \in Between(sq_head, sq_doorbell) :
       sq[i].serial = sq[j].serial => i = j
  /\ \A i \in Between(sq_head, sq_doorbell) :
       /\ sq[i].serial <= Announced
       /\ \A command \in inflight : command.serial # sq[i].serial
  /\ \A command \in inflight : command.serial <= Announced

\* Writing, announcing, fetching and posting keep a command in one place, also
\* when the submission ring is overrun.
LEMMA SerialsUniqueStep ==
  TypeOK /\ CidsFollowSerials /\ SerialsUnique /\ [Next]_vars => SerialsUnique'
<1> SUFFICES ASSUME TypeOK, CidsFollowSerials, SerialsUnique, [Next]_vars
             PROVE  SerialsUnique'
  OBVIOUS
<1>1. CASE WriteSubmissionEntry
  <2>1. /\ submission_tail \in Slots /\ sq_head \in Slots /\ issued \in Nat
        /\ sq \in [Slots -> SubmissionQueueEntry]
        /\ sq_doorbell = submission_tail
    BY DEF TypeOK, CidsFollowSerials
  <2>2. /\ sq' = [sq EXCEPT ![submission_tail] =
                    [serial |-> issued + 1, cid |-> next_cid]]
        /\ Announced' = Announced
        /\ UNCHANGED <<sq_doorbell, sq_head, inflight>>
    BY <1>1, <2>1 DEF WriteSubmissionEntry, controllerVars, Announced
  <2>3. Between(sq_head, sq_doorbell)' = Between(sq_head, sq_doorbell)
    BY <2>2 DEF Between
  <2>4. \A i \in Between(sq_head, sq_doorbell) : sq'[i] = sq[i]
    BY <2>1, <2>2, BetweenIs DEF Slots
  <2> QED BY <2>2, <2>3, <2>4 DEF SerialsUnique
<1>2. CASE RingSubmissionDoorbell
  <2>1. /\ submission_tail \in Slots /\ sq_head \in Slots /\ issued \in Nat
        /\ sq_doorbell = submission_tail
        /\ sq_doorbell' = NextSlot(submission_tail)
        /\ Announced = issued - 1 /\ Announced' = issued
        /\ sq[submission_tail].serial = issued
        /\ \A i \in Slots : sq[i].serial \in Nat
        /\ \A command \in inflight : command.serial \in Nat
        /\ UNCHANGED <<sq, sq_head, inflight>>
    BY <1>2 DEF RingSubmissionDoorbell, TypeOK, controllerVars, historyVars,
                CidsFollowSerials, Announced, SubmissionQueueEntry
  <2>2. \A i \in Between(sq_head, sq_doorbell)' :
          i \in Between(sq_head, sq_doorbell) \/ i = submission_tail
    <3>1. Between(sq_head, sq_doorbell)'
            = Between(sq_head, NextSlot(submission_tail))
      BY <2>1 DEF Between
    <3> QED BY <2>1, <3>1, BetweenGrows
  <2>3. \A i \in Between(sq_head, sq_doorbell) :
          sq[i].serial < issued /\ i \in Slots
    BY <2>1, BetweenIs DEF SerialsUnique
  <2>4. \A command \in inflight : command.serial < issued
    BY <2>1 DEF SerialsUnique
  <2> QED BY <2>1, <2>2, <2>3, <2>4 DEF SerialsUnique
<1>3. CASE Fetch
  <2>1. /\ sq_head \in Slots /\ sq_doorbell \in Slots
        /\ sq_head # sq_doorbell /\ sq_head' = NextSlot(sq_head)
        /\ inflight' = inflight \cup {sq[sq_head]}
        /\ Announced' = Announced
        /\ UNCHANGED <<sq_doorbell, sq>>
    BY <1>3 DEF Fetch, TypeOK, driverVars, Announced
  <2>2. sq_head \in Between(sq_head, sq_doorbell)
    BY <2>1, BetweenIs DEF Slots
  <2>3. \A i \in Between(sq_head, sq_doorbell)' :
          i \in Between(sq_head, sq_doorbell) /\ i # sq_head
    BY <2>1, NextSlotIs, BetweenIs, QueueDepthAssumption DEF Slots
  <2> QED BY <2>1, <2>2, <2>3 DEF SerialsUnique
<1>4. ASSUME NEW command \in inflight, Post(command) PROVE SerialsUnique'
  <2>1. /\ UNCHANGED <<sq, sq_head, sq_doorbell, issued, pc>>
        /\ inflight' = inflight \ {command}
    BY <1>4 DEF Post, driverVars
  <2> QED BY <2>1 DEF SerialsUnique, Between, Announced
<1>5. CASE /\ UNCHANGED <<sq, sq_head, sq_doorbell, inflight, issued>>
           /\ pc' = pc \/ (pc # "ring" /\ pc' # "ring")
  BY <1>5 DEF SerialsUnique, Between, Announced
<1> QED
  BY <1>1, <1>2, <1>3, <1>4, <1>5
  DEF Next, Driver, Controller, PollAgain, TimeOut, TakeCompletion, Return,
      vars, driverVars, controllerVars, historyVars

\* What the refinement rests on.
RefinementInvariant == InductiveInvariant /\ SerialsUnique

\* It holds in every state.
LEMMA RefinementInvariance == Spec => []RefinementInvariant
<1>1. Init => SerialsUnique
  BY DEF Init, SerialsUnique, Between
<1>2. InductiveInvariant /\ SerialsUnique /\ [Next]_vars => SerialsUnique'
  BY SerialsUniqueStep DEF InductiveInvariant
<1> QED BY <1>1, <1>2, Invariance, PTL DEF Spec, RefinementInvariant

\* The completions waiting in the ring are a sequence of serials, one for each
\* posted and not consumed, from the slot at the head on.
RingShape ==
  /\ posted - consumed \in 0 .. QUEUE_DEPTH - 1
  /\ WaitingInRing \in Seq(Nat)
  /\ Len(WaitingInRing) = posted - consumed
  /\ \A k \in 1 .. posted - consumed :
       LET n == completion_head + k - 1
           s == IF n < QUEUE_DEPTH THEN n ELSE n - QUEUE_DEPTH
       IN s \in Slots /\ WaitingInRing[k] = cq[s].serial

\* The two ends of the completion ring are that far apart.
LEMMA RingShaped == TypeOK /\ CompletionRing => RingShape
<1> SUFFICES ASSUME TypeOK, CompletionRing PROVE RingShape
  OBVIOUS
<1> USE QueueDepthAssumption
<1>1. posted - consumed \in 0 .. QUEUE_DEPTH - 1 /\ completion_head \in Slots
  BY DEF TypeOK, CompletionRing, Slots
<1>2. ASSUME NEW k \in 1 .. posted - consumed
      PROVE  LET n == completion_head + k - 1
                 s == IF n < QUEUE_DEPTH THEN n ELSE n - QUEUE_DEPTH
             IN /\ s \in Slots
                /\ WaitingInRing[k] = cq[s].serial
                /\ WaitingInRing[k] \in Nat
  <2> DEFINE n == completion_head + k - 1
             s == IF n < QUEUE_DEPTH THEN n ELSE n - QUEUE_DEPTH
  <2>1. n \in 0 .. 2 * QUEUE_DEPTH - 1 /\ s \in Slots
    BY <1>1 DEF Slots
  <2>2. n % QUEUE_DEPTH = s
    BY <2>1, WrapOnce
  <2>3. WaitingInRing[k] = cq[s].serial
    BY <2>2 DEF WaitingInRing
  <2>4. cq[s].serial \in Nat
    BY <2>1 DEF TypeOK, CompletionQueueEntry
  <2> QED BY <2>1, <2>3, <2>4
<1>3. WaitingInRing \in [1 .. posted - consumed -> Nat]
  BY <1>2 DEF WaitingInRing
<1>4. posted - consumed \in Nat
  BY <1>1
<1>5. WaitingInRing \in Seq(Nat) /\ Len(WaitingInRing) = posted - consumed
  BY <1>3, <1>4, SeqDef, LenProperties
<1> QED BY <1>1, <1>2, <1>5 DEF RingShape

\* The completions waiting, the one a call has taken included.
WaitingShape ==
  /\ Waiting \in Seq(Nat)
  /\ Len(Waiting) = posted - consumed + (IF pc = "return" THEN 1 ELSE 0)
  /\ pc # "return" => Waiting = WaitingInRing
  /\ pc = "return" =>
       /\ Waiting # << >>
       /\ Head(Waiting) = completion.serial
       /\ Tail(Waiting) = WaitingInRing
       /\ Waiting[1] = completion.serial
       /\ \A k \in 1 .. posted - consumed : Waiting[k + 1] = WaitingInRing[k]

\* A call that has taken one puts it in front of those in the ring.
LEMMA WaitingShaped == TypeOK /\ CompletionRing => WaitingShape
<1> SUFFICES ASSUME TypeOK, CompletionRing PROVE WaitingShape
  OBVIOUS
<1>1. WaitingInRing \in Seq(Nat) /\ Len(WaitingInRing) = posted - consumed
      /\ posted - consumed \in Nat
  BY RingShaped DEF RingShape
<1>2. completion.serial \in Nat
  BY DEF TypeOK, CompletionQueueEntry
<1>3. CASE pc # "return"
  BY <1>1, <1>3 DEF Waiting, WaitingShape
<1>4. CASE pc = "return"
  <2> DEFINE one == <<completion.serial>>
  <2>1. one \in Seq(Nat) /\ Len(one) = 1 /\ one[1] = completion.serial
    BY <1>2
  <2>2. Waiting = one \o WaitingInRing
    BY <1>4 DEF Waiting
  <2> HIDE DEF one
  <2>a. /\ one \o WaitingInRing \in Seq(Nat)
        /\ Len(one \o WaitingInRing) = Len(one) + Len(WaitingInRing)
        /\ \A k \in 1 .. Len(one) + Len(WaitingInRing) :
             (one \o WaitingInRing)[k] =
               IF k <= Len(one) THEN one[k] ELSE WaitingInRing[k - Len(one)]
    BY <1>1, <2>1, ConcatProperties, Zenon
  <2>3. /\ Waiting \in Seq(Nat) /\ Len(Waiting) = 1 + Len(WaitingInRing)
        /\ \A k \in 1 .. 1 + Len(WaitingInRing) :
             Waiting[k] = IF k <= 1 THEN one[k] ELSE WaitingInRing[k - 1]
    BY <2>1, <2>2, <2>a
  <2>4. Waiting[1] = completion.serial
    BY <1>1, <2>1, <2>3
  <2>5. \A k \in 1 .. posted - consumed : Waiting[k + 1] = WaitingInRing[k]
    BY <1>1, <2>3
  <2>6. Waiting # << >>
    BY <1>1, <2>3
  <2>7. Head(Waiting) = completion.serial
    BY <2>3, <2>4, <2>6
  <2>8. /\ Tail(Waiting) \in Seq(Nat) /\ Len(Tail(Waiting)) = Len(WaitingInRing)
        /\ \A k \in 1 .. Len(Tail(Waiting)) : Tail(Waiting)[k] = Waiting[k + 1]
    BY <1>1, <2>3, <2>6, HeadTailProperties
  <2>9. Tail(Waiting) = WaitingInRing
    BY <1>1, <2>5, <2>8, SeqEqual
  <2> QED BY <1>1, <1>4, <2>3, <2>4, <2>5, <2>6, <2>7, <2>9 DEF WaitingShape
<1> QED BY <1>3, <1>4

\* Both hold before and after a step.
LEMMA Shapes ==
  InductiveInvariant /\ [Next]_vars =>
    RingShape /\ RingShape' /\ WaitingShape /\ WaitingShape'
<1>1. InductiveInvariant => TypeOK /\ CompletionRing
  BY DEF InductiveInvariant
<1>2. InductiveInvariant /\ [Next]_vars => (TypeOK /\ CompletionRing)'
  BY TypeStep, CompletionRingStep DEF InductiveInvariant
<1> QED BY <1>1, <1>2, RingShaped, WaitingShaped, PTL

\* A completion that is posted joins the waiting ones at the end.
LEMMA PostAppends ==
  ASSUME InductiveInvariant, NEW command \in inflight, Post(command)
  PROVE  Waiting' = Append(Waiting, command.serial)
<1> USE QueueDepthAssumption
<1>1. TypeOK /\ CompletionRing /\ Next
  BY DEF InductiveInvariant, Next, Controller
<1>2. /\ completion_head \in Slots /\ cq_tail \in Slots
      /\ posted \in Nat /\ consumed \in Nat
      /\ command.serial \in Nat
      /\ posted' = posted + 1
      /\ \A i \in Slots :
           cq'[i].serial = IF i = cq_tail THEN command.serial ELSE cq[i].serial
      /\ UNCHANGED <<completion_head, consumed, completion, pc>>
  BY <1>1 DEF Post, driverVars, TypeOK, SubmissionQueueEntry
<1>3. IF completion_head + (posted - consumed) < QUEUE_DEPTH
        THEN completion_head + (posted - consumed) = cq_tail
        ELSE completion_head + (posted - consumed) - QUEUE_DEPTH = cq_tail
  BY <1>1, <1>2 DEF CompletionRing, Slots
<1>4. RingShape /\ RingShape' /\ WaitingShape /\ WaitingShape'
  BY <1>1, Shapes
<1>5. WaitingInRing'[posted - consumed + 1] = command.serial
  <2>0. posted - consumed \in Nat
    BY <1>4 DEF RingShape
  <2>1. PICK k \in 1 .. posted' - consumed' : k = posted - consumed + 1
    <3>1. posted - consumed + 1 \in 1 .. posted' - consumed'
      BY <1>2, <2>0
    <3> QED BY <3>1
  <2>2. completion_head' + k - 1 = completion_head + (posted - consumed)
    BY <1>2, <2>1 DEF Slots
  <2> DEFINE n == completion_head' + k - 1
             s == IF n < QUEUE_DEPTH THEN n ELSE n - QUEUE_DEPTH
  <2>3. WaitingInRing'[k] = cq'[s].serial
    BY <1>4 DEF RingShape
  <2>4. s = cq_tail
    BY <1>2, <1>3, <2>2 DEF Slots
  <2> HIDE DEF s
  <2> QED BY <1>2, <2>1, <2>3, <2>4
<1>6. ASSUME NEW k \in 1 .. posted - consumed
      PROVE  WaitingInRing'[k] = WaitingInRing[k]
  <2> DEFINE n == completion_head + k - 1
             s == IF n < QUEUE_DEPTH THEN n ELSE n - QUEUE_DEPTH
  <2>1. k \in 1 .. posted' - consumed'
    BY <1>2
  <2>2. s \in Slots /\ WaitingInRing[k] = cq[s].serial
        /\ WaitingInRing'[k] = cq'[s].serial
    BY <1>2, <1>4, <2>1 DEF RingShape
  <2>3. s # cq_tail
    BY <1>2, <1>3, <1>4 DEF Slots, RingShape
  <2> HIDE DEF s
  <2> QED BY <1>2, <2>2, <2>3
<1>7. /\ Waiting \in Seq(Nat) /\ Waiting' \in Seq(Nat)
      /\ Len(Waiting') = Len(Waiting) + 1
      /\ \A k \in 1 .. Len(Waiting) : Waiting'[k] = Waiting[k]
      /\ Waiting'[Len(Waiting) + 1] = command.serial
  <2>1. CASE pc = "return"
    <3>1. \A k \in 1 .. Len(Waiting) : Waiting'[k] = Waiting[k]
      <4> SUFFICES ASSUME NEW k \in 1 .. Len(Waiting)
                   PROVE  Waiting'[k] = Waiting[k]
        OBVIOUS
      <4>1. CASE k = 1
        BY <1>2, <1>4, <2>1, <4>1 DEF WaitingShape
      <4>2. CASE k # 1
        <5>1. /\ k - 1 \in 1 .. posted - consumed
              /\ k - 1 \in 1 .. posted' - consumed'
          BY <1>2, <1>4, <2>1, <4>2 DEF WaitingShape
        <5>2. Waiting[(k - 1) + 1] = WaitingInRing[k - 1]
              /\ Waiting'[(k - 1) + 1] = WaitingInRing'[k - 1]
          BY <1>2, <1>4, <2>1, <5>1 DEF WaitingShape
        <5> QED BY <1>6, <5>1, <5>2
      <4> QED BY <4>1, <4>2
    <3>2. /\ Len(Waiting) = posted - consumed + 1
          /\ Len(Waiting') = posted - consumed + 2
      BY <1>2, <1>4, <2>1 DEF WaitingShape
    <3>3. posted - consumed + 1 \in 1 .. posted' - consumed'
      BY <1>2, <1>4 DEF RingShape
    <3>4. Waiting'[(posted - consumed + 1) + 1] = command.serial
      BY <1>2, <1>4, <1>5, <2>1, <3>3 DEF WaitingShape
    <3>5. Waiting \in Seq(Nat) /\ Waiting' \in Seq(Nat)
      BY <1>4 DEF WaitingShape
    <3> QED BY <1>2, <3>1, <3>2, <3>4, <3>5
  <2>2. CASE pc # "return"
    BY <1>2, <1>4, <1>5, <1>6, <2>2 DEF WaitingShape
  <2> QED BY <2>1, <2>2
<1>8. Append(Waiting, command.serial) \in Seq(Nat)
      /\ Len(Append(Waiting, command.serial)) = Len(Waiting) + 1
      /\ \A k \in 1 .. Len(Waiting) + 1 :
           Append(Waiting, command.serial)[k] =
             IF k <= Len(Waiting) THEN Waiting[k] ELSE command.serial
  BY <1>2, <1>7
<1>9. ASSUME NEW k \in 1 .. Len(Waiting')
      PROVE  Waiting'[k] = Append(Waiting, command.serial)[k]
  <2>1. k \in 1 .. Len(Waiting) + 1 /\ Len(Waiting) \in Nat
    BY <1>7
  <2>2. CASE k = Len(Waiting) + 1
    BY <1>7, <1>8, <2>1, <2>2
  <2>3. CASE k \in 1 .. Len(Waiting)
    BY <1>7, <1>8, <2>1, <2>3
  <2> QED BY <2>1, <2>2, <2>3
<1> QED BY <1>7, <1>8, <1>9, SeqEqual

\* A call that takes a completion off the ring leaves it first among the waiting.
LEMMA TakeKeepsWaiting ==
  ASSUME InductiveInvariant, TakeCompletion
  PROVE  Waiting' = Waiting
<1> USE QueueDepthAssumption
<1>1. TypeOK /\ CompletionRing /\ Next
  BY DEF InductiveInvariant, Next, Driver
<1>2. /\ completion_head \in Slots /\ posted \in Nat /\ consumed \in Nat
      /\ completion_head' = NextSlot(completion_head)
      /\ completion' = cq[completion_head]
      /\ consumed' = consumed + 1 /\ pc = "poll" /\ pc' = "return"
      /\ UNCHANGED <<cq, posted>>
  BY <1>1 DEF TakeCompletion, TypeOK, controllerVars
<1>3. RingShape /\ RingShape' /\ WaitingShape /\ WaitingShape'
  BY <1>1, Shapes
<1>4. posted - consumed >= 1
  BY <1>2, <1>3 DEF RingShape
<1>5. WaitingInRing[1] = cq[completion_head].serial
  BY <1>2, <1>3, <1>4 DEF RingShape, Slots
<1>6. \A k \in 1 .. posted - consumed - 1 :
        WaitingInRing'[k] = WaitingInRing[k + 1]
  <2> SUFFICES ASSUME NEW k \in 1 .. posted - consumed - 1
               PROVE  WaitingInRing'[k] = WaitingInRing[k + 1]
    OBVIOUS
  <2>1. k + 1 \in 1 .. posted - consumed /\ k \in 1 .. posted' - consumed'
    BY <1>2
  <2>2. LET n == completion_head + (k + 1) - 1
            s == IF n < QUEUE_DEPTH THEN n ELSE n - QUEUE_DEPTH
        IN s \in Slots /\ WaitingInRing[k + 1] = cq[s].serial
    BY <1>3, <2>1 DEF RingShape
  <2>3. LET n == completion_head' + k - 1
            s == IF n < QUEUE_DEPTH THEN n ELSE n - QUEUE_DEPTH
        IN s \in Slots /\ WaitingInRing'[k] = cq'[s].serial
    BY <1>3, <2>1 DEF RingShape, Slots
  <2>4. completion_head' = IF completion_head = QUEUE_DEPTH - 1
                             THEN 0 ELSE completion_head + 1
    BY <1>2, NextSlotIs
  <2> QED BY <1>2, <2>2, <2>3, <2>4 DEF Slots
<1>7. \A k \in 1 .. posted - consumed : Waiting'[k] = Waiting[k]
  <2> SUFFICES ASSUME NEW k \in 1 .. posted - consumed
               PROVE  Waiting'[k] = Waiting[k]
    OBVIOUS
  <2>1. CASE k = 1
    BY <1>2, <1>3, <1>5, <2>1 DEF WaitingShape
  <2>2. CASE k # 1
    <3>1. /\ k - 1 \in 1 .. posted - consumed - 1
          /\ k - 1 \in 1 .. posted' - consumed'
      BY <1>2, <2>2
    <3>2. Waiting'[(k - 1) + 1] = WaitingInRing'[k - 1]
      BY <1>2, <1>3, <3>1 DEF WaitingShape
    <3>3. WaitingInRing'[k - 1] = WaitingInRing[(k - 1) + 1]
      BY <1>6, <3>1
    <3> QED BY <1>2, <1>3, <3>2, <3>3 DEF WaitingShape
  <2> QED BY <2>1, <2>2
<1>8. Waiting \in Seq(Nat) /\ Waiting' \in Seq(Nat)
      /\ Len(Waiting) = posted - consumed /\ Len(Waiting') = posted - consumed
  BY <1>2, <1>3 DEF WaitingShape
<1> QED BY <1>7, <1>8, SeqEqual

\* A doorbell that runs into the head of the submission ring follows at least
\* QUEUE_DEPTH - 1 timeouts.
LEMMA OverrunNeedsTimeouts ==
  ASSUME InductiveInvariant, pc = "ring", NextSlot(sq_doorbell) = sq_head
  PROVE  timeouts >= QUEUE_DEPTH - 1
<1> USE QueueDepthAssumption
<1>1. TypeOK /\ CompletionRing /\ OneCompletionPerCall /\ SubmissionRing
  BY DEF InductiveInvariant
<1>2. sq_head \in Slots /\ sq_doorbell \in Slots /\ issued \in Nat
      /\ fetched \in Nat /\ timeouts \in Nat
  BY <1>1 DEF TypeOK
<1> SUFFICES ASSUME timeouts < QUEUE_DEPTH - 1 PROVE FALSE
  BY <1>2
<1>3. issued - fetched <= QUEUE_DEPTH - 1
  BY <1>1, <1>2, RoomInSubmissionRing
<1>4. issued - 1 - fetched = IF sq_head <= sq_doorbell
                               THEN sq_doorbell - sq_head
                               ELSE QUEUE_DEPTH + sq_doorbell - sq_head
  BY <1>1 DEF SubmissionRing, Announced
<1> QED BY <1>2, <1>3, <1>4, NextSlotIs DEF Slots

\* Writing the entry hands the command over.
LEMMA WriteIssues ==
  ASSUME RefinementInvariant, WriteSubmissionEntry
  PROVE  Channel!Issue
<1>1. TypeOK /\ CidsFollowSerials
  BY DEF RefinementInvariant, InductiveInvariant
<1>2. /\ submission_tail \in Slots /\ sq_head \in Slots
      /\ sq_doorbell = submission_tail
      /\ sq \in [Slots -> SubmissionQueueEntry]
      /\ pc = "idle" /\ pc' = "ring" /\ issued' = issued + 1
      /\ issued < MaxCommands
      /\ sq' = [sq EXCEPT ![submission_tail] =
                  [serial |-> issued + 1, cid |-> next_cid]]
      /\ UNCHANGED <<sq_head, sq_doorbell, inflight, cq, completion_head,
                     completion, posted, consumed, timeouts, outcome>>
  BY <1>1 DEF WriteSubmissionEntry, TypeOK, CidsFollowSerials, controllerVars
<1>3. Between(sq_head, sq_doorbell)' = Between(sq_head, sq_doorbell)
  BY <1>2 DEF Between
<1>4. \A i \in Between(sq_head, sq_doorbell) : sq'[i] = sq[i]
  BY <1>2, BetweenIs DEF Slots
<1>5. Unfinished' = Unfinished \cup {issued + 1}
  BY <1>2, <1>3, <1>4 DEF Unfinished
<1>6. Waiting' = Waiting
  BY <1>2 DEF Waiting, WaitingInRing
<1>7. ~(pc # "idle") /\ (pc # "idle")' = TRUE
  BY <1>2
<1> QED BY <1>2, <1>5, <1>6, <1>7 DEF Channel!Issue

\* Ringing the doorbell changes nothing for the channel, unless it overruns the
\* ring: then it forgets the commands that were announced.
LEMMA RingStuttersOrLoses ==
  ASSUME RefinementInvariant, RingSubmissionDoorbell
  PROVE  Channel!Lose \/ UNCHANGED Channel!chanVars
<1>1. TypeOK /\ CidsFollowSerials /\ InductiveInvariant
  BY DEF RefinementInvariant, InductiveInvariant
<1>2. /\ submission_tail \in Slots /\ sq_head \in Slots
      /\ sq_doorbell = submission_tail
      /\ sq_doorbell' = NextSlot(sq_doorbell)
      /\ sq[submission_tail].serial = issued
      /\ pc = "ring" /\ pc' = "poll"
      /\ UNCHANGED <<sq, sq_head, inflight, cq, completion_head, completion,
                     issued, posted, consumed, timeouts, outcome>>
  BY <1>1 DEF RingSubmissionDoorbell, TypeOK, CidsFollowSerials,
              controllerVars, historyVars
<1>3. Waiting' = Waiting
  BY <1>2 DEF Waiting, WaitingInRing
<1>4. (pc # "idle")' = (pc # "idle")
  BY <1>2
<1>5. Between(sq_head, sq_doorbell)' = Between(sq_head, NextSlot(sq_doorbell))
  BY <1>2 DEF Between
<1>6. CASE NextSlot(sq_doorbell) = sq_head
  <2>1. timeouts >= QUEUE_DEPTH - 1
    BY <1>1, <1>2, <1>6, OverrunNeedsTimeouts
  <2>2. Between(sq_head, sq_doorbell)' = {}
    BY <1>2, <1>6, <1>5, BetweenGrows
  <2>3. Unfinished' \in SUBSET Unfinished
    BY <1>2, <2>2 DEF Unfinished
  <2> QED BY <1>2, <1>3, <1>4, <2>1, <2>3 DEF Channel!Lose
<1>7. CASE NextSlot(sq_doorbell) # sq_head
  <2>1. Between(sq_head, sq_doorbell)'
          = Between(sq_head, sq_doorbell) \cup {submission_tail}
    BY <1>2, <1>7, <1>5, BetweenGrows
  <2>2. Unfinished' = Unfinished
    BY <1>2, <2>1 DEF Unfinished
  <2> QED BY <1>2, <1>3, <1>4, <2>2 DEF Channel!chanVars
<1> QED BY <1>6, <1>7

\* An idle poll with polls left is not seen.
LEMMA PollStutters == PollAgain => UNCHANGED Channel!chanVars
BY DEF PollAgain, Channel!chanVars, Unfinished, Waiting, WaitingInRing, Between,
       controllerVars, historyVars

\* The poll that gives up finds no completion waiting.
LEMMA TimeOutGivesUp ==
  ASSUME RefinementInvariant, TimeOut
  PROVE  Channel!GiveUp
<1>1. InductiveInvariant
  BY DEF RefinementInvariant
<1>2. posted = consumed
  <2>1. ~(consumed < posted)
    BY <1>1, ExactPhaseTag DEF TimeOut, PhaseTagExact
  <2>2. posted \in Nat /\ consumed \in Nat /\ posted - consumed \in Nat
    BY <1>1, RingShaped DEF RingShape, InductiveInvariant, TypeOK
  <2> QED BY <2>1, <2>2
<1>3. /\ pc = "poll" /\ pc' = "idle" /\ timeouts' = timeouts + 1
      /\ outcome' = "timeout" /\ posted' = posted /\ consumed' = consumed
      /\ UNCHANGED <<sq, sq_head, sq_doorbell, inflight, cq, completion_head,
                     completion, issued>>
  BY DEF TimeOut, controllerVars
<1>4. Waiting = << >>
  BY <1>1, <1>2, <1>3, WaitingShaped DEF WaitingShape, InductiveInvariant, TypeOK
<1>5. Waiting' = Waiting /\ Unfinished' = Unfinished
  BY <1>3 DEF Waiting, WaitingInRing, Unfinished, Between
<1>6. (pc # "idle") /\ (pc # "idle")' = FALSE
  BY <1>3
<1> QED BY <1>3, <1>4, <1>5, <1>6 DEF Channel!GiveUp

\* A call that takes a completion has not answered yet.
LEMMA TakeStutters ==
  ASSUME RefinementInvariant, TakeCompletion
  PROVE  UNCHANGED Channel!chanVars
<1>1. Waiting' = Waiting
  BY TakeKeepsWaiting DEF RefinementInvariant
<1>2. /\ pc = "poll" /\ pc' = "return"
      /\ UNCHANGED <<sq, sq_head, sq_doorbell, inflight, issued, timeouts,
                     outcome>>
  BY DEF TakeCompletion, controllerVars
<1>3. Unfinished' = Unfinished
  BY <1>2 DEF Unfinished, Between
<1>4. (pc # "idle")' = (pc # "idle")
  BY <1>2
<1> QED BY <1>1, <1>2, <1>3, <1>4 DEF Channel!chanVars

\* Return answers with the oldest completion and compares the cids.
LEMMA ReturnAnswers ==
  ASSUME RefinementInvariant, Return
  PROVE  Channel!Answer
<1>1. TypeOK /\ CompletionRing /\ CidsFollowSerials
  BY DEF RefinementInvariant, InductiveInvariant
<1>2. /\ pc = "return" /\ pc' = "idle"
      /\ outcome' = CidComparison
      /\ UNCHANGED <<sq, sq_head, sq_doorbell, inflight, cq, completion_head,
                     completion, posted, consumed, issued, timeouts>>
  BY DEF Return, controllerVars, historyVars
<1>3. /\ Waiting # << >> /\ Head(Waiting) = completion.serial
      /\ Tail(Waiting) = WaitingInRing
  BY <1>1, <1>2, WaitingShaped DEF WaitingShape
<1>4. Waiting' = Tail(Waiting) /\ Unfinished' = Unfinished
  <2>1. WaitingInRing' = WaitingInRing
    BY <1>2 DEF WaitingInRing
  <2>2. Waiting' = WaitingInRing'
    BY <1>2 DEF Waiting
  <2>3. Unfinished' = Unfinished
    BY <1>2 DEF Unfinished, Between
  <2> QED BY <1>3, <2>1, <2>2, <2>3
<1>5. completion.cid = Channel!CidOf(completion.serial)
  BY <1>1, <1>2 DEF CompletionRing, CidsFollowSerials, Stamped, Channel!CidOf
<1>6. cid = Channel!CidOf(issued)
  BY <1>1, <1>2 DEF CidsFollowSerials, Channel!CidOf
<1>7. outcome' = IF Channel!CidOf(Head(Waiting)) = Channel!CidOf(issued)
                   THEN "ok" ELSE "mismatch"
  BY <1>2, <1>3, <1>5, <1>6 DEF CidComparison
<1>8. (pc # "idle") /\ (pc # "idle")' = FALSE
  BY <1>2
<1> QED BY <1>2, <1>3, <1>4, <1>7, <1>8 DEF Channel!Answer

\* A command fetched moves from the ring into flight.
LEMMA FetchStutters ==
  ASSUME RefinementInvariant, Fetch
  PROVE  UNCHANGED Channel!chanVars
<1>1. TypeOK
  BY DEF RefinementInvariant, InductiveInvariant
<1>2. /\ sq_head \in Slots /\ sq_doorbell \in Slots /\ sq_head # sq_doorbell
      /\ sq_head' = NextSlot(sq_head)
      /\ inflight' = inflight \cup {sq[sq_head]}
      /\ UNCHANGED <<sq, sq_doorbell, cq, completion_head, completion, posted,
                     consumed, issued, timeouts, outcome, pc>>
  BY <1>1 DEF Fetch, TypeOK, driverVars
<1>3. Between(sq_head, sq_doorbell)
        = Between(sq_head, sq_doorbell)' \cup {sq_head}
  <2>1. Between(sq_head, sq_doorbell)' = Between(NextSlot(sq_head), sq_doorbell)
    BY <1>2 DEF Between
  <2>2. ASSUME NEW i
        PROVE  i \in Between(sq_head, sq_doorbell) <=>
                 i \in Between(NextSlot(sq_head), sq_doorbell) \/ i = sq_head
    <3>1. CASE sq_head = QUEUE_DEPTH - 1
      BY <1>2, <3>1, NextSlotIs, BetweenIs, QueueDepthAssumption DEF Slots
    <3>2. CASE sq_head # QUEUE_DEPTH - 1
      <4>1. NextSlot(sq_head) = sq_head + 1 /\ sq_head + 1 \in Slots
        BY <1>2, <3>2, NextSlotIs
      <4>2. i \in Between(sq_head + 1, sq_doorbell) <=>
              /\ i \in Slots
              /\ IF sq_head + 1 <= sq_doorbell
                   THEN sq_head + 1 <= i /\ i < sq_doorbell
                   ELSE sq_head + 1 <= i \/ i < sq_doorbell
        BY <1>2, <4>1, BetweenIs
      <4>3. i \in Between(sq_head, sq_doorbell) <=>
              /\ i \in Slots
              /\ IF sq_head <= sq_doorbell
                   THEN sq_head <= i /\ i < sq_doorbell
                   ELSE sq_head <= i \/ i < sq_doorbell
        BY <1>2, BetweenIs
      <4> QED BY <1>2, <4>1, <4>2, <4>3 DEF Slots
    <3> QED BY <3>1, <3>2
  <2> QED BY <2>1, <2>2
<1>4. Unfinished' = Unfinished
  BY <1>2, <1>3 DEF Unfinished
<1>5. Waiting' = Waiting
  BY <1>2 DEF Waiting, WaitingInRing
<1> QED BY <1>2, <1>4, <1>5 DEF Channel!chanVars

\* A command posted is finished: it is nowhere else, and its completion is the
\* last of those waiting.
LEMMA PostCompletes ==
  ASSUME RefinementInvariant, NEW command \in inflight, Post(command)
  PROVE  command.serial \in Unfinished /\ Channel!Complete(command.serial)
<1>1. TypeOK /\ CidsFollowSerials /\ SerialsUnique /\ InductiveInvariant
  BY DEF RefinementInvariant, InductiveInvariant
<1>2. /\ inflight' = inflight \ {command}
      /\ UNCHANGED <<sq, sq_head, sq_doorbell, pc, issued, timeouts, outcome>>
  BY DEF Post, driverVars
<1>3. command.serial \in Unfinished
  BY DEF Unfinished
<1>4. \A other \in inflight : other.serial = command.serial => other = command
  <2> SUFFICES ASSUME NEW other \in inflight, other.serial = command.serial
               PROVE  other = command
    OBVIOUS
  <2>1. other.cid = command.cid
    BY <1>1 DEF CidsFollowSerials, Stamped
  <2> QED BY <1>1, <2>1 DEF TypeOK, SubmissionQueueEntry
<1>5. \A i \in Between(sq_head, sq_doorbell) : sq[i].serial # command.serial
  BY <1>1 DEF SerialsUnique
<1>6. pc = "ring" => issued # command.serial
  BY <1>1 DEF SerialsUnique, Announced, TypeOK, SubmissionQueueEntry
<1>7. Between(sq_head, sq_doorbell)' = Between(sq_head, sq_doorbell)
  BY <1>2 DEF Between
<1>8. Unfinished' = Unfinished \ {command.serial}
  BY <1>2, <1>4, <1>5, <1>6, <1>7 DEF Unfinished
<1>9. Waiting' = Append(Waiting, command.serial)
  BY <1>1, PostAppends
<1> QED BY <1>2, <1>3, <1>8, <1>9 DEF Channel!Complete

\* submit_and_wait over the two rings implements the channel: completions come
\* back first in, first out, each for a command handed over and not answered
\* before, compared by cid only, and a command is lost only once QUEUE_DEPTH - 1
\* calls have timed out.
THEOREM ImplementsCommandChannel == Spec => ImplementsChannel
<1>1. Init => Channel!Init
  BY DEF Init, Channel!Init, Unfinished, Waiting, WaitingInRing, Between
<1>2. RefinementInvariant /\ [Next]_vars => [Channel!Next]_Channel!chanVars
  <2> SUFFICES ASSUME RefinementInvariant, [Next]_vars
               PROVE  [Channel!Next]_Channel!chanVars
    OBVIOUS
  <2>1. CASE WriteSubmissionEntry
    BY <2>1, WriteIssues DEF Channel!Next
  <2>2. CASE RingSubmissionDoorbell
    BY <2>2, RingStuttersOrLoses DEF Channel!Next
  <2>3. CASE PollAgain
    BY <2>3, PollStutters
  <2>4. CASE TimeOut
    BY <2>4, TimeOutGivesUp DEF Channel!Next
  <2>5. CASE TakeCompletion
    BY <2>5, TakeStutters
  <2>6. CASE Return
    BY <2>6, ReturnAnswers DEF Channel!Next
  <2>7. CASE Fetch
    BY <2>7, FetchStutters
  <2>8. ASSUME NEW command \in inflight, Post(command)
        PROVE  [Channel!Next]_Channel!chanVars
    BY <2>8, PostCompletes DEF Channel!Next
  <2>9. CASE UNCHANGED vars
    BY <2>9 DEF vars, Channel!chanVars, Unfinished, Waiting, WaitingInRing,
                Between, driverVars, controllerVars, historyVars
  <2> QED BY <2>1, <2>2, <2>3, <2>4, <2>5, <2>6, <2>7, <2>8, <2>9
          DEF Next, Driver, Controller
<1> QED BY <1>1, <1>2, RefinementInvariance, PTL
        DEF Spec, ImplementsChannel, Channel!Spec
=============================================================================
