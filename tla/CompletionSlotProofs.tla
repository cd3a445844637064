------------------------- MODULE CompletionSlotProofs -------------------------
(***************************************************************************)
(* No torn completion is ever used, for every number of laps and every     *)
(* word size of at least the four bytes that cid and status share.         *)
(***************************************************************************)
EXTENDS CompletionSlot, TLAPS

Tag == STATUS_OFFSET \div WORD_BYTES

TypeOK ==
  /\ slot \in [Words -> Int]
  /\ copy \in [Words -> Int]
  /\ posted \in Int
  /\ head_lap \in Nat \ {0}

Inv == TypeOK /\ TagInvariant /\ TakenWhole

\* cid and status are in one word of CompletionQueueEntry.
LEMMA OneWord == Tag \in Words /\ CID_OFFSET \div WORD_BYTES = Tag
<1>1. CASE WORD_BYTES = 4
  BY <1>1 DEF Tag, Words, CID_OFFSET, STATUS_OFFSET, ENTRY_BYTES
<1>2. CASE WORD_BYTES = 8
  BY <1>2 DEF Tag, Words, CID_OFFSET, STATUS_OFFSET, ENTRY_BYTES
<1>3. CASE WORD_BYTES = 16
  BY <1>3 DEF Tag, Words, CID_OFFSET, STATUS_OFFSET, ENTRY_BYTES
<1> QED
  BY <1>1, <1>2, <1>3, WordAssumption

\* What TagInvariant says of the word with the phase tag.
LEMMA TagFacts ==
  TagInvariant <=>
    /\ slot[Tag] \in {posted - 1, posted}
    /\ slot[Tag] \in {head_lap - 1, head_lap}
    /\ posted \in {head_lap - 1, head_lap}
    /\ copy[Tag] \in {NotRead, head_lap - 1, head_lap}
    /\ copy[Tag] <= slot[Tag]
  BY DEF TagInvariant, Tag

\* The parities of two consecutive laps differ.
LEMMA Parity == ASSUME NEW n \in Nat PROVE n % 2 # (n + 1) % 2
  OBVIOUS

LEMMA InitEstablishes == Init => Inv
<1> SUFFICES ASSUME Init PROVE Inv
  OBVIOUS
<1>1. TypeOK
  BY DEF Init, TypeOK, NothingRead, NotRead
<1>2. slot[Tag] = 0 /\ copy[Tag] = NotRead
  BY OneWord DEF Init, NothingRead
<1>3. TagInvariant
  BY <1>2, TagFacts DEF Init, NotRead
<1>4. TakenWhole
  BY DEF Init, TakenWhole
<1> QED
  BY <1>1, <1>3, <1>4 DEF Inv

\* A copy whose tag matches is of the lap awaited.
LEMMA MatchIsNew ==
  ASSUME Inv, Copied, PhaseMatches
  PROVE  copy[Tag] = head_lap
<1>1. copy[Tag] \in {head_lap - 1, head_lap}
  BY OneWord, TagFacts DEF Inv, Copied
<1>2. copy[Tag] % 2 = head_lap % 2
  BY DEF PhaseMatches, Field, Tag
<1>3. head_lap - 1 \in Nat /\ head_lap = (head_lap - 1) + 1
  BY DEF Inv, TypeOK
<1>4. (head_lap - 1) % 2 # head_lap % 2
  BY <1>3, Parity
<1> QED
  BY <1>1, <1>2, <1>4

LEMMA StepPreserves == Inv /\ [Next]_vars => Inv'
<1> SUFFICES ASSUME Inv, [Next]_vars PROVE Inv'
  OBVIOUS
<1> USE DEF NotRead
<1>0. /\ TypeOK /\ TakenWhole
      /\ slot[Tag] \in {posted - 1, posted}
      /\ slot[Tag] \in {head_lap - 1, head_lap}
      /\ posted \in {head_lap - 1, head_lap}
      /\ copy[Tag] \in {NotRead, head_lap - 1, head_lap}
      /\ copy[Tag] <= slot[Tag]
      /\ slot[Tag] \in Int /\ copy[Tag] \in Int
  BY TagFacts, OneWord DEF Inv, TypeOK
<1>f. (TagInvariant)' <=>
        /\ slot'[Tag] \in {posted' - 1, posted'}
        /\ slot'[Tag] \in {head_lap' - 1, head_lap'}
        /\ posted' \in {head_lap' - 1, head_lap'}
        /\ copy'[Tag] \in {NotRead, head_lap' - 1, head_lap'}
        /\ copy'[Tag] <= slot'[Tag]
  BY DEF TagInvariant, Tag
<1>1. CASE StartPost
  <2>1. TypeOK' /\ TakenWhole'
    BY <1>0, <1>1 DEF StartPost, TypeOK, TakenWhole
  <2>2. slot[Tag] = posted /\ posted < head_lap
    BY <1>1, OneWord DEF StartPost
  <2>3. TagInvariant'
    BY <1>0, <1>1, <1>f, <2>2 DEF StartPost, TypeOK
  <2> QED
    BY <2>1, <2>3 DEF Inv
<1>2. ASSUME NEW w \in Words, WriteWord(w) PROVE Inv'
  <2>1. TypeOK' /\ TakenWhole'
    BY <1>0, <1>2 DEF WriteWord, TypeOK, TakenWhole
  <2>2. slot'[Tag] \in {slot[Tag], posted}
    BY <1>0, <1>2, OneWord DEF WriteWord, TypeOK
  <2>3. TagInvariant'
    BY <1>0, <1>2, <1>f, <2>2 DEF WriteWord, TypeOK
  <2> QED
    BY <2>1, <2>3 DEF Inv
<1>3. ASSUME NEW w \in Words, ReadWord(w) PROVE Inv'
  <2>1. TypeOK' /\ TakenWhole'
    BY <1>0, <1>3 DEF ReadWord, TypeOK, TakenWhole
  <2>2. copy'[Tag] \in {copy[Tag], slot[Tag]}
    BY <1>0, <1>3, OneWord DEF ReadWord, TypeOK
  <2>3. TagInvariant'
    BY <1>0, <1>3, <1>f, <2>2 DEF ReadWord, TypeOK
  <2> QED
    BY <2>1, <2>3 DEF Inv
<1>4. CASE PollAgain
  <2>1. TypeOK' /\ TakenWhole'
    BY <1>0, <1>4 DEF PollAgain, TypeOK, TakenWhole, NothingRead
  <2>2. copy'[Tag] = NotRead
    BY <1>4, OneWord DEF PollAgain, NothingRead
  <2>3. -1 <= slot[Tag]
    BY <1>0 DEF TypeOK
  <2>4. TagInvariant'
    BY <1>0, <1>4, <1>f, <2>2, <2>3 DEF PollAgain, TypeOK
  <2> QED
    BY <2>1, <2>4 DEF Inv
<1>5. CASE Accept
  <2>1. copy[Tag] = head_lap
    BY <1>5, MatchIsNew DEF Accept
  <2>2. slot[Tag] = head_lap /\ posted = head_lap
    BY <1>0, <2>1 DEF TypeOK
  <2>3. TypeOK'
    BY <1>0, <1>5 DEF Accept, TypeOK, NothingRead
  <2>4. TakenWhole'
    BY <1>0, <1>5, <2>1, OneWord
       DEF Accept, TypeOK, TakenWhole, Field, Tag
  <2>5. copy'[Tag] = NotRead
    BY <1>5, OneWord DEF Accept, NothingRead
  <2>6. TagInvariant'
    BY <1>0, <1>5, <1>f, <2>2, <2>5 DEF Accept, TypeOK
  <2> QED
    BY <2>3, <2>4, <2>6 DEF Inv
<1>6. CASE UNCHANGED vars
  BY <1>0, <1>6, <1>f DEF vars, Inv, TypeOK, TakenWhole
<1> QED
  BY <1>1, <1>2, <1>3, <1>4, <1>5, <1>6 DEF Next

\* The word with the phase tag is always of the lap awaited or the one before, in
\* memory and in the copy read_volatile makes.
THEOREM TagIsRecent == Spec => []TagInvariant
<1>1. Inv => TagInvariant
  BY DEF Inv
<1> QED
  BY <1>1, InitEstablishes, StepPreserves, PTL DEF Spec

\* cid and status submit_and_wait uses are those of the entry it waited for.
THEOREM NeverTorn == Spec => []TakenWhole
<1>1. Inv => TakenWhole
  BY DEF Inv
<1> QED
  BY <1>1, InitEstablishes, StepPreserves, PTL DEF Spec
=============================================================================
