--------------------------- MODULE FileBlocksProofs ---------------------------
(***************************************************************************)
(* Proofs about FileBlocks and BlockMap.  check accepts exactly the ranges *)
(* that lie in the file, for every list of extents and every width of the  *)
(* numbers; and the list that parse gives it is the beginning of one map,  *)
(* for every set of maps and however their file is truncated and rewritten *)
(* while it is loaded and used.                                            *)
(***************************************************************************)
EXTENDS BlockMap, SequenceTheorems, TLAPS

\* An extent holds a block, by the wrapping sum, when and only when the block is
\* below an end that did not wrap.
LEMMA HoldsIs ==
  ASSUME NEW e \in Extent, NEW lba \in Lbas
  PROVE  /\ Holds(e, lba) <=> /\ e.device_lba <= lba
                              /\ lba < e.device_lba + e.lba_count
                              /\ e.device_lba + e.lba_count < U64
         /\ Holds(e, lba) => EndOf(e) = e.device_lba + e.lba_count
<1> DEFINE a == e.device_lba
           b == e.lba_count
<1>1. a \in Lbas /\ b \in Lbas
  BY DEF Extent
<1>2. EndOf(e) = (a + b) % U64
  BY DEF EndOf
<1> HIDE DEF a, b
<1>3. a + b \in 0 .. 2 * U64 - 1
  BY <1>1, U64Assumption DEF Lbas
<1>4. EndOf(e) = IF a + b < U64 THEN a + b ELSE (a + b) - U64
  <2>1. (a + b) % U64 = IF a + b < U64 THEN a + b ELSE (a + b) - U64
    <3> DEFINE n == a + b
    <3>1. n \in 0 .. 2 * U64 - 1
      BY <1>3
    <3> HIDE DEF n
    <3>2. n % U64 = IF n < U64 THEN n ELSE n - U64
      BY <3>1, U64Assumption
    <3> QED BY <3>2 DEF n
  <2> QED BY <1>2, <2>1
<1>5. Holds(e, lba) <=> lba >= a /\ lba < EndOf(e)
  BY DEF Holds, a
<1>6. /\ Holds(e, lba) <=> a <= lba /\ lba < a + b /\ a + b < U64
      /\ Holds(e, lba) => EndOf(e) = a + b
  BY <1>1, <1>4, <1>5, U64Assumption DEF Lbas
<1> QED BY <1>6 DEF a, b

\* InFile, extent by extent, is what find looks for.
LEMMA InFileIs ==
  ASSUME extents \in Seq(Extent), NEW lba \in Lbas
  PROVE  InFile(lba) <=> \E i \in DOMAIN extents : Holds(extents[i], lba)
<1>1. \A i \in DOMAIN extents : extents[i] \in Extent
  OBVIOUS
<1> QED BY <1>1, HoldsIs DEF InFile

\* The walk starts with nothing behind it.
LEMMA InitWalk == Init => WalkInvariant
<1> SUFFICES ASSUME Init
             PROVE  WalkInvariant
  OBVIOUS
<1>1. extents \in Seq(Extent)
  <2>1. PICK n \in 0 .. MaxExtents : extents \in [1 .. n -> Extent]
    BY DEF Init, Files
  <2>2. n \in Nat
    BY MaxExtentsAssumption
  <2> QED BY <2>1, <2>2
<1> QED BY <1>1, U64Assumption
        DEF Init, WalkInvariant, TypeOK, AcceptsOnlyTheFile, RefusesOnlyOthers,
            Lbas

\* Every step of check keeps the blocks behind the walk part of the file.
LEMMA WalkStep == WalkInvariant /\ [Next]_vars => WalkInvariant'
<1> SUFFICES ASSUME WalkInvariant, [Next]_vars
             PROVE  WalkInvariant'
  OBVIOUS
<1>0. TypeOK /\ U64 \in Nat \ {0}
  BY U64Assumption DEF WalkInvariant
<1>1. CASE NothingAsked
  <2>1. Asked = {}
    BY <1>0, <1>1 DEF NothingAsked, Asked, TypeOK, Lbas
  <2> QED BY <1>0, <1>1, <2>1
          DEF NothingAsked, Return, WalkInvariant, TypeOK, AcceptsOnlyTheFile,
              RefusesOnlyOthers, Asked
<1>2. CASE RangeOverflows
  <2>1. PICK lba \in Asked : lba >= U64 - 1
    <3>1. /\ device_lba + count - 1 \in Asked
          /\ device_lba + count - 1 >= U64 - 1
      BY <1>0, <1>2 DEF RangeOverflows, Asked, TypeOK, Lbas
    <3> QED BY <3>1
  <2>2. ~InFile(lba)
    <3>1. lba \in Int
      BY <1>0, <2>1 DEF Asked, TypeOK, Lbas
    <3>2. ASSUME NEW i \in DOMAIN extents
          PROVE  /\ extents[i].device_lba \in Int
                 /\ extents[i].lba_count \in Int
      <4>1. extents[i] \in Extent
        BY <1>0 DEF TypeOK
      <4> QED BY <4>1 DEF Extent, Lbas
    <3> QED BY <1>0, <2>1, <3>1, <3>2 DEF InFile
  <2>3. InFile(lba)' <=> InFile(lba)
    BY <1>2 DEF RangeOverflows, Return, InFile
  <2> QED BY <1>0, <1>2, <2>1, <2>2, <2>3
          DEF RangeOverflows, Return, WalkInvariant, TypeOK,
              AcceptsOnlyTheFile, RefusesOnlyOthers, Asked
<1>3. CASE Start
  BY <1>0, <1>3 DEF Start, WalkInvariant, TypeOK, AcceptsOnlyTheFile,
                    RefusesOnlyOthers, Lbas
<1>4. ASSUME NEW i \in DOMAIN extents, Advance(i)
      PROVE  WalkInvariant'
  <2> DEFINE e == extents[i]
  <2>1. e \in Extent /\ Holds(e, covered) /\ covered \in Lbas
    BY <1>0, <1>4 DEF TypeOK, Advance, Found
  <2>2. /\ e.device_lba <= covered
        /\ covered < EndOf(e) /\ EndOf(e) < U64
        /\ EndOf(e) = e.device_lba + e.lba_count
    BY <2>1, HoldsIs
  <2>3. e.device_lba \in Lbas /\ e.lba_count \in Lbas
    BY <2>1 DEF Extent
  <2>4. EndOf(e) \in Lbas
    BY <1>0, <2>2, <2>3 DEF Lbas
  <2>5. ASSUME NEW lba \in device_lba .. EndOf(e) - 1
        PROVE  InFile(lba)
    <3>1. CASE lba < covered
      BY <1>0, <1>4, <2>1, <2>4, <3>1
      DEF WalkInvariant, Advance, TypeOK, Lbas
    <3>2. CASE lba >= covered
      <4>1. /\ e.device_lba <= lba /\ lba < e.device_lba + e.lba_count
            /\ e.device_lba + e.lba_count < U64
        BY <1>0, <2>1, <2>2, <2>3, <2>4, <3>2 DEF TypeOK, Lbas
      <4> QED BY <4>1 DEF InFile
    <3> QED BY <1>0, <2>1, <2>4, <3>1, <3>2 DEF TypeOK, Lbas
  <2>6. \A lba : InFile(lba)' <=> InFile(lba)
    BY <1>4 DEF Advance, InFile
  <2>7. covered' = EndOf(e) /\ UNCHANGED <<extents, device_lba, count, end, pc,
                                           verdict>>
    BY <1>4 DEF Advance
  <2>8. count # 0 /\ end = device_lba + count /\ device_lba <= covered
        /\ pc = "walk" /\ verdict = "none"
    BY <1>4 DEF Advance, WalkInvariant
  <2>9. device_lba <= EndOf(e)
    BY <1>0, <2>1, <2>2, <2>4, <2>8 DEF TypeOK, Lbas
  <2> HIDE DEF e
  <2> QED BY <1>0, <2>4, <2>5, <2>6, <2>7, <2>8, <2>9
          DEF WalkInvariant, TypeOK, AcceptsOnlyTheFile, RefusesOnlyOthers
<1>5. CASE NotPartOfFile
  <2>1. ~InFile(covered)
    BY <1>0, <1>5, InFileIs DEF NotPartOfFile, TypeOK
  <2>2. covered \in Asked
    BY <1>0, <1>5 DEF NotPartOfFile, WalkInvariant, Asked, TypeOK, Lbas
  <2>3. InFile(covered)' <=> InFile(covered)
    BY <1>5 DEF NotPartOfFile, Return, InFile
  <2> QED BY <1>0, <1>5, <2>1, <2>2, <2>3
          DEF NotPartOfFile, Return, WalkInvariant, TypeOK, AcceptsOnlyTheFile,
              RefusesOnlyOthers, Asked
<1>6. CASE AllCovered
  <2>1. \A lba \in Asked : lba \in device_lba .. covered - 1
    BY <1>0, <1>6 DEF AllCovered, WalkInvariant, Asked, TypeOK, Lbas
  <2>2. \A lba \in Asked : InFile(lba)
    BY <1>6, <2>1 DEF AllCovered, WalkInvariant
  <2>3. \A lba : InFile(lba)' <=> InFile(lba)
    BY <1>6 DEF AllCovered, Return, InFile
  <2> QED BY <1>0, <1>6, <2>2, <2>3
          DEF AllCovered, Return, WalkInvariant, TypeOK, AcceptsOnlyTheFile,
              RefusesOnlyOthers, Asked
<1>7. CASE UNCHANGED vars
  BY <1>0, <1>7 DEF vars, WalkInvariant, TypeOK, AcceptsOnlyTheFile,
                    RefusesOnlyOthers, Asked, InFile
<1> QED BY <1>1, <1>2, <1>3, <1>4, <1>5, <1>6, <1>7 DEF Next

\* The walk of check: everything behind it is part of the file.
THEOREM WalkIsCorrect == Spec => []WalkInvariant
BY InitWalk, WalkStep, PTL DEF Spec

\* check never accepts a range that leaves the file.
THEOREM CheckIsSound == Spec => []AcceptsOnlyTheFile
BY InitWalk, WalkStep, PTL DEF Spec, WalkInvariant

\* check never refuses a range that lies in the file.
THEOREM CheckIsComplete == Spec => []RefusesOnlyOthers
BY InitWalk, WalkStep, PTL DEF Spec, WalkInvariant

------------------------------------------------------------------------------
(* BlockMap *)

\* The lines of a map, one by one.
LEMMA LinesAre ==
  ASSUME NEW m \in Maps
  PROVE  /\ m.lba_size \in Lbas /\ m.extents \in Seq(Lbas \X Lbas \X {0, 1})
         /\ LinesOf(m) \in Seq(Seq(Int))
         /\ Len(LinesOf(m)) = Len(m.extents) + 2
         /\ LinesOf(m)[1] = <<HEADER, 1>>
         /\ LinesOf(m)[2] = <<SIZE_KEY, m.lba_size>>
         /\ \A i \in 1 .. Len(m.extents) : LinesOf(m)[i + 2] = m.extents[i]
<1> DEFINE head == <<<<HEADER, 1>>, <<SIZE_KEY, m.lba_size>>>>
<1>1. m.lba_size \in Lbas /\ m.extents \in Seq(Lbas \X Lbas \X {0, 1})
  BY MapsAssumption
<1>2. head \in Seq(Seq(Int)) /\ Len(head) = 2 /\ head[1] = <<HEADER, 1>>
      /\ head[2] = <<SIZE_KEY, m.lba_size>>
  <2>1. HEADER \in Int /\ SIZE_KEY \in Int /\ m.lba_size \in Int
    BY <1>1, U64Assumption DEF HEADER, SIZE_KEY, Lbas
  <2> QED BY <2>1
<1>3. m.extents \in Seq(Seq(Int))
  <2>1. ASSUME NEW x \in Lbas \X Lbas \X {0, 1}
        PROVE  x \in Seq(Int)
    <3>1. x = <<x[1], x[2], x[3]>> /\ x[1] \in Int /\ x[2] \in Int /\ x[3] \in Int
      BY U64Assumption DEF Lbas
    <3>2. \A a, b, c \in Int : <<a, b, c>> \in Seq(Int)
      OBVIOUS
    <3>3. <<x[1], x[2], x[3]>> \in Seq(Int)
      BY <3>1, <3>2
    <3> QED BY <3>1, <3>3 , Zenon
  <2> QED BY <1>1, <2>1
<1>4. LinesOf(m) = head \o m.extents
  BY DEF LinesOf
<1> DEFINE tail == m.extents
<1>5. tail \in Seq(Seq(Int))
  BY <1>3
<1>6. /\ LinesOf(m) = head \o tail
      /\ Len(tail) = Len(m.extents)
      /\ \A i \in 1 .. Len(tail) : tail[i] = m.extents[i]
  BY <1>4
<1> HIDE DEF head, tail
<1>7. /\ head \o tail \in Seq(Seq(Int))
      /\ Len(head \o tail) = Len(head) + Len(tail)
      /\ \A i \in 1 .. Len(head) + Len(tail) :
           (head \o tail)[i] = IF i <= Len(head) THEN head[i] ELSE tail[i - Len(head)]
  BY <1>2, <1>5, ConcatProperties
<1>8. Len(tail) \in Nat
  BY <1>5
<1>9. ASSUME NEW i \in 1 .. Len(tail)
      PROVE  LinesOf(m)[i + 2] = m.extents[i]
  <2>1. /\ i + 2 \in 1 .. Len(head) + Len(tail)
        /\ ~(i + 2 <= Len(head)) /\ (i + 2) - Len(head) = i
    BY <1>2, <1>8
  <2>2. (head \o tail)[i + 2] = tail[i]
    BY <1>7, <2>1
  <2> QED BY <1>6, <2>2
<1>10. LinesOf(m)[1] = head[1] /\ LinesOf(m)[2] = head[2]
  <2>1. 1 \in 1 .. Len(head) + Len(tail) /\ 2 \in 1 .. Len(head) + Len(tail)
    BY <1>2, <1>8
  <2> QED BY <1>2, <1>6, <1>7, <2>1
<1>11. LinesOf(m) \in Seq(Seq(Int)) /\ Len(LinesOf(m)) = Len(m.extents) + 2
  <2>1. Len(head) + Len(tail) = Len(tail) + 2
    BY <1>2, <1>8
  <2> QED BY <1>6, <1>7, <2>1
<1>12. \A i \in 1 .. Len(m.extents) : LinesOf(m)[i + 2] = m.extents[i]
  BY <1>6, <1>9
<1> QED BY <1>1, <1>2, <1>10, <1>11, <1>12

\* Lines are told apart by how many fields they have.
LEMMA OtherLength ==
  ASSUME NEW c
  PROVE  /\ Len(c) # 0 => c # << >>
         /\ Len(c) # 2 => c # <<HEADER, 1>>
<1>1. Len(<< >>) = 0
  OBVIOUS
<1>2. Len(<<HEADER, 1>>) = 2
  BY DEF HEADER
<1> QED BY <1>1, <1>2, Zenon

\* An extent's line is parsed as an extent, the others as what they are.
LEMMA KindsAre ==
  /\ IsIgnored(<< >>) /\ IsIgnored(<<HEADER, 1>>)
  /\ \A v \in Lbas : /\ IsSize(<<SIZE_KEY, v>>)
                     /\ ~IsIgnored(<<SIZE_KEY, v>>) /\ ~IsExtent(<<SIZE_KEY, v>>)
  /\ ~IsSize(<< >>) /\ ~IsSize(<<HEADER, 1>>)
  /\ ~IsExtent(<< >>) /\ ~IsExtent(<<HEADER, 1>>)
  /\ \A x \in Lbas \X Lbas \X {0, 1} :
       IsExtent(x) /\ ~IsIgnored(x) /\ ~IsSize(x) /\ ExtentOf(x) \in Extent
<1>1. IsIgnored(<< >>) /\ IsIgnored(<<HEADER, 1>>)
  BY DEF IsIgnored
<1>2. ASSUME NEW v \in Lbas
      PROVE  /\ IsSize(<<SIZE_KEY, v>>)
             /\ ~IsIgnored(<<SIZE_KEY, v>>) /\ ~IsExtent(<<SIZE_KEY, v>>)
  BY DEF IsIgnored, IsSize, IsExtent, HEADER, SIZE_KEY
<1>3. /\ ~IsSize(<< >>) /\ ~IsSize(<<HEADER, 1>>)
      /\ ~IsExtent(<< >>) /\ ~IsExtent(<<HEADER, 1>>)
  BY DEF IsSize, IsExtent, HEADER, SIZE_KEY
<1>4. ASSUME NEW x \in Lbas \X Lbas \X {0, 1}
      PROVE  IsExtent(x) /\ ~IsIgnored(x) /\ ~IsSize(x) /\ ExtentOf(x) \in Extent
  <2>1. /\ x = <<x[1], x[2], x[3]>>
        /\ x[1] \in Lbas /\ x[2] \in Lbas /\ x[3] \in {0, 1}
    OBVIOUS
  <2>2. Len(x) = 3
    BY <2>1
  <2>3. x # << >> /\ x # <<HEADER, 1>>
    <3>1. Len(x) # 0 /\ Len(x) # 2
      BY <2>2
    <3> QED BY <3>1, OtherLength
  <2> QED BY <2>1, <2>2, <2>3 DEF IsExtent, IsIgnored, IsSize, ExtentOf, Extent
<1> QED BY <1>1, <1>2, <1>3, <1>4

\* A line that is cut in field n has the fields before it.
LEMMA CutIs ==
  ASSUME NEW line \in Seq(Int), NEW c \in CutsOf(line)
  PROVE  /\ c # line
         /\ \E n \in 1 .. Len(line) :
              /\ c \in [1 .. n -> Int \cup {c[n]}]
              /\ Len(c) = n
              /\ \A i \in 1 .. n - 1 : c[i] = line[i]
              /\ c[n] \in PartsOf(line[n])
<1>1. PICK n \in 1 .. Len(line) : \E part \in PartsOf(line[n]) :
             c = Append(SubSeq(line, 1, n - 1), part)
  <2>1. \E n \in DOMAIN line : \E part \in PartsOf(line[n]) :
             c = Append(SubSeq(line, 1, n - 1), part)
    <3> DEFINE cuts(n) ==
                 {Append(SubSeq(line, 1, n - 1), part) : part \in PartsOf(line[n])}
    <3>1. c \in UNION {cuts(n) : n \in DOMAIN line}
      BY DEF CutsOf
    <3>2. PICK n \in DOMAIN line : c \in cuts(n)
      BY <3>1, Zenon
    <3>3. \E part \in PartsOf(line[n]) : c = Append(SubSeq(line, 1, n - 1), part)
      BY <3>2
    <3> QED BY <3>3, Zenon
  <2>2. DOMAIN line = 1 .. Len(line)
    OBVIOUS
  <2> QED BY <2>1, <2>2, Zenon
<1>2. PICK part \in PartsOf(line[n]) : c = Append(SubSeq(line, 1, n - 1), part)
  BY <1>1
<1> DEFINE T == Int \cup {part}
           s == SubSeq(line, 1, n - 1)
<1>3. s \in Seq(T) /\ Len(s) = n - 1 /\ \A i \in 1 .. n - 1 : s[i] = line[i]
  <2>1. line \in Seq(T)
    OBVIOUS
  <2>2. 1 \in 1 .. Len(line) + 1 /\ n - 1 \in (1 - 1) .. Len(line)
    OBVIOUS
  <2> QED OBVIOUS
<1>4. c = Append(s, part) /\ part \in T
  BY <1>2
<1> HIDE DEF T, s
<1>5. c \in Seq(T) /\ Len(c) = n /\ c[n] = part /\ \A i \in 1 .. n - 1 : c[i] = line[i]
  BY <1>3, <1>4
<1>6. T = Int \cup {c[n]}
  BY <1>5 DEF T
<1>7. c # line
  BY Zenon DEF CutsOf
<1>8. c \in [1 .. n -> Int \cup {c[n]}]
  BY <1>5, <1>6
<1>9. c[n] \in PartsOf(line[n])
  BY <1>2, <1>5
<1> QED BY <1>1, <1>5, <1>7, <1>8, <1>9

\* One field alone is no line.
LEMMA OneFieldIs ==
  ASSUME NEW c, Len(c) = 1
  PROVE  ~IsIgnored(c) /\ ~IsSize(c) /\ ~IsExtent(c)
<1>1. Len(c) # 0 /\ Len(c) # 2 /\ Len(c) # 3
  OBVIOUS
<1>2. c # << >> /\ c # <<HEADER, 1>>
  BY <1>1, OtherLength, Zenon
<1> QED BY <1>1, <1>2, Zenon DEF IsIgnored, IsSize, IsExtent

\* A cut line is never parsed as what it was meant to be, but for a number of
\* device_lba_size that lacks digits.
LEMMA CutsAre ==
  /\ \A c \in CutsOf(<<HEADER, 1>>) : ~IsIgnored(c) /\ ~IsSize(c) /\ ~IsExtent(c)
  /\ \A v \in Lbas : \A c \in CutsOf(<<SIZE_KEY, v>>) : ~IsIgnored(c) /\ ~IsExtent(c)
  /\ \A x \in Lbas \X Lbas \X {0, 1} : \A c \in CutsOf(x) :
       ~IsIgnored(c) /\ ~IsSize(c) /\ ~IsExtent(c)
<1>1. PartsOf(0) = {0} /\ PartsOf(1) = {1}
  BY DEF PartsOf
<1>2. ASSUME NEW c \in CutsOf(<<HEADER, 1>>)
      PROVE  ~IsIgnored(c) /\ ~IsSize(c) /\ ~IsExtent(c)
  <2> DEFINE line == <<HEADER, 1>>
  <2>1. line \in Seq(Int) /\ Len(line) = 2 /\ line[2] = 1 /\ line[1] = HEADER
    BY DEF HEADER
  <2> HIDE DEF line
  <2>2. PICK n \in 1 .. Len(line) :
              /\ c \in [1 .. n -> Int \cup {c[n]}]
              /\ Len(c) = n
              /\ \A i \in 1 .. n - 1 : c[i] = line[i]
              /\ c[n] \in PartsOf(line[n])
    BY <2>1, CutIs DEF line
  <2>3. CASE n = 1
    BY <2>2, <2>3, OneFieldIs
  <2>4. CASE n = 2
    <3>1. c[1] = HEADER /\ c[2] = 1
      BY <1>1, <2>1, <2>2, <2>4
    <3>2. c = <<HEADER, 1>>
      BY <2>2, <2>4, <3>1
    <3> QED BY <2>1, <3>2, CutIs DEF line
  <2> QED BY <2>1, <2>2, <2>3, <2>4
<1>3. ASSUME NEW v \in Lbas, NEW c \in CutsOf(<<SIZE_KEY, v>>)
      PROVE  ~IsIgnored(c) /\ ~IsExtent(c)
  <2> DEFINE line == <<SIZE_KEY, v>>
  <2>1. line \in Seq(Int) /\ Len(line) = 2 /\ line[1] = SIZE_KEY
    BY U64Assumption DEF SIZE_KEY, Lbas
  <2> HIDE DEF line
  <2>2. PICK n \in 1 .. Len(line) :
              /\ Len(c) = n
              /\ \A i \in 1 .. n - 1 : c[i] = line[i]
    BY <2>1, CutIs DEF line
  <2>3. CASE n = 1
    BY <2>2, <2>3, OneFieldIs
  <2>4. CASE n = 2
    <3>1. c[1] = SIZE_KEY /\ Len(c) = 2
      BY <2>1, <2>2, <2>4
    <3>2. c # << >> /\ c # <<HEADER, 1>>
      BY <3>1 DEF HEADER, SIZE_KEY
    <3> QED BY <3>1, <3>2 DEF IsIgnored, IsExtent
  <2> QED BY <2>1, <2>2, <2>3, <2>4
<1>4. ASSUME NEW x \in Lbas \X Lbas \X {0, 1}, NEW c \in CutsOf(x)
      PROVE  ~IsIgnored(c) /\ ~IsSize(c) /\ ~IsExtent(c)
  <2>1. /\ x = <<x[1], x[2], x[3]>>
        /\ x[1] \in Lbas /\ x[2] \in Lbas /\ x[3] \in {0, 1}
    OBVIOUS
  <2>2. x \in Seq(Int) /\ Len(x) = 3
    <3>1. \A a, b, d \in Int : <<a, b, d>> \in Seq(Int) /\ Len(<<a, b, d>>) = 3
      OBVIOUS
    <3>2. x[1] \in Int /\ x[2] \in Int /\ x[3] \in Int
      BY <2>1, U64Assumption DEF Lbas
    <3>3. <<x[1], x[2], x[3]>> \in Seq(Int) /\ Len(<<x[1], x[2], x[3]>>) = 3
      BY <3>1, <3>2
    <3> QED BY <2>1, <3>3, Zenon
  <2>3. PICK n \in 1 .. Len(x) :
              /\ c \in [1 .. n -> Int \cup {c[n]}]
              /\ Len(c) = n
              /\ \A i \in 1 .. n - 1 : c[i] = x[i]
              /\ c[n] \in PartsOf(x[n])
    BY <2>2, CutIs
  <2>4. CASE n = 1
    BY <2>3, <2>4, OneFieldIs
  <2>5. CASE n = 2
    <3>1. c[1] \in Lbas /\ Len(c) = 2
      BY <2>1, <2>3, <2>5
    <3>2. c[1] # HEADER /\ c[1] # SIZE_KEY
      BY <3>1, U64Assumption DEF HEADER, SIZE_KEY, Lbas
    <3>3. c # << >>
      <4>1. Len(c) # 0
        BY <3>1
      <4> QED BY <4>1, OtherLength
    <3>4. c # <<HEADER, 1>>
      <4>1. <<HEADER, 1>>[1] = HEADER
        BY DEF HEADER
      <4> QED BY <3>2, <4>1, Zenon
    <3> QED BY <3>1, <3>2, <3>3, <3>4 DEF IsIgnored, IsSize, IsExtent
  <2>6. CASE n = 3
    <3>1. c[1] = x[1] /\ c[2] = x[2] /\ c[3] = x[3]
      BY <1>1, <2>1, <2>3, <2>6
    <3>2. c = <<c[1], c[2], c[3]>>
      BY <2>3, <2>6
    <3>3. c = x
      BY <2>1, <3>1, <3>2, Zenon
    <3> QED BY <2>2, <3>3, CutIs
  <2> QED BY <2>2, <2>3, <2>4, <2>5, <2>6
<1> QED BY <1>2, <1>3, <1>4

\* The extents of a map, one by one.
LEMMA ExtentsAre ==
  ASSUME NEW m \in Maps
  PROVE  /\ ExtentsOf(m) \in Seq(Extent)
         /\ Len(ExtentsOf(m)) = Len(m.extents)
         /\ \A i \in 1 .. Len(m.extents) : ExtentsOf(m)[i] = ExtentOf(m.extents[i])
<1>1. m.extents \in Seq(Lbas \X Lbas \X {0, 1})
  BY LinesAre
<1>2. DOMAIN m.extents = 1 .. Len(m.extents) /\ Len(m.extents) \in Nat
  BY <1>1
<1>3. \A i \in 1 .. Len(m.extents) : ExtentOf(m.extents[i]) \in Extent
  BY <1>1, KindsAre
<1>4. ExtentsOf(m) = [i \in 1 .. Len(m.extents) |-> ExtentOf(m.extents[i])]
  BY <1>2 DEF ExtentsOf
<1>5. ExtentsOf(m) \in [1 .. Len(m.extents) -> Extent]
  BY <1>3, <1>4
<1> QED BY <1>2, <1>4, <1>5

\* A prefix grows by the next element.
LEMMA PrefixGrows ==
  ASSUME NEW S, NEW s \in Seq(S), NEW n \in 0 .. Len(s) - 1
  PROVE  Append(SubSeq(s, 1, n), s[n + 1]) = SubSeq(s, 1, n + 1)
<1> DEFINE a == Append(SubSeq(s, 1, n), s[n + 1])
           b == SubSeq(s, 1, n + 1)
<1>1. a \in Seq(S) /\ Len(a) = n + 1 /\ \A i \in 1 .. n + 1 : a[i] = s[i]
  <2>1. SubSeq(s, 1, n) \in Seq(S) /\ Len(SubSeq(s, 1, n)) = n
        /\ \A i \in 1 .. n : SubSeq(s, 1, n)[i] = s[i]
    OBVIOUS
  <2>2. s[n + 1] \in S
    OBVIOUS
  <2> QED BY <2>1, <2>2
<1>2. b \in Seq(S) /\ Len(b) = n + 1 /\ \A i \in 1 .. n + 1 : b[i] = s[i]
  OBVIOUS
<1> HIDE DEF a, b
<1>3. a = b
  BY <1>1, <1>2, SeqEqual
<1> QED BY <1>3 DEF a, b

\* What is loaded: the lines that are complete, and the part after them.
LEMMA TextIs ==
  ASSUME NEW m \in Maps, NEW w \in 0 .. Len(LinesOf(m)),
         NEW c \in PartAfter(m, w)
  PROVE  /\ TextOf(m, w, c) \in Seq(Seq(Int) \cup {c})
         /\ Len(TextOf(m, w, c)) = w + 1
         /\ \A i \in 1 .. w : TextOf(m, w, c)[i] = LinesOf(m)[i]
         /\ TextOf(m, w, c)[w + 1] = c
<1> DEFINE T == Seq(Int) \cup {c}
           L == LinesOf(m)
           s == SubSeq(L, 1, w)
<1>1. L \in Seq(T)
  <2>1. L \in Seq(Seq(Int)) BY LinesAre
  <2>2. \A i \in 1 .. Len(L) : L[i] \in T
    BY <2>1
  <2>3. L \in [1 .. Len(L) -> T] /\ Len(L) \in Nat
    BY <2>1, <2>2
  <2> QED BY <2>3
<1>2. c \in T
  OBVIOUS
<1>3. TextOf(m, w, c) = Append(s, c) /\ w \in 0 .. Len(L)
  BY DEF TextOf
<1> HIDE DEF T, L
<1>4. s \in Seq(T) /\ Len(s) = w /\ \A i \in 1 .. w : s[i] = L[i]
  BY <1>1, <1>3
<1> HIDE DEF s
<1>5. Append(s, c) \in Seq(T) /\ Len(Append(s, c)) = w + 1 /\ Append(s, c)[w + 1] = c
      /\ \A i \in 1 .. w : Append(s, c)[i] = s[i]
  BY <1>2, <1>4, AppendProperties
<1> QED BY <1>3, <1>4, <1>5 DEF T, L

\* What a line may be of which k are parsed before it.
Kind(m, w, k, line) ==
  \/ /\ IsIgnored(line) /\ ~IsSize(line) /\ ~IsExtent(line)
     /\ k = 0 \/ k = w
  \/ /\ ~IsIgnored(line) /\ ~IsExtent(line)
     /\ k = 1
     /\ k < w => IsSize(line) /\ line[2] = m.lba_size
     /\ k = w => w < Len(LinesOf(m))
  \/ /\ ~IsIgnored(line) /\ ~IsSize(line) /\ IsExtent(line)
     /\ k >= 2 /\ k < w /\ k - 1 \in 1 .. Len(m.extents)
     /\ ExtentOf(line) = ExtentsOf(m)[k - 1]
  \/ /\ ~IsIgnored(line) /\ ~IsSize(line) /\ ~IsExtent(line)
     /\ k = w /\ w < Len(LinesOf(m))

\* What is parsed next, line by line.
LEMMA LineIs ==
  ASSUME NEW m \in Maps, NEW w \in 0 .. Len(LinesOf(m)), NEW c \in PartAfter(m, w),
         NEW k \in 0 .. w
  PROVE  Kind(m, w, k, TextOf(m, w, c)[k + 1])
<1>1. TextOf(m, w, c)[k + 1] = IF k < w THEN LinesOf(m)[k + 1] ELSE c
  <2>1. /\ TextOf(m, w, c) \in Seq(Seq(Int) \cup {c})
        /\ Len(TextOf(m, w, c)) = w + 1
        /\ \A i \in 1 .. w : TextOf(m, w, c)[i] = LinesOf(m)[i]
        /\ TextOf(m, w, c)[w + 1] = c
    BY TextIs
  <2>2. k < w => k + 1 \in 1 .. w
    OBVIOUS
  <2>3. ~(k < w) => k = w
    OBVIOUS
  <2> QED BY <2>1, <2>2, <2>3
<1> DEFINE L == LinesOf(m)
           line == TextOf(m, w, c)[k + 1]
<1> SUFFICES Kind(m, w, k, line)
  OBVIOUS
<1>2. Len(L) = Len(m.extents) + 2 /\ Len(m.extents) \in Nat
  BY LinesAre
<1>3. /\ L[1] = <<HEADER, 1>>
      /\ L[2] = <<SIZE_KEY, m.lba_size>> /\ m.lba_size \in Lbas
  BY LinesAre
<1>4. ASSUME NEW i \in 1 .. Len(m.extents)
      PROVE  L[i + 2] = m.extents[i] /\ m.extents[i] \in Lbas \X Lbas \X {0, 1}
  <2>1. m.extents \in Seq(Lbas \X Lbas \X {0, 1}) /\ L[i + 2] = m.extents[i]
    BY LinesAre
  <2>2. m.extents[i] \in Lbas \X Lbas \X {0, 1}
    BY <2>1
  <2> QED BY <2>1, <2>2
<1>5. w \in 0 .. Len(L)
  OBVIOUS
<1> HIDE DEF L, line
<1>6. CASE k < w
  <2>1. line = L[k + 1]
    BY <1>6, <1>1 DEF L, line
  <2>2. CASE k = 0
    <3>1. line = <<HEADER, 1>>
      BY <1>3, <2>1, <2>2
    <3> QED BY <2>2, <3>1, KindsAre DEF Kind
  <2>3. CASE k = 1
    <3>1. line = <<SIZE_KEY, m.lba_size>> /\ m.lba_size \in Lbas
      BY <1>3, <2>1, <2>3
    <3>2. line[2] = m.lba_size
      BY <3>1
    <3> QED BY <1>6, <2>3, <3>1, <3>2, KindsAre DEF Kind
  <2>4. CASE k >= 2
    <3> DEFINE i == k - 1
    <3>1. i \in 1 .. Len(m.extents) /\ k + 1 = i + 2
      BY <1>2, <1>6, <1>5, <2>4
    <3>2. line = m.extents[i] /\ m.extents[i] \in Lbas \X Lbas \X {0, 1}
      BY <1>4, <2>1, <3>1
    <3>3. ExtentOf(line) = ExtentsOf(m)[i]
      BY <3>1, <3>2, ExtentsAre
    <3>4. IsExtent(line) /\ ~IsIgnored(line) /\ ~IsSize(line)
      BY <3>2, KindsAre
    <3> QED BY <1>6, <2>4, <3>1, <3>3, <3>4 DEF Kind
  <2> QED BY <2>2, <2>3, <2>4
<1>7. CASE k = w
  <2>1. line = c
    BY <1>7, <1>1 DEF line
  <2>2. CASE c = << >>
    BY <1>7, <2>1, <2>2, KindsAre DEF Kind
  <2>3. CASE w < Len(L) /\ c \in CutsOf(L[w + 1])
    <3>1. CASE w = 0
      <4>1. c \in CutsOf(<<HEADER, 1>>)
        BY <1>3, <2>3, <3>1
      <4>2. ~IsIgnored(c) /\ ~IsSize(c) /\ ~IsExtent(c)
        BY <4>1, CutsAre
      <4> QED BY <1>7, <2>1, <2>3, <4>2 DEF L, Kind
    <3>2. CASE w = 1
      <4>1. c \in CutsOf(<<SIZE_KEY, m.lba_size>>) /\ m.lba_size \in Lbas
        BY <1>3, <2>3, <3>2
      <4>2. ~IsIgnored(c) /\ ~IsExtent(c)
        BY <4>1, CutsAre
      <4> QED BY <1>7, <2>1, <2>3, <3>2, <4>2 DEF L, Kind
    <3>3. CASE w >= 2
      <4> DEFINE i == w - 1
      <4>1. i \in 1 .. Len(m.extents) /\ w + 1 = i + 2
        BY <1>2, <2>3, <3>3
      <4>2. L[w + 1] = m.extents[i] /\ m.extents[i] \in Lbas \X Lbas \X {0, 1}
        BY <1>4, <4>1
      <4>3. ~IsIgnored(c) /\ ~IsSize(c) /\ ~IsExtent(c)
        BY <2>3, <4>2, CutsAre
      <4> QED BY <1>7, <2>1, <2>3, <4>3 DEF L, Kind
    <3> QED BY <3>1, <3>2, <3>3
  <2> QED BY <2>2, <2>3 DEF PartAfter, L
<1> QED BY <1>6, <1>7, <1>5

\* The walk of check over what was loaded.
LEMMA NextIs ==
  ASSUME Next
  PROVE  extents' = extents /\ pc \in {"start", "walk"} /\ pc' \in {"walk", "done"}
BY DEF Next, NothingAsked, RangeOverflows, Start, Advance, NotPartOfFile, AllCovered,
       Return

\* What depends on a map only stays when the map does.
LEMMA SameFrom ==
  ASSUME from' = from
  PROVE  /\ LinesOf(from)' = LinesOf(from)
         /\ ExtentsOf(from)' = ExtentsOf(from)
         /\ \A w : PartAfter(from, w)' = PartAfter(from, w)
<1>1. LinesOf(from)' = LinesOf(from)
  BY Zenon DEF LinesOf, HEADER, SIZE_KEY
<1>2. ExtentsOf(from)' = ExtentsOf(from)
  BY Zenon DEF ExtentsOf, ExtentOf
<1>3. ASSUME NEW w PROVE PartAfter(from, w)' = PartAfter(from, w)
  <2>1. PartAfter(from, w)' = PartAfter(from', w)
    BY Zenon DEF PartAfter, CutsOf, PartsOf, LinesOf, HEADER, SIZE_KEY
  <2> QED BY <2>1
<1> QED BY <1>1, <1>2, <1>3

\* The file stays one map's lines while nobody writes.
LEMMA FileStays == FileInvariant /\ UNCHANGED fileVars => FileInvariant'
<1> SUFFICES ASSUME FileInvariant, UNCHANGED fileVars
             PROVE  FileInvariant'
  OBVIOUS
<1>1. map' = map /\ written' = written /\ cut' = cut
  BY DEF fileVars
<1>2. LinesOf(map)' = LinesOf(map)
  BY <1>1, Zenon DEF LinesOf, HEADER, SIZE_KEY
<1>3. PartAfter(map, written)' = PartAfter(map, written)
  <2>1. PartAfter(map, written)' = PartAfter(map', written')
    BY Zenon DEF PartAfter, CutsOf, PartsOf, LinesOf, HEADER, SIZE_KEY
  <2> QED BY <1>1, <2>1
<1> QED BY <1>1, <1>2, <1>3 DEF FileInvariant

\* What parse and check have reached stays while they do nothing.
LEMMA ParseStays ==
  /\ ParseInvariant /\ LoadsPrefix /\ LoadsComplete
  /\ UNCHANGED <<parseVars, vars>>
  => ParseInvariant' /\ LoadsPrefix' /\ LoadsComplete'
<1> SUFFICES ASSUME ParseInvariant, LoadsPrefix, LoadsComplete,
                    UNCHANGED <<parseVars, vars>>
             PROVE  ParseInvariant' /\ LoadsPrefix' /\ LoadsComplete'
  OBVIOUS
<1>1. /\ from' = from /\ complete' = complete /\ rest' = rest
      /\ device_lba_size' = device_lba_size
      /\ extents' = extents /\ pc' = pc /\ verdict' = verdict
  BY DEF parseVars, vars
<1>2. /\ LinesOf(from)' = LinesOf(from) /\ ExtentsOf(from)' = ExtentsOf(from)
      /\ \A w : PartAfter(from, w)' = PartAfter(from, w)
  BY <1>1, SameFrom
<1>3. WalkInvariant => WalkInvariant'
  BY WalkStep DEF vars
<1>4. LoadsPrefix'
  BY <1>1, <1>2 DEF LoadsPrefix, Loaded, IsPrefix
<1>5. LoadsComplete'
  BY <1>1, <1>2 DEF LoadsComplete, Loaded
<1>6. ASSUME NEW w, NEW k, NEW c, ParsedUpTo(k, w, c)
      PROVE  ParsedUpTo(k, w, c)'
  BY <1>1, <1>2, <1>6 DEF ParsedUpTo
<1>7. pc' = "parsing" =>
        (\E w \in 0 .. Len(LinesOf(from)) : \E k \in 0 .. w + 1 :
           \E c \in PartAfter(from, w) : ParsedUpTo(k, w, c))'
  <2> SUFFICES ASSUME pc' = "parsing"
               PROVE  (\E w \in 0 .. Len(LinesOf(from)) : \E k \in 0 .. w + 1 :
                         \E c \in PartAfter(from, w) : ParsedUpTo(k, w, c))'
    OBVIOUS
  <2>1. PICK w \in 0 .. Len(LinesOf(from)) :
          \E k \in 0 .. w + 1 : \E c \in PartAfter(from, w) : ParsedUpTo(k, w, c)
    BY <1>1 DEF ParseInvariant
  <2>2. PICK k \in 0 .. w + 1 : \E c \in PartAfter(from, w) : ParsedUpTo(k, w, c)
    BY <2>1
  <2>3. PICK c \in PartAfter(from, w) : ParsedUpTo(k, w, c)
    BY <2>2
  <2>4. ParsedUpTo(k, w, c)'
    BY <1>6, <2>3
  <2> QED BY <1>2, <2>4
<1> QED BY <1>1, <1>3, <1>4, <1>5, <1>7 DEF ParseInvariant, Loaded

\* One line parsed brings parse one line further, or is an error, which a map
\* that is all there does not have.
LEMMA OneLine ==
  ASSUME from \in Maps, pc = "parsing", ParseLine,
         NEW w \in 0 .. Len(LinesOf(from)), NEW k \in 0 .. w + 1,
         NEW c \in PartAfter(from, w), ParsedUpTo(k, w, c)
  PROVE  \/ pc' = "error" /\ ~complete /\ extents' = extents
         \/ /\ pc' = "parsing" /\ k < w + 1
            /\ ParsedUpTo(k + 1, w, c)'
            /\ extents' = extents \/ \E e \in Extent : extents' = Append(extents, e)
<1> DEFINE L == LinesOf(from)
           E == ExtentsOf(from)
           text == TextOf(from, w, c)
           T == Seq(Int) \cup {c}
<1>1. /\ text \in Seq(T) /\ Len(text) = w + 1 /\ text[w + 1] = c
      /\ \A i \in 1 .. w : text[i] = L[i]
  BY TextIs
<1>2. /\ rest = SubSeq(text, k + 1, w + 1)
      /\ extents = SubSeq(E, 1, (IF k <= w THEN k ELSE w) - 2)
      /\ k >= 2 /\ w >= 2 => device_lba_size = from.lba_size
      /\ complete <=> w = Len(L)
  BY DEF ParsedUpTo
<1>3. /\ E \in Seq(Extent) /\ Len(E) = Len(from.extents)
      /\ Len(L) = Len(E) + 2 /\ Len(E) \in Nat
  <2>1. E \in Seq(Extent) /\ Len(E) = Len(from.extents)
    BY ExtentsAre
  <2>2. Len(L) = Len(from.extents) + 2
    BY LinesAre
  <2>3. Len(E) \in Nat
    BY <2>1
  <2> QED BY <2>1, <2>2, <2>3
<1>4. rest # << >> /\ from' = from /\ complete' = complete /\ rest' = Tail(rest)
  BY DEF ParseLine
<1>5. LinesOf(from)' = L /\ ExtentsOf(from)' = E
  BY <1>4, SameFrom
<1>6. w \in 0 .. Len(L)
  OBVIOUS
<1> HIDE DEF L, E, text, T
<1>7. /\ k < w + 1 /\ Head(rest) = text[k + 1]
      /\ Tail(rest) = SubSeq(text, k + 2, w + 1)
  <2>1. CASE k = w + 1
    <3>1. rest = << >>
      BY <1>1, <1>2, <1>6, <2>1
    <3> QED BY <1>4, <3>1
  <2>2. CASE k < w + 1
    <3>1. k + 1 \in 1 .. Len(text) /\ w + 1 \in k + 1 .. Len(text)
      BY <1>1, <1>6, <2>2
    <3>2. /\ Head(SubSeq(text, k + 1, w + 1)) = text[k + 1]
          /\ Tail(SubSeq(text, k + 1, w + 1)) = SubSeq(text, k + 1 + 1, w + 1)
      BY <1>1, <3>1, HeadTailOfSubSeq
    <3>3. k + 1 + 1 = k + 2
      OBVIOUS
    <3> QED BY <1>2, <2>2, <3>2, <3>3
  <2> QED BY <1>6, <2>1, <2>2
<1> DEFINE line == text[k + 1]
<1>8. Kind(from, w, k, line)
  <2>1. k \in 0 .. w
    BY <1>6, <1>7
  <2> QED BY <2>1, LineIs DEF text
<1>9. \/ /\ IsIgnored(line) /\ UNCHANGED <<pc, device_lba_size, extents>>
       \/ /\ IsSize(line) /\ device_lba_size' = line[2] /\ UNCHANGED <<pc, extents>>
       \/ /\ IsExtent(line) /\ extents' = Append(extents, ExtentOf(line))
          /\ UNCHANGED <<pc, device_lba_size>>
       \/ /\ ~ (IsIgnored(line) \/ IsSize(line) \/ IsExtent(line))
          /\ pc' = "error" /\ UNCHANGED <<device_lba_size, extents>>
  BY <1>7 DEF ParseLine
<1> HIDE DEF line
<1>10. \A n \in Int : n <= 0 => SubSeq(E, 1, n) = << >>
  BY <1>3, SubSeqEmpty
<1>11. SUFFICES
         ASSUME pc' # "error"
         PROVE  /\ extents' = SubSeq(E, 1, (IF k + 1 <= w THEN k + 1 ELSE w) - 2)
                /\ k + 1 >= 2 /\ w >= 2 => device_lba_size' = from.lba_size
                /\ pc' = "parsing"
                /\ extents' = extents \/ \E e \in Extent : extents' = Append(extents, e)
  <2>1. CASE pc' = "error"
    <3>1. ~(IsIgnored(line) \/ IsSize(line) \/ IsExtent(line)) /\ extents' = extents
      BY <1>9, <2>1
    <3>2. w # Len(L)
      BY <1>6, <1>7, <1>8, <3>1 DEF Kind, L
    <3> QED BY <1>2, <2>1, <3>1, <3>2
  <2>2. CASE pc' # "error"
    <3>1. rest' = SubSeq(text, (k + 1) + 1, w + 1)
      <4>1. (k + 1) + 1 = k + 2
        OBVIOUS
      <4> QED BY <1>4, <1>7, <4>1
    <3>2. ParsedUpTo(k + 1, w, c)'
      BY <1>2, <1>4, <1>5, <1>11, <2>2, <3>1 DEF ParsedUpTo, text, L, E
    <3> QED BY <1>7, <1>11, <2>2, <3>2
  <2> QED BY <2>1, <2>2
<1>12. CASE IsIgnored(line)
  <2>1. UNCHANGED <<pc, device_lba_size, extents>> /\ (k = 0 \/ k = w)
    BY <1>8, <1>9, <1>12 DEF Kind
  <2>2. SubSeq(E, 1, (IF k <= w THEN k ELSE w) - 2)
          = SubSeq(E, 1, (IF k + 1 <= w THEN k + 1 ELSE w) - 2)
    <3>1. CASE k = w
      BY <1>6, <3>1
    <3>2. CASE k = 0 /\ k # w
      <4>1. SubSeq(E, 1, 0 - 2) = << >> /\ SubSeq(E, 1, 1 - 2) = << >>
        BY <1>10
      <4> QED BY <1>6, <3>2, <4>1
    <3> QED BY <2>1, <3>1, <3>2
  <2> QED BY <1>2, <1>6, <2>1, <2>2
<1>13. CASE IsSize(line)
  <2>1. /\ device_lba_size' = line[2] /\ UNCHANGED <<pc, extents>> /\ k = 1
        /\ k < w => line[2] = from.lba_size
    BY <1>8, <1>9, <1>13 DEF Kind
  <2>2. SubSeq(E, 1, (IF k <= w THEN k ELSE w) - 2)
          = SubSeq(E, 1, (IF k + 1 <= w THEN k + 1 ELSE w) - 2)
    <3> DEFINE i == (IF k <= w THEN k ELSE w) - 2
               j == (IF k + 1 <= w THEN k + 1 ELSE w) - 2
    <3>1. i \in Int /\ i <= 0 /\ j \in Int /\ j <= 0
      BY <1>6, <2>1
    <3> HIDE DEF i, j
    <3>2. SubSeq(E, 1, i) = << >> /\ SubSeq(E, 1, j) = << >>
      BY <1>10, <3>1
    <3> QED BY <3>2 DEF i, j
  <2> QED BY <1>2, <1>6, <2>1, <2>2
<1>14. CASE IsExtent(line)
  <2>1. /\ extents' = Append(extents, ExtentOf(line)) /\ UNCHANGED <<pc, device_lba_size>>
        /\ k >= 2 /\ k < w /\ k - 1 \in 1 .. Len(E) /\ ExtentOf(line) = E[k - 1]
    BY <1>3, <1>8, <1>9, <1>14 DEF Kind, E
  <2> DEFINE n == k - 2
  <2>2. /\ n \in 0 .. Len(E) - 1 /\ n + 1 = k - 1
        /\ (IF k <= w THEN k ELSE w) - 2 = n
        /\ (IF k + 1 <= w THEN k + 1 ELSE w) - 2 = n + 1
    BY <1>3, <1>6, <2>1
  <2>3. E[k - 1] \in Extent
    BY <1>3, <2>1
  <2> HIDE DEF n
  <2>4. Append(SubSeq(E, 1, n), E[n + 1]) = SubSeq(E, 1, n + 1)
    BY <1>3, <2>2, PrefixGrows
  <2> QED BY <1>2, <1>6, <2>1, <2>2, <2>3, <2>4
<1> QED BY <1>9, <1>11, <1>12, <1>13, <1>14

\* An idle REPL and a file that is to be written.
LEMMA InitLoad == MapInit => LoadInvariant
<1> SUFFICES ASSUME MapInit
             PROVE  LoadInvariant
  OBVIOUS
<1>1. FileInvariant
  <2>1. Len(LinesOf(map)) \in Nat
    BY LinesAre DEF MapInit
  <2> QED BY <2>1 DEF MapInit, FileInvariant, PartAfter
<1>2. ParseInvariant
  BY DEF MapInit, ParseInvariant, Loaded
<1> QED BY <1>1, <1>2 DEF MapInit, LoadInvariant, LoadsPrefix, LoadsComplete, Loaded

\* Whoever writes the file leaves it the beginning of one map.
LEMMA FileStep ==
  ASSUME FileInvariant, (\E m \in Maps : Truncate(m)) \/ WritePart \/ WriteLine
  PROVE  FileInvariant' /\ UNCHANGED <<parseVars, vars>>
<1>1. ASSUME NEW m \in Maps, Truncate(m)
      PROVE  FileInvariant' /\ UNCHANGED <<parseVars, vars>>
  <2>1. map' = m /\ written' = 0 /\ cut' = << >> /\ UNCHANGED <<parseVars, vars>>
    BY <1>1 DEF Truncate
  <2>2. LinesOf(map)' = LinesOf(map')
    BY Zenon DEF LinesOf, HEADER, SIZE_KEY
  <2>3. << >> \in PartAfter(map, written)'
    BY DEF PartAfter
  <2>4. Len(LinesOf(m)) \in Nat
    BY LinesAre
  <2> QED BY <2>1, <2>2, <2>3, <2>4 DEF FileInvariant
<1>2. CASE WritePart
  <2>1. /\ map' = map /\ written' = written /\ UNCHANGED <<parseVars, vars>>
        /\ written < Len(LinesOf(map)) /\ cut' \in CutsOf(LinesOf(map)[written + 1])
    BY <1>2 DEF WritePart
  <2>2. LinesOf(map)' = LinesOf(map)
    BY <2>1, Zenon DEF LinesOf, HEADER, SIZE_KEY
  <2>3. cut' \in PartAfter(map, written)
    BY <2>1 DEF PartAfter
  <2>4. PartAfter(map, written)' = PartAfter(map', written')
    BY Zenon DEF PartAfter, CutsOf, PartsOf, LinesOf, HEADER, SIZE_KEY
  <2> QED BY <2>1, <2>2, <2>3, <2>4 DEF FileInvariant
<1>3. CASE WriteLine
  <2>1. /\ map' = map /\ written' = written + 1 /\ cut' = << >>
        /\ UNCHANGED <<parseVars, vars>> /\ written < Len(LinesOf(map))
    BY <1>3 DEF WriteLine
  <2>2. LinesOf(map)' = LinesOf(map)
    BY <2>1, Zenon DEF LinesOf, HEADER, SIZE_KEY
  <2>3. << >> \in PartAfter(map, written)'
    BY DEF PartAfter
  <2>4. Len(LinesOf(map)) \in Nat
    BY LinesAre DEF FileInvariant
  <2> QED BY <2>1, <2>2, <2>3, <2>4 DEF FileInvariant
<1> QED BY <1>1, <1>2, <1>3

\* What was loaded is what parse starts with.
LEMMA LoadStep ==
  ASSUME FileInvariant, ParseInvariant, Load
  PROVE  ParseInvariant' /\ LoadsPrefix' /\ LoadsComplete'
<1>1. /\ rest' = TextOf(map, written, cut) /\ from' = map
      /\ complete' = (written = Len(LinesOf(map)))
      /\ extents' = << >> /\ pc' = "parsing" /\ verdict' = verdict /\ pc = "idle"
  BY DEF Load
<1>2. /\ map \in Maps /\ written \in 0 .. Len(LinesOf(map))
      /\ cut \in PartAfter(map, written)
  BY DEF FileInvariant
<1>3. PICK w \in 0 .. Len(LinesOf(map)), c \in PartAfter(map, written) :
        w = written /\ c = cut
  BY <1>2
<1>4. /\ LinesOf(from)' = LinesOf(map) /\ ExtentsOf(from)' = ExtentsOf(map)
      /\ PartAfter(from, w)' = PartAfter(map, w)
      /\ TextOf(from, w, c)' = TextOf(map, w, c)
  <2>1. LinesOf(from)' = LinesOf(from') /\ ExtentsOf(from)' = ExtentsOf(from')
    BY Zenon DEF LinesOf, HEADER, SIZE_KEY, ExtentsOf, ExtentOf
  <2>2. PartAfter(from, w)' = PartAfter(from', w)
    BY Zenon DEF PartAfter, CutsOf, PartsOf, LinesOf, HEADER, SIZE_KEY
  <2>3. TextOf(from, w, c)' = TextOf(from', w, c)
    BY Zenon DEF TextOf, LinesOf, HEADER, SIZE_KEY
  <2> QED BY <1>1, <2>1, <2>2, <2>3
<1>5. ParsedUpTo(0, w, c)'
  <2>1. rest' = SubSeq(TextOf(map, w, c), 1, w + 1)
    <3> DEFINE text == TextOf(map, w, c)
               T == Seq(Int) \cup {c}
    <3>1. text \in Seq(T) /\ Len(text) = w + 1
      BY <1>2, <1>3, TextIs
    <3> HIDE DEF text, T
    <3>2. SubSeq(text, 1, Len(text)) = text
      BY <3>1
    <3>3. rest' = text
      BY <1>1, <1>3 DEF text
    <3> QED BY <3>1, <3>2, <3>3 DEF text
  <2>2. SubSeq(ExtentsOf(map), 1, 0 - 2) = << >>
    <3>1. ExtentsOf(map) \in Seq(Extent)
      BY <1>2, ExtentsAre
    <3> QED BY <3>1, SubSeqEmpty
  <2>3. (IF 0 <= w THEN 0 ELSE w) - 2 = 0 - 2 /\ 0 + 1 = 1 /\ ~(0 >= 2)
    BY <1>3
  <2>4. rest' = SubSeq(TextOf(from, w, c)', 0 + 1, w + 1)
    BY <1>4, <2>1, <2>3
  <2>5. extents' = SubSeq(ExtentsOf(from)', 1, (IF 0 <= w THEN 0 ELSE w) - 2)
    BY <1>1, <1>4, <2>2, <2>3
  <2>6. complete' <=> w = Len(LinesOf(from)')
    BY <1>1, <1>3, <1>4, Zenon
  <2> QED BY <2>3, <2>4, <2>5, <2>6, Zenon DEF ParsedUpTo
<1>6. (\E x \in 0 .. Len(LinesOf(from)) : \E k \in 0 .. x + 1 :
         \E y \in PartAfter(from, x) : ParsedUpTo(k, x, y))'
  <2>1. w \in 0 .. Len(LinesOf(from))' /\ 0 \in 0 .. w + 1 /\ c \in PartAfter(from, w)'
    BY <1>2, <1>3, <1>4
  <2> QED BY <1>5, <2>1
<1>7. ParseInvariant'
  BY <1>1, <1>2, <1>6 DEF ParseInvariant, Loaded
<1> QED BY <1>1, <1>7 DEF LoadsPrefix, LoadsComplete, Loaded

\* A line parsed keeps parse on its way through the file.
LEMMA ParseLineStep ==
  ASSUME ParseInvariant, ParseLine
  PROVE  ParseInvariant' /\ LoadsPrefix' /\ LoadsComplete'
<1>1. /\ pc = "parsing" /\ from' = from /\ complete' = complete
      /\ verdict' = verdict
  BY DEF ParseLine
<1>2. from \in Maps /\ extents \in Seq(Extent) /\ verdict = "none"
  BY <1>1 DEF ParseInvariant
<1>3. PICK w \in 0 .. Len(LinesOf(from)) :
        \E k \in 0 .. w + 1 : \E c \in PartAfter(from, w) : ParsedUpTo(k, w, c)
  BY <1>1 DEF ParseInvariant
<1>4. PICK k \in 0 .. w + 1 : \E c \in PartAfter(from, w) : ParsedUpTo(k, w, c)
  BY <1>3
<1>5. PICK c \in PartAfter(from, w) : ParsedUpTo(k, w, c)
  BY <1>4
<1>6. \/ pc' = "error" /\ ~complete /\ extents' = extents
      \/ /\ pc' = "parsing" /\ k < w + 1
         /\ ParsedUpTo(k + 1, w, c)'
         /\ extents' = extents \/ \E e \in Extent : extents' = Append(extents, e)
  BY <1>1, <1>2, <1>3, <1>4, <1>5, OneLine
<1>7. extents' \in Seq(Extent)
  BY <1>2, <1>6
<1>8. CASE pc' = "error" /\ ~complete
  BY <1>1, <1>2, <1>7, <1>8
  DEF ParseInvariant, LoadsPrefix, LoadsComplete, Loaded
<1>9. CASE pc' = "parsing" /\ k < w + 1 /\ ParsedUpTo(k + 1, w, c)'
  <2>1. LinesOf(from)' = LinesOf(from) /\ PartAfter(from, w)' = PartAfter(from, w)
    BY <1>1, SameFrom
  <2>2. (\E x \in 0 .. Len(LinesOf(from)) : \E j \in 0 .. x + 1 :
           \E y \in PartAfter(from, x) : ParsedUpTo(j, x, y))'
    <3>1. /\ w \in 0 .. Len(LinesOf(from))' /\ k + 1 \in 0 .. w + 1
          /\ c \in PartAfter(from, w)'
      <4>1. k + 1 \in 0 .. w + 1
        BY <1>9
      <4> QED BY <2>1, <4>1
    <3> QED BY <1>9, <3>1
  <2> QED BY <1>1, <1>2, <1>7, <1>9, <2>2
          DEF ParseInvariant, LoadsPrefix, LoadsComplete, Loaded
<1> QED BY <1>6, <1>8, <1>9

\* At the end of the file parse has the extents of its complete lines.
LEMMA ParseEndsStep ==
  ASSUME ParseInvariant, ParseEnds
  PROVE  ParseInvariant' /\ LoadsPrefix' /\ LoadsComplete'
<1>1. /\ pc = "parsing" /\ rest = << >> /\ pc' = "loaded"
      /\ from' = from /\ complete' = complete /\ verdict' = verdict
      /\ extents' = extents /\ device_lba_size' = device_lba_size
  BY DEF ParseEnds, parseVars
<1>2. from \in Maps /\ extents \in Seq(Extent) /\ verdict = "none"
  BY <1>1 DEF ParseInvariant
<1>3. PICK w \in 0 .. Len(LinesOf(from)) :
        \E k \in 0 .. w + 1 : \E c \in PartAfter(from, w) : ParsedUpTo(k, w, c)
  BY <1>1 DEF ParseInvariant
<1>4. PICK k \in 0 .. w + 1 : \E c \in PartAfter(from, w) : ParsedUpTo(k, w, c)
  BY <1>3
<1>5. PICK c \in PartAfter(from, w) : ParsedUpTo(k, w, c)
  BY <1>4
<1> DEFINE L == LinesOf(from)
           E == ExtentsOf(from)
           text == TextOf(from, w, c)
           T == Seq(Int) \cup {c}
           n == (IF k <= w THEN k ELSE w) - 2
<1>6. text \in Seq(T) /\ Len(text) = w + 1
  BY <1>2, TextIs
<1>7. /\ rest = SubSeq(text, k + 1, w + 1) /\ extents = SubSeq(E, 1, n)
      /\ k >= 2 /\ w >= 2 => device_lba_size = from.lba_size
      /\ complete <=> w = Len(L)
  BY <1>5 DEF ParsedUpTo
<1>8. E \in Seq(Extent) /\ Len(L) = Len(E) + 2 /\ Len(E) \in Nat
  <2>1. E \in Seq(Extent) /\ Len(E) = Len(from.extents)
    BY <1>2, ExtentsAre
  <2>2. Len(L) = Len(from.extents) + 2
    BY <1>2, LinesAre
  <2>3. Len(E) \in Nat
    BY <2>1
  <2> QED BY <2>1, <2>2, <2>3
<1>9. w \in 0 .. Len(L) /\ k \in 0 .. w + 1
  OBVIOUS
<1>10. LinesOf(from)' = L /\ ExtentsOf(from)' = E
  BY <1>1, SameFrom
<1> HIDE DEF L, E, text, T
<1>11. k = w + 1
  <2>1. CASE k < w + 1
    <3>1. Len(SubSeq(text, k + 1, w + 1)) # 0
      BY <1>6, <1>9, <2>1
    <3>2. SubSeq(text, k + 1, w + 1) = << >>
      BY <1>1, <1>7, Zenon
    <3>3. Len(<< >>) = 0
      OBVIOUS
    <3> QED BY <3>1, <3>2, <3>3, Zenon
  <2> QED BY <1>9, <2>1
<1>12. n = w - 2
  BY <1>9, <1>11
<1>13. CASE w <= 2
  <2>1. extents = << >>
    <3>1. n \in Int /\ n <= 0
      BY <1>9, <1>12, <1>13
    <3> HIDE DEF n
    <3> QED BY <1>7, <1>8, <3>1, SubSeqEmpty
  <2>2. IsPrefix(extents, E)
    <3>1. Len(extents) = 0 /\ 0 <= Len(E)
      BY <1>8, <2>1
    <3>2. SubSeq(extents, 1, 0) = << >> /\ SubSeq(E, 1, 0) = << >>
      BY <1>2, <1>8, SubSeqEmpty
    <3> QED BY <3>1, <3>2 DEF IsPrefix
  <2>3. complete => E = << >> /\ device_lba_size = from.lba_size
    BY <1>7, <1>8, <1>9, <1>11, <1>13
  <2> QED BY <1>1, <1>2, <1>10, <2>1, <2>2, <2>3
          DEF ParseInvariant, LoadsPrefix, LoadsComplete, Loaded
<1>14. CASE w > 2
  <2>1. n \in 1 .. Len(E) /\ device_lba_size = from.lba_size
    BY <1>7, <1>8, <1>9, <1>11, <1>12, <1>14
  <2> HIDE DEF n
  <2>2. /\ Len(extents) = n
        /\ SubSeq(extents, 1, n) = SubSeq(E, 1, n)
    <3>1. extents \in Seq(Extent) /\ Len(extents) = n
      BY <1>7, <1>8, <2>1
    <3>2. SubSeq(extents, 1, Len(extents)) = extents
      BY <3>1
    <3> QED BY <1>7, <3>1, <3>2
  <2>3. IsPrefix(extents, E)
    BY <1>8, <2>1, <2>2 DEF IsPrefix
  <2>4. complete => extents = E
    <3>1. complete => n = Len(E)
      BY <1>7, <1>8, <1>12
    <3>2. SubSeq(E, 1, Len(E)) = E
      BY <1>8
    <3> QED BY <1>7, <3>1, <3>2
  <2> QED BY <1>1, <1>2, <1>10, <2>1, <2>3, <2>4
          DEF ParseInvariant, LoadsPrefix, LoadsComplete, Loaded
<1> QED BY <1>9, <1>13, <1>14

\* check walks what was loaded and leaves it alone.
LEMMA CheckStays ==
  ASSUME ParseInvariant, LoadsPrefix, LoadsComplete,
         CheckStep \/ \E lba, n \in Lbas : Ask(lba, n)
  PROVE  ParseInvariant' /\ LoadsPrefix' /\ LoadsComplete'
<1>1. /\ from' = from /\ complete' = complete /\ device_lba_size' = device_lba_size
      /\ extents' = extents /\ Loaded /\ pc' \in {"start", "walk", "done"}
      /\ WalkInvariant'
  <2>1. CASE CheckStep
    <3>1. extents' = extents /\ pc \in {"start", "walk"} /\ pc' \in {"walk", "done"}
      BY <2>1, NextIs DEF CheckStep
    <3>2. WalkInvariant'
      BY <2>1, <3>1, WalkStep DEF CheckStep, ParseInvariant
    <3> QED BY <2>1, <3>1, <3>2 DEF CheckStep, parseVars, Loaded
  <2>2. ASSUME NEW lba \in Lbas, NEW n \in Lbas, Ask(lba, n)
        PROVE  /\ from' = from /\ complete' = complete
               /\ device_lba_size' = device_lba_size
               /\ extents' = extents /\ Loaded /\ pc' \in {"start", "walk", "done"}
               /\ WalkInvariant'
    <3>1. /\ from' = from /\ complete' = complete /\ device_lba_size' = device_lba_size
          /\ extents' = extents /\ Loaded /\ pc' = "start" /\ verdict' = "none"
          /\ device_lba' \in Lbas /\ count' \in Lbas /\ end' = 0 /\ covered' = 0
      BY <2>2 DEF Ask, parseVars, Loaded
    <3>2. WalkInvariant'
      BY <3>1, U64Assumption
      DEF ParseInvariant, WalkInvariant, TypeOK, AcceptsOnlyTheFile,
          RefusesOnlyOthers, Lbas
    <3> QED BY <3>1, <3>2
  <2> QED BY <2>1, <2>2
<1>2. LinesOf(from)' = LinesOf(from) /\ ExtentsOf(from)' = ExtentsOf(from)
  BY <1>1, SameFrom
<1>3. LoadsPrefix'
  BY <1>1, <1>2 DEF LoadsPrefix, Loaded, IsPrefix
<1>4. LoadsComplete'
  BY <1>1, <1>2 DEF LoadsComplete, Loaded
<1>5. pc' # "done" => verdict' = "none"
  BY <1>1 DEF WalkInvariant
<1> QED BY <1>1, <1>3, <1>4, <1>5 DEF ParseInvariant, Loaded

\* Every step of the writers, of parse and of check keeps the invariant.
LEMMA LoadInvariantStep == LoadInvariant /\ [MapNext]_mapVars => LoadInvariant'
<1> SUFFICES ASSUME LoadInvariant, [MapNext]_mapVars
             PROVE  LoadInvariant'
  OBVIOUS
<1>1. FileInvariant /\ ParseInvariant /\ LoadsPrefix /\ LoadsComplete
  BY DEF LoadInvariant
<1>2. CASE (\E m \in Maps : Truncate(m)) \/ WritePart \/ WriteLine
  BY <1>1, <1>2, FileStep, ParseStays DEF LoadInvariant
<1>3. CASE Load
  BY <1>1, <1>3, FileStays, LoadStep DEF Load, LoadInvariant
<1>4. CASE ParseLine
  BY <1>1, <1>4, FileStays, ParseLineStep DEF ParseLine, LoadInvariant
<1>5. CASE ParseEnds
  BY <1>1, <1>5, FileStays, ParseEndsStep DEF ParseEnds, LoadInvariant
<1>6. CASE CheckStep \/ \E lba, n \in Lbas : Ask(lba, n)
  <2>1. UNCHANGED fileVars
    BY <1>6 DEF CheckStep, Ask
  <2> QED BY <1>1, <1>6, <2>1, FileStays, CheckStays DEF LoadInvariant
<1>7. CASE UNCHANGED mapVars
  <2>1. UNCHANGED fileVars /\ UNCHANGED <<parseVars, vars>>
    BY <1>7 DEF mapVars
  <2> QED BY <1>1, <2>1, FileStays, ParseStays DEF LoadInvariant
<1> QED BY <1>2, <1>3, <1>4, <1>5, <1>6, <1>7 DEF MapNext

\* The blocks that check accepts are blocks of the map that was loaded.
LEMMA AcceptedIsMapped == LoadInvariant => AcceptsOnlyTheMapped
<1> SUFFICES ASSUME LoadInvariant, verdict = "ok", NEW lba \in Asked
             PROVE  lba \in BlocksOf(from)
  BY DEF AcceptsOnlyTheMapped
<1>1. /\ from \in Maps /\ extents \in Seq(Extent) /\ pc = "done"
      /\ WalkInvariant /\ LoadsPrefix
  BY DEF LoadInvariant, ParseInvariant
<1>2. InFile(lba) /\ lba \in Int
  BY <1>1 DEF WalkInvariant, AcceptsOnlyTheFile, TypeOK, Asked, Lbas
<1>3. PICK i \in DOMAIN extents :
        /\ extents[i].device_lba <= lba
        /\ lba < extents[i].device_lba + extents[i].lba_count
  BY <1>2 DEF InFile
<1> DEFINE E == ExtentsOf(from)
           line == from.extents[i]
<1>4. /\ E \in Seq(Extent) /\ Len(E) = Len(from.extents)
      /\ \A j \in 1 .. Len(from.extents) : E[j] = ExtentOf(from.extents[j])
      /\ from.extents \in Seq(Lbas \X Lbas \X {0, 1})
  BY <1>1, LinesAre, ExtentsAre
<1>5. IsPrefix(extents, E)
  BY <1>1 DEF LoadsPrefix, Loaded
<1>6. i \in 1 .. Len(E) /\ extents[i] = E[i]
  <2> HIDE DEF E
  <2>1. /\ Len(extents) <= Len(E) /\ Len(extents) \in Nat /\ i \in 1 .. Len(extents)
        /\ SubSeq(extents, 1, Len(extents)) = SubSeq(E, 1, Len(extents))
    BY <1>1, <1>3, <1>5 DEF IsPrefix
  <2>2. SubSeq(extents, 1, Len(extents))[i] = extents[i]
    BY <1>1, <2>1
  <2>3. SubSeq(E, 1, Len(extents))[i] = E[i]
    BY <1>4, <2>1
  <2> QED BY <1>4, <2>1, <2>2, <2>3
<1>7. extents[i] = ExtentOf(line) /\ i \in DOMAIN from.extents
      /\ line \in Lbas \X Lbas \X {0, 1}
  BY <1>4, <1>6
<1> HIDE DEF E, line
<1>8. line[1] \in Int /\ line[2] \in Int
  BY <1>7, U64Assumption DEF Lbas
<1>9. lba \in line[1] .. line[1] + line[2] - 1
  BY <1>2, <1>3, <1>7, <1>8 DEF ExtentOf
<1>10. line \in Range(from.extents)
  BY <1>7 DEF Range, line
<1> QED BY <1>9, <1>10 DEF BlocksOf

\* The inductive invariant of map, parse and check.
THEOREM LoadIsCorrect == MapSpec => []LoadInvariant
BY InitLoad, LoadInvariantStep, PTL DEF MapSpec

\* What loads is the beginning of one map, however its file is rewritten meanwhile.
THEOREM MapLoadsAsPrefix == MapSpec => []LoadsPrefix
BY InitLoad, LoadInvariantStep, PTL DEF MapSpec, LoadInvariant

\* A map that is all there loads with every extent.
THEOREM MapLoadsCompletely == MapSpec => []LoadsComplete
BY InitLoad, LoadInvariantStep, PTL DEF MapSpec, LoadInvariant

\* From the file on disk to the answer of check: a range accepted lies in the file
\* that the loaded map describes, whatever has become of the map since.
THEOREM ReplKeepsToTheMapped == MapSpec => []AcceptsOnlyTheMapped
BY InitLoad, LoadInvariantStep, AcceptedIsMapped, PTL DEF MapSpec
=============================================================================
