------------------------- MODULE ShadowReaderProofs -------------------------
(***************************************************************************)
(* Proofs about ShadowReader: a handle keeps its types, opens at most one  *)
(* file besides the apk, leaks none, a read never comes to a partition     *)
(* that starts after it, and all calls but fgets are those of one flat     *)
(* file; fgets as well when every partition ends a line.  They hold for    *)
(* every tiling partition table, every size of a read and every seek.      *)
(***************************************************************************)
EXTENDS ShadowReader, FiniteSetTheorems, SequenceTheorems, WellFoundedInduction, TLAPS

Data == Files \X Nat

\* A running read is at begin, which is the position of the handle; what lies
\* before partition i lies before it.  Nothing is counted between calls.
Progress ==
    /\ pc = "reading" =>
          /\ begin = pos_ /\ begin =< end /\ ret =< pos_
          /\ i > 1 => parts[i - 1].shadow_stop =< begin
    /\ pc \in {"closed", "idle"} => ret = 0

\* Two open files are one, but for the apk.
OneOpen == \A f, g \in Files \ {0} : fp_array_[f] /\ fp_array_[g] => f = g

SafeInv == TypeOK /\ Progress /\ OneOpen

\* ByteAt of a given table.
ByteIn(table, x) ==
    LET k == CHOOSE k \in 1..Len(table) :
                 table[k].shadow_start < x /\ x =< table[k].shadow_stop
    IN  <<table[k].file_index, StartInFile(table[k], x - 1)>>

\* Every partition with bytes in it ends with a newline.
LinesEnd ==
    \A s \in Shadows : \A k \in 1..Len(s.parts) :
        LET part == s.parts[k]
        IN  part.start_in_file < part.stop_in_file
                => <<part.file_index, part.stop_in_file - 1>> \in s.newlines

\* What a running read has delivered are the bytes before its position, all of
\* them in the file, and its end is that of a request that is served.
Delivered ==
    pc = "reading" =>
        /\ got = [x \in 1..ret |-> ByteIn(parts, pos_ - ret + x)]
        /\ ret > 0 => pos_ =< shadow.eof
        /\ \E n \in Counts : ~ (AsInt(n) =< 0) /\ end = (pos_ - ret) + n

Inv == SafeInv /\ Delivered

-----------------------------------------------------------------------------
(***************************************************************************)
(* The partition table.                                                    *)
(***************************************************************************)

\* A nonempty set of naturals has a least member.
LEMMA LeastNat ==
    ASSUME NEW S, S \subseteq Nat, S # {}
    PROVE  \E x \in S : \A y \in S : x =< y
<1>1. PICK x \in S : \A y \in S : ~ (<<y, x>> \in OpToRel(<, Nat))
  BY NatLessThanWellFounded, WFMin, Zenon
<1>2. \A y \in S : ~ (y < x)
  BY <1>1 DEF OpToRel
<1> QED
  BY <1>2

\* What the assumption on Shadows says of the handle's table.
LEMMA Table ==
    ASSUME shadow \in Shadows
    PROVE  /\ shadow.last \in Nat /\ Len(parts) \in Nat
           /\ \A f \in Files : shadow.sizes[f] \in Nat
           /\ \A k \in 1..Len(parts) :
                 /\ parts[k].file_index \in Files
                 /\ parts[k].shadow_start \in Nat /\ parts[k].shadow_stop \in Nat
                 /\ parts[k].start_in_file \in Nat /\ parts[k].stop_in_file \in Nat
                 /\ parts[k].shadow_start = (IF k = 1 THEN 0 ELSE parts[k - 1].shadow_stop)
                 /\ parts[k].shadow_start =< parts[k].shadow_stop
                 /\ parts[k].shadow_stop - parts[k].shadow_start
                      = parts[k].stop_in_file - parts[k].start_in_file
                 /\ parts[k].stop_in_file =< shadow.sizes[parts[k].file_index]
           /\ shadow.eof = (IF Len(parts) = 0 THEN 0 ELSE parts[Len(parts)].shadow_stop)
           /\ shadow.eof \in Nat
<1>1. IsShadow(shadow)
  BY ShadowsAssumption
<1>2. /\ Len(parts) \in Nat
      /\ \A k \in 1..Len(parts) : parts[k] \in FilePartitionInfo
  BY <1>1, LenProperties, ElementOfSeq, Zenon DEF IsShadow, parts
<1>3. \A k \in 1..Len(parts) :
          /\ parts[k].shadow_start \in Nat /\ parts[k].shadow_stop \in Nat
          /\ parts[k].start_in_file \in Nat /\ parts[k].stop_in_file \in Nat
  BY <1>2 DEF FilePartitionInfo
<1>4. Tiles(parts, shadow.eof)
  BY <1>1 DEF IsShadow, parts
<1>5. shadow.eof = (IF Len(parts) = 0 THEN 0 ELSE parts[Len(parts)].shadow_stop)
  BY <1>2, <1>4 DEF Tiles, StopBefore
<1>6. \A f \in Files : shadow.sizes[f] \in Nat
  BY <1>1 DEF IsShadow, Files
<1>7. \A k \in 1..Len(parts) :
          /\ parts[k].file_index \in Files
          /\ parts[k].stop_in_file =< shadow.sizes[parts[k].file_index]
  BY <1>1 DEF IsShadow, Files, parts
<1>8. \A k \in 1..Len(parts) :
          /\ parts[k].shadow_start = (IF k = 1 THEN 0 ELSE parts[k - 1].shadow_stop)
          /\ parts[k].shadow_start =< parts[k].shadow_stop
          /\ parts[k].shadow_stop - parts[k].shadow_start
               = parts[k].stop_in_file - parts[k].start_in_file
  BY <1>3, <1>4 DEF Tiles, StopBefore
<1> QED
  BY <1>1, <1>2, <1>3, <1>5, <1>6, <1>7, <1>8 DEF IsShadow

\* A partition begins no earlier than each one before it stops, and all of
\* them stop in the file.
LEMMA Ordered ==
    ASSUME shadow \in Shadows
    PROVE  /\ \A j, k \in 1..Len(parts) :
                 j < k => parts[j].shadow_stop =< parts[k].shadow_start
           /\ \A k \in 1..Len(parts) : parts[k].shadow_stop =< shadow.eof
<1>1. ASSUME NEW j \in 1..Len(parts), NEW m \in 1..Len(parts),
             j < m, ~ (parts[j].shadow_stop =< parts[m].shadow_start)
      PROVE  FALSE
  <2> DEFINE Late == {k \in 1..Len(parts) :
                         j < k /\ ~ (parts[j].shadow_stop =< parts[k].shadow_start)}
  <2>1. PICK k \in Late : \A n \in Late : k =< n
    <3>1. Late \subseteq Nat
      <4>1. Late \subseteq 1..Len(parts)
        OBVIOUS
      <4>2. 1..Len(parts) \subseteq Nat
        BY Table
      <4> QED
        BY <4>1, <4>2, Zenon
    <3>2. m \in Late
      BY <1>1
    <3> QED
      BY <3>1, <3>2, LeastNat
  <2>2. k - 1 \in 1..Len(parts) /\ parts[k].shadow_start = parts[k - 1].shadow_stop
    BY <2>1, Table
  <2>3. CASE k - 1 = j
    BY Table, <2>1, <2>2, <2>3
  <2>4. CASE k - 1 # j
    <3>1. k - 1 \notin Late
      BY <2>1
    <3>2. parts[j].shadow_stop =< parts[k - 1].shadow_start
      BY Table, <2>1, <2>2, <2>4, <3>1
    <3>3. /\ parts[k - 1].shadow_start =< parts[k - 1].shadow_stop
          /\ parts[k - 1].shadow_start \in Nat /\ parts[k - 1].shadow_stop \in Nat
      BY <2>2, Table
    <3>4. ~ (parts[j].shadow_stop =< parts[k].shadow_start) /\ parts[j].shadow_stop \in Nat
      BY <1>1, <2>1, Table
    <3> QED
      BY <2>2, <3>2, <3>3, <3>4
  <2> QED
    BY <2>3, <2>4
<1>2. ASSUME NEW k \in 1..Len(parts)
      PROVE  parts[k].shadow_stop =< shadow.eof
  <2>1. CASE k = Len(parts)
    BY Table, <2>1
  <2>2. CASE k < Len(parts)
    <3>1. parts[k].shadow_stop =< parts[Len(parts)].shadow_start
      BY <1>1, <2>2, Table
    <3> QED
      BY <3>1, Table
  <2> QED
    BY <2>1, <2>2, Table
<1> QED
  BY <1>1, <1>2

\* A byte of the shadow file is found in the one partition it lies in.
LEMMA ByteIs ==
    ASSUME shadow \in Shadows, NEW x \in Int, NEW k \in 1..Len(parts),
           parts[k].shadow_start < x, x =< parts[k].shadow_stop
    PROVE  /\ ByteIn(parts, x) = <<parts[k].file_index,
                            x - 1 - parts[k].shadow_start + parts[k].start_in_file>>
           /\ ByteIn(parts, x) \in Data
<1>1. \A j \in 1..Len(parts) :
          parts[j].shadow_start < x /\ x =< parts[j].shadow_stop => j = k
  <2> SUFFICES ASSUME NEW j \in 1..Len(parts),
                      parts[j].shadow_start < x, x =< parts[j].shadow_stop, j # k
               PROVE  FALSE
    OBVIOUS
  <2>1. CASE j < k
    BY <2>1, Table, Ordered
  <2>2. CASE k < j
    BY <2>2, Table, Ordered
  <2> QED
    BY <2>1, <2>2, Table
<1>2. k = CHOOSE j \in 1..Len(parts) :
              parts[j].shadow_start < x /\ x =< parts[j].shadow_stop
  BY <1>1
<1>3. ByteIn(parts, x) = <<parts[k].file_index,
                    x - 1 - parts[k].shadow_start + parts[k].start_in_file>>
  BY <1>2 DEF ByteIn, StartInFile
<1>4. parts[k].file_index \in Files
  BY Table
<1>5. x - 1 - parts[k].shadow_start + parts[k].start_in_file \in Nat
  <2>1. /\ parts[k].shadow_start \in Nat /\ parts[k].start_in_file \in Nat
        /\ parts[k].shadow_start < x
    BY Table
  <2> QED
    BY <2>1
<1> QED
  BY <1>3, <1>4, <1>5 DEF Data

\* Every byte of the shadow file lies in some partition.
LEMMA Located ==
    ASSUME shadow \in Shadows, NEW x \in 1..shadow.eof
    PROVE  \E k \in 1..Len(parts) :
               parts[k].shadow_start < x /\ x =< parts[k].shadow_stop
<1> USE Table
<1> DEFINE Ahead == {k \in 1..Len(parts) : x =< parts[k].shadow_stop}
<1>1. Len(parts) \in Ahead
  OBVIOUS
<1>2. PICK k \in Ahead : \A n \in Ahead : k =< n
  <2>1. Ahead \subseteq Nat /\ Ahead # {}
    BY <1>1
  <2> QED
    BY <2>1, LeastNat
<1>3. CASE k = 1
  BY <1>2, <1>3
<1>4. CASE k # 1
  <2>1. k - 1 \in 1..Len(parts) /\ k - 1 \notin Ahead
    BY <1>2, <1>4
  <2> QED
    BY <1>2, <1>4, <2>1
<1> QED
  BY <1>3, <1>4

-----------------------------------------------------------------------------
(***************************************************************************)
(* The helpers of the steps.                                               *)
(***************************************************************************)

\* A range of a real file, as a sequence of bytes.
LEMMA BytesType ==
    ASSUME shadow \in Shadows, NEW f \in Files, NEW from \in Nat, NEW to \in Nat,
           from =< to, from =< shadow.sizes[f]
    PROVE  LET n == Smaller(to, shadow.sizes[f]) - from IN
           /\ n \in Nat
           /\ Bytes(f, from, to) = [k \in 1..n |-> <<f, from + k - 1>>]
           /\ Bytes(f, from, to) \in Seq(Data)
           /\ Len(Bytes(f, from, to)) = n
<1> DEFINE n == Smaller(to, shadow.sizes[f]) - from
<1>1. n \in Nat
  BY Table DEF Smaller
<1>2. Bytes(f, from, to) = [k \in 1..n |-> <<f, from + k - 1>>]
  BY DEF Bytes
<1>3. \A k \in 1..n : <<f, from + k - 1>> \in Data
  BY <1>1 DEF Data
<1> HIDE DEF n
<1>4. Bytes(f, from, to) \in [1..n -> Data]
  BY <1>2, <1>3, Zenon
<1>5. Bytes(f, from, to) \in Seq(Data)
  BY <1>1, <1>4, SeqDef, Zenon
<1>6. Len(Bytes(f, from, to)) = n
  BY <1>1, <1>2, <1>4, <1>5, LenProperties
<1> QED
  BY <1>1, <1>2, <1>5, <1>6 DEF n

\* The file that is needed is open, and no other but the apk.
LEMMA PreparedType ==
    ASSUME TypeOK, OneOpen, NEW f \in Files
    PROVE  /\ Prepared(f) \in [Files -> BOOLEAN]
           /\ Prepared(f)[f]
           /\ \A g, h \in Files \ {0} : Prepared(f)[g] /\ Prepared(f)[h] => g = h
<1>1. CASE fp_array_[f]
  BY <1>1 DEF Prepared, Null, TypeOK, OneOpen
<1>2. CASE ~ fp_array_[f]
  <2>1. Prepared(f) = [g \in Files |-> g = f \/ (g = 0 /\ fp_array_[0])]
    BY <1>2 DEF Prepared, Null, TypeOK
  <2> QED
    BY <2>1
<1> QED
  BY <1>1, <1>2

LEMMA NoFileType ==
    /\ NoFile \in [Files -> BOOLEAN]
    /\ \A f \in Files : ~ NoFile[f]
BY DEF NoFile, Null, Files

\* The partition fgets takes is the one its position lies in.
LEMMA HereIs ==
    ASSUME shadow \in Shadows, pos_ \in Nat, After # {}
    PROVE  /\ Here \in 1..Len(parts)
           /\ parts[Here].shadow_start =< pos_ /\ pos_ < parts[Here].shadow_stop
<1> USE Table
<1>1. \E k \in After : \A m \in After : k =< m
  <2>1. After \subseteq Nat
    BY DEF After
  <2> QED
    BY <2>1, LeastNat
<1>2. Here \in After /\ \A m \in After : Here =< m
  BY <1>1 DEF Here
<1>3. /\ Here \in 1..Len(parts) /\ pos_ < parts[Here].shadow_stop
      /\ \A m \in 1..Len(parts) : m < Here => parts[m].shadow_stop =< pos_
  BY <1>2 DEF After
<1> HIDE DEF Here
<1>4. CASE Here = 1
  BY <1>3, <1>4
<1>5. CASE Here # 1
  <2>1. Here - 1 \in 1..Len(parts) /\ Here - 1 < Here
    BY <1>3, <1>5
  <2> QED
    BY <1>3, <1>5, <2>1
<1> QED
  BY <1>4, <1>5

\* At the end of the file there is no partition left.
LEMMA AfterEof ==
    ASSUME shadow \in Shadows, pos_ \in Nat
    PROVE  After = {} <=> pos_ >= shadow.eof
<1> DEFINE m == Len(parts)
<1>1. /\ m \in Nat /\ shadow.eof \in Nat
      /\ m = 0 => shadow.eof = 0
      /\ m # 0 => m \in 1..m /\ shadow.eof = parts[m].shadow_stop
  BY Table
<1>2. \A k \in 1..m : parts[k].shadow_stop \in Nat /\ parts[k].shadow_stop =< shadow.eof
  BY Table, Ordered
<1>3. After = {k \in 1..m : parts[k].shadow_stop > pos_}
  BY DEF After
<1> HIDE DEF m
<1>4. ASSUME pos_ >= shadow.eof PROVE After = {}
  BY <1>1, <1>2, <1>3, <1>4
<1>5. ASSUME ~ (pos_ >= shadow.eof) PROVE m \in After
  <2>1. m # 0
    BY <1>1, <1>5
  <2> QED
    BY <1>1, <1>3, <1>5, <2>1
<1> QED
  BY <1>4, <1>5

\* The end of a line: the least of the stops, or the limit without one.  It is
\* the only place with this property.
FirstOf(S, limit) == IF S = {} THEN limit ELSE CHOOSE o \in S : \A p \in S : o =< p

LEMMA FirstStop ==
    ASSUME NEW from \in Nat, NEW limit \in Nat, from =< limit,
           NEW S, S \subseteq from + 1..limit
    PROVE  /\ FirstOf(S, limit) \in from..limit
           /\ FirstOf(S, limit) = limit \/ FirstOf(S, limit) \in S
           /\ \A o \in S : FirstOf(S, limit) =< o
<1>1. CASE S = {}
  BY <1>1 DEF FirstOf
<1>2. CASE S # {}
  <2>1. \E o \in S : \A p \in S : o =< p
    <3>1. S \subseteq Nat
      OBVIOUS
    <3> QED
      BY <1>2, <3>1, LeastNat
  <2> DEFINE c == CHOOSE o \in S : \A p \in S : o =< p
  <2>2. c \in S /\ \A p \in S : c =< p
    BY <2>1, Zenon
  <2> HIDE DEF c
  <2>3. FirstOf(S, limit) = c
    BY <1>2 DEF FirstOf, c
  <2>4. c \in from..limit
    BY <2>2
  <2> QED
    BY <2>2, <2>3, <2>4
<1> QED
  BY <1>1, <1>2

LEMMA LineStopIs ==
    ASSUME shadow \in Shadows, NEW f \in Files, NEW from \in Nat, NEW size \in Nat \ {0},
           from =< shadow.sizes[f]
    PROVE  LET limit == Smaller(from + size - 1, shadow.sizes[f])
               stop == LineStop(f, from, size)
           IN  /\ limit \in Nat /\ stop \in from..limit
               /\ stop = limit \/ (stop > from /\ <<f, stop - 1>> \in shadow.newlines)
               /\ \A o \in from + 1..limit : <<f, o - 1>> \in shadow.newlines => stop =< o
<1> DEFINE limit == Smaller(from + size - 1, shadow.sizes[f])
           S == {o \in from + 1..limit : <<f, o - 1>> \in shadow.newlines}
<1>1. limit \in Nat /\ from =< limit
  BY Table DEF Smaller
<1>2. LineStop(f, from, size) = FirstOf(S, limit)
  BY DEF LineStop, FirstOf
<1>3. S \subseteq from + 1..limit
  OBVIOUS
<1> HIDE DEF limit
<1>4. /\ LineStop(f, from, size) \in from..limit
      /\ LineStop(f, from, size) = limit \/ LineStop(f, from, size) \in S
      /\ \A o \in S : LineStop(f, from, size) =< o
  <2> HIDE DEF S
  <2>1. /\ FirstOf(S, limit) \in from..limit
        /\ FirstOf(S, limit) = limit \/ FirstOf(S, limit) \in S
        /\ \A o \in S : FirstOf(S, limit) =< o
    BY <1>1, <1>3, FirstStop
  <2> QED
    BY <1>2, <2>1, Zenon
<1> QED
  BY <1>1, <1>4 DEF limit

-----------------------------------------------------------------------------
(***************************************************************************)
(* Each step keeps the invariants.                                         *)
(***************************************************************************)

LEMMA InitSafe == Init => SafeInv
<1> SUFFICES ASSUME Init
             PROVE  SafeInv
  OBVIOUS
<1> USE DEF Init, Reply
<1>1. shadow \in Shadows /\ fp_array_ \in [Files -> BOOLEAN] /\ \A f \in Files : ~ fp_array_[f]
  BY NoFileType
<1>2. TypeOK
  BY <1>1, Table, EmptySeq DEF TypeOK, Data
<1> QED
  BY <1>1, <1>2 DEF SafeInv, Progress, OneOpen

\* A step that keeps the table and the locals and leaves no call behind keeps
\* the invariant, if the position, the files and the answer are right.
LEMMA BetweenCalls ==
    ASSUME SafeInv, pc # "reading", UNCHANGED <<shadow, call>>,
           pc' \in {"closed", "idle", "aborted"}, pc' # "aborted" => pc # "aborted",
           pos_' \in Nat, fp_array_' \in [Files -> BOOLEAN],
           \A f, g \in Files \ {0} : fp_array_'[f] /\ fp_array_'[g] => f = g,
           reply'.ret \in Int, reply'.bytes \in Seq(Data)
    PROVE  SafeInv' /\ Delivered'
<1>1. TypeOK'
  BY DEF SafeInv, TypeOK, call, Files, parts, Data
<1>2. Progress'
  BY DEF SafeInv, TypeOK, Progress, call
<1>3. OneOpen'
  BY DEF OneOpen, Files, NoFile
<1> QED
  BY <1>1, <1>2, <1>3 DEF SafeInv, Delivered

LEMMA AbortSafe ==
    ASSUME SafeInv, NEW f, CannotOpen(f)
    PROVE  SafeInv' /\ Delivered'
<1> USE DEF CannotOpen, Reply
<1>1. TypeOK'
  BY NoFileType, EmptySeq DEF SafeInv, TypeOK, call, Files, parts, Data
<1>2. Progress'
  BY DEF Progress
<1>3. OneOpen'
  BY NoFileType DEF OneOpen, Files, NoFile
<1> QED
  BY <1>1, <1>2, <1>3 DEF SafeInv, Delivered

\* The partition a read has come to holds the byte it is at.
LEMMA NoGapHolds == SafeInv => NoGap
<1> SUFFICES ASSUME SafeInv, pc = "reading", i =< Len(parts), begin < parts[i].shadow_stop
             PROVE  begin >= parts[i].shadow_start
  BY DEF NoGap
<1>1. /\ shadow \in Shadows /\ i \in 1..Len(parts) /\ begin \in Nat
      /\ i > 1 => parts[i - 1].shadow_stop =< begin
  BY Table DEF SafeInv, TypeOK, Progress
<1> QED
  BY <1>1, Table

\* The arithmetic of a read: [start, stop) of the shadow file is [low, high) of
\* a file, and a request for [from, to) begins in it.
LEMMA Offset ==
    ASSUME NEW start \in Nat, NEW stop \in Nat, NEW low \in Nat, NEW high \in Nat,
           stop - start = high - low,
           NEW from \in Nat, NEW to \in Nat, start =< from, from < stop, from =< to
    PROVE  LET first == from - start + low
               last == IF to >= stop THEN high ELSE to - start + low
           IN  /\ first \in Nat /\ last \in Nat /\ first =< last /\ last =< high
               /\ from + (last - first) = (IF to >= stop THEN stop ELSE to)
               /\ from + (last - first) =< stop
<1>1. CASE to >= stop
  BY <1>1
<1>2. CASE ~ (to >= stop)
  BY <1>2
<1> QED
  BY <1>1, <1>2

\* What a read takes from the partition it is in: the bytes from begin up to
\* its end or that of the partition.
LEMMA PartIs ==
    ASSUME SafeInv, pc = "reading", i =< Len(parts), begin < parts[i].shadow_stop
    PROVE  LET part == parts[i]
               from == StartInFile(part, begin)
               to == StopInFile(part, end)
               bytes == Bytes(part.file_index, from, to)
           IN  /\ i \in 1..Len(parts) /\ part.file_index \in Files
               /\ to - from \in Nat
               /\ begin + (to - from) = (IF end >= part.shadow_stop
                                         THEN part.shadow_stop ELSE end)
               /\ begin + (to - from) =< shadow.eof
               /\ bytes \in Seq(Data) /\ Len(bytes) = to - from
               /\ \A k \in 1..to - from : bytes[k] = ByteIn(parts, begin + k)
<1> DEFINE part == parts[i]
           f == part.file_index
           from == StartInFile(part, begin)
           to == StopInFile(part, end)
<1>1. /\ shadow \in Shadows /\ i \in 1..Len(parts)
      /\ begin \in Nat /\ end \in Nat /\ begin =< end
      /\ part.shadow_start =< begin /\ begin < part.shadow_stop
  BY Table, NoGapHolds DEF SafeInv, TypeOK, Progress, NoGap
<1>2. /\ f \in Files /\ shadow.sizes[f] \in Nat
      /\ part.shadow_start \in Nat /\ part.shadow_stop \in Nat
      /\ part.start_in_file \in Nat /\ part.stop_in_file \in Nat
      /\ part.shadow_stop - part.shadow_start = part.stop_in_file - part.start_in_file
      /\ part.stop_in_file =< shadow.sizes[f] /\ part.shadow_stop =< shadow.eof
      /\ shadow.eof \in Nat
  BY <1>1, Table, Ordered
<1> DEFINE start == part.shadow_start
           stop == part.shadow_stop
           low == part.start_in_file
           high == part.stop_in_file
<1>3. /\ from = begin - start + low
      /\ to = (IF end >= stop THEN high ELSE end - start + low)
  BY DEF StartInFile, StopInFile
<1>4. \A k \in Int : start < begin + k /\ begin + k =< stop
          => ByteIn(parts, begin + k) = <<f, (begin + k) - 1 - start + low>>
  <2> SUFFICES ASSUME NEW k \in Int, start < begin + k, begin + k =< stop
               PROVE  ByteIn(parts, begin + k) = <<f, (begin + k) - 1 - start + low>>
    OBVIOUS
  <2> DEFINE x == begin + k
  <2>1. x \in Int
    BY <1>1
  <2>2. parts[i].shadow_start < x /\ x =< parts[i].shadow_stop
    OBVIOUS
  <2> HIDE DEF x
  <2>3. ByteIn(parts, x) = <<parts[i].file_index,
                      x - 1 - parts[i].shadow_start + parts[i].start_in_file>>
    BY <1>1, <2>1, <2>2, ByteIs
  <2> QED
    BY <2>3, Zenon DEF x
<1> HIDE DEF part, f, from, to, start, stop, low, high
<1>5. /\ start \in Nat /\ stop \in Nat /\ low \in Nat /\ high \in Nat
      /\ stop - start = high - low /\ start =< begin /\ begin < stop
      /\ high =< shadow.sizes[f] /\ stop =< shadow.eof
  BY <1>1, <1>2, Zenon DEF start, stop, low, high
<1>6. /\ from \in Nat /\ to \in Nat /\ from =< to /\ to =< high
      /\ begin + (to - from) = (IF end >= stop THEN stop ELSE end)
      /\ begin + (to - from) =< stop
  <2>1. begin \in Nat /\ end \in Nat /\ begin =< end
    BY <1>1
  <2> QED
    BY <1>3, <1>5, <2>1, Offset
<1>7. /\ to - from \in Nat /\ begin + (to - from) =< shadow.eof
      /\ to =< shadow.sizes[f] /\ from =< shadow.sizes[f]
  <2> DEFINE size == shadow.sizes[f]
             eof == shadow.eof
  <2>1. size \in Nat /\ eof \in Nat /\ high =< size /\ stop =< eof
    BY <1>2, <1>5
  <2> HIDE DEF size, eof
  <2>2. to =< size /\ from =< size /\ to - from \in Nat
    BY <1>5, <1>6, <2>1
  <2>3. begin + (to - from) =< eof
    BY <1>1, <1>5, <1>6, <2>1, <2>2
  <2> QED
    BY <2>2, <2>3 DEF size, eof
<1>8. Smaller(to, shadow.sizes[f]) = to
  BY <1>2, <1>6, <1>7 DEF Smaller
<1>9. /\ Bytes(f, from, to) = [k \in 1..to - from |-> <<f, from + k - 1>>]
      /\ Bytes(f, from, to) \in Seq(Data) /\ Len(Bytes(f, from, to)) = to - from
  <2>1. from =< to /\ from =< shadow.sizes[f] /\ f \in Files
    BY <1>2, <1>6, <1>7
  <2>2. LET n == Smaller(to, shadow.sizes[f]) - from IN
        /\ Bytes(f, from, to) = [k \in 1..n |-> <<f, from + k - 1>>]
        /\ Bytes(f, from, to) \in Seq(Data)
        /\ Len(Bytes(f, from, to)) = n
    BY <1>1, <1>6, <2>1, BytesType, Zenon
  <2> QED
    BY <1>8, <2>2, Zenon
<1>10. ASSUME NEW k \in 1..to - from
       PROVE  Bytes(f, from, to)[k] = ByteIn(parts, begin + k)
  <2>1. k \in Int /\ start < begin + k /\ begin + k =< stop
    BY <1>1, <1>5, <1>6, <1>7
  <2>2. (begin + k) - 1 - start + low = from + k - 1
    BY <1>1, <1>3, <1>5, <1>6
  <2>3. Bytes(f, from, to)[k] = <<f, from + k - 1>>
    BY <1>9
  <2> QED
    BY <1>4, <2>1, <2>2, <2>3
<1> QED
  BY <1>1, <1>2, <1>6, <1>7, <1>9, <1>10, Zenon DEF part, f, from, to, stop

\* The beginning of a call.
LEMMA ReadInv ==
    ASSUME SafeInv, Read
    PROVE  SafeInv' /\ Delivered'
<1>1. PICK n \in Counts : ~ (AsInt(n) =< 0) /\ SetCall(pos_, pos_ + n, 1, 0, <<>>)
  BY DEF Read
<1>2. n \in Nat /\ pos_ \in Nat /\ shadow \in Shadows
  BY RequestsAssumption DEF SafeInv, TypeOK
<1>3. pc' = "reading" /\ UNCHANGED <<shadow, pos_, fp_array_, reply>>
  BY DEF Read
<1>4. TypeOK'
  BY <1>1, <1>2, <1>3, Table, EmptySeq DEF SetCall, SafeInv, TypeOK, Files, parts, Data
<1>5. Progress' /\ OneOpen'
  BY <1>1, <1>2, <1>3
     DEF SetCall, SafeInv, TypeOK, Progress, OneOpen, Files, parts
<1>6. Delivered'
  <2>1. got' = [x \in 1..ret' |-> ByteIn(parts, pos_ - ret + x)']
    BY <1>1 DEF SetCall
  <2>2. end' = (pos_' - ret') + n
    BY <1>1, <1>2, <1>3 DEF SetCall
  <2>3. ret' = 0
    BY <1>1 DEF SetCall
  <2> QED
    BY <1>1, <2>1, <2>2, <2>3 DEF Delivered, AsInt
<1> QED
  BY <1>4, <1>5, <1>6 DEF SafeInv

LEMMA SkipInv ==
    ASSUME Inv, SkipPartition
    PROVE  Inv'
<1> USE DEF SkipPartition
<1>1. /\ i \in 1..Len(parts) /\ i' = i + 1 /\ begin >= parts[i].shadow_stop
      /\ UNCHANGED <<shadow, pc, pos_, fp_array_, begin, end, ret, got, reply>>
  BY Table DEF Inv, SafeInv, TypeOK
<1>2. i' \in 1..(Len(parts) + 1)
  BY <1>1, Table DEF Inv, SafeInv, TypeOK
<1>3. TypeOK'
  BY <1>1, <1>2 DEF Inv, SafeInv, TypeOK, Files, parts, Data
<1>4. i' - 1 = i
  BY <1>1
<1>5. Progress'
  <2>1. parts[i].shadow_stop =< begin
    BY <1>1, Table DEF Inv, SafeInv, TypeOK
  <2> QED
    BY <1>1, <1>4, <2>1 DEF Inv, SafeInv, Progress, parts
<1>6. OneOpen'
  BY <1>1 DEF Inv, SafeInv, OneOpen, Files
<1>7. Delivered'
  <2> QED
    BY <1>1, Zenon DEF Inv, Delivered, parts, AsInt
<1> QED
  BY <1>3, <1>5, <1>6, <1>7 DEF Inv, SafeInv

LEMMA ReadToEofInv ==
    ASSUME Inv, ReadToEof
    PROVE  Inv'
<1> USE DEF ReadToEof, CallReturns, SetCall, Reply
<1>1. TypeOK'
  BY Table, EmptySeq DEF Inv, SafeInv, TypeOK, Files, parts, Data
<1>2. Progress' /\ OneOpen' /\ Delivered'
  BY DEF Inv, SafeInv, Progress, OneOpen, Delivered, Files
<1> QED
  BY <1>1, <1>2 DEF Inv, SafeInv

\* The bytes delivered so far with those of the partition are the bytes
\* before the new position.
LEMMA AllIs ==
    ASSUME Inv, pc = "reading", i =< Len(parts), begin < parts[i].shadow_stop
    PROVE  LET part == parts[i]
               from == StartInFile(part, begin)
               to == StopInFile(part, end)
               all == got \o Bytes(part.file_index, from, to)
               read == ret + (to - from)
           IN  /\ read \in Nat /\ read =< pos_ + (to - from)
               /\ all \in Seq(Data)
               /\ all = [x \in 1..read |-> ByteIn(parts, (pos_ + (to - from)) - read + x)]
<1> DEFINE from == StartInFile(parts[i], begin)
           to == StopInFile(parts[i], end)
           bytes == Bytes(parts[i].file_index, from, to)
           n == to - from
<1>1. /\ n \in Nat /\ bytes \in Seq(Data) /\ Len(bytes) = n
      /\ \A k \in 1..n : bytes[k] = ByteIn(parts, begin + k)
  BY PartIs DEF Inv
<1>2. /\ ret \in Nat /\ pos_ \in Nat /\ ret =< pos_ /\ begin = pos_
      /\ got \in Seq(Data) /\ got = [x \in 1..ret |-> ByteIn(parts, pos_ - ret + x)]
  BY DEF Inv, SafeInv, TypeOK, Progress, Delivered, Data
<1> HIDE DEF bytes, n
<1>3. Len(got) = ret /\ \A x \in 1..ret : got[x] = ByteIn(parts, pos_ - ret + x)
  BY <1>2, LenProperties
<1>4. /\ got \o bytes \in Seq(Data)
      /\ Len(got \o bytes) = ret + n
      /\ \A x \in 1..ret + n : (got \o bytes)[x]
            = IF x =< ret THEN got[x] ELSE bytes[x - ret]
  <2>1. LET a == got
            b == bytes
        IN  /\ a \o b \in Seq(Data)
            /\ Len(a \o b) = Len(a) + Len(b)
            /\ \A x \in 1..Len(a) + Len(b) : (a \o b)[x]
                  = IF x =< Len(a) THEN a[x] ELSE b[x - Len(a)]
    BY <1>1, <1>2, ConcatProperties, Zenon
  <2> QED
    BY <1>1, <1>3, <2>1, Zenon
<1>5. ret + n \in Nat /\ ret + n =< pos_ + n
  BY <1>1, <1>2
<1>6. ASSUME NEW x \in 1..ret + n
      PROVE  (got \o bytes)[x] = ByteIn(parts, (pos_ + n) - (ret + n) + x)
  <2>1. CASE x =< ret
    <3>1. x \in 1..ret /\ (pos_ + n) - (ret + n) + x = pos_ - ret + x
      BY <1>1, <1>2, <2>1
    <3>2. (got \o bytes)[x] = ByteIn(parts, pos_ - ret + x)
      BY <1>3, <1>4, <2>1, <3>1
    <3> QED
      BY <3>1, <3>2, Zenon
  <2>2. CASE ~ (x =< ret)
    <3>1. x - ret \in 1..n /\ (pos_ + n) - (ret + n) + x = begin + (x - ret)
      BY <1>1, <1>2, <2>2
    <3>2. (got \o bytes)[x] = ByteIn(parts, begin + (x - ret))
      BY <1>1, <1>4, <2>2, <3>1
    <3> QED
      BY <3>1, <3>2, Zenon
  <2> QED
    BY <2>1, <2>2
<1>7. got \o bytes = [x \in 1..ret + n |-> ByteIn(parts, (pos_ + n) - (ret + n) + x)]
  <2>1. got \o bytes \in [1..ret + n -> Data]
    BY <1>4, LenProperties
  <2> QED
    BY <1>6, <2>1
<1> QED
  BY <1>4, <1>5, <1>7, Zenon DEF bytes, n

LEMMA ReadPartitionInv ==
    ASSUME Inv, ReadPartition
    PROVE  Inv'
<1> DEFINE f == parts[i].file_index
           from == StartInFile(parts[i], begin)
           to == StopInFile(parts[i], end)
           n == to - from
           all == got \o Bytes(f, from, to)
<1>1. CASE CannotOpen(f)
  BY <1>1, AbortSafe DEF Inv
<1>2. CASE ~ CannotOpen(f)
  <2>1. /\ pc = "reading" /\ i =< Len(parts) /\ begin < parts[i].shadow_stop
        /\ fp_array_' = Prepared(f) /\ pos_' = pos_ + n /\ shadow' = shadow
        /\ IF begin + n >= end
           THEN /\ pc' = "idle" /\ CallReturns
                /\ reply' = Reply("read", ret + n, all)
           ELSE /\ SetCall(begin + n, end, i + 1, ret + n, all)
                /\ UNCHANGED <<pc, reply>>
    BY <1>2 DEF ReadPartition
  <2>2. /\ i \in 1..Len(parts) /\ f \in Files /\ n \in Nat
        /\ begin + n = (IF end >= parts[i].shadow_stop THEN parts[i].shadow_stop ELSE end)
        /\ begin + n =< shadow.eof
    BY <2>1, PartIs DEF Inv
  <2>3. /\ ret + n \in Nat /\ ret + n =< pos_ + n /\ all \in Seq(Data)
        /\ all = [x \in 1..ret + n |-> ByteIn(parts, (pos_ + n) - (ret + n) + x)]
    BY <2>1, AllIs
  <2>4. /\ pos_ \in Nat /\ begin = pos_ /\ end \in Nat /\ begin =< end
        /\ ret \in Nat /\ shadow \in Shadows /\ shadow.eof \in Nat
    BY <2>1, Table DEF Inv, SafeInv, TypeOK, Progress
  <2> HIDE DEF f, n, all
  <2>5. /\ fp_array_' \in [Files -> BOOLEAN]
        /\ \A g, h \in Files \ {0} : fp_array_'[g] /\ fp_array_'[h] => g = h
    BY <2>1, <2>2, PreparedType DEF Inv, SafeInv
  <2>6. OneOpen'
    BY <2>1, <2>5 DEF OneOpen, Files
  <2>7. CASE begin + n >= end
    <3>1. pc' = "idle" /\ CallReturns /\ reply' = Reply("read", ret + n, all)
      BY <2>1, <2>7
    <3>2. TypeOK'
      BY <2>1, <2>2, <2>3, <2>4, <2>5, <3>1, Table, EmptySeq
         DEF TypeOK, CallReturns, SetCall, Reply, Files, parts, Data
    <3>3. Progress' /\ Delivered'
      BY <3>1 DEF Progress, Delivered, CallReturns, SetCall
    <3> QED
      BY <2>6, <3>2, <3>3 DEF Inv, SafeInv
  <2>8. CASE ~ (begin + n >= end)
    <3>1. /\ begin' = begin + n /\ end' = end /\ i' = i + 1 /\ ret' = ret + n
          /\ got' = all /\ pc' = pc /\ reply' = reply
      BY <2>1, <2>8 DEF SetCall
    <3>2. i' \in 1..(Len(parts) + 1) /\ i' - 1 = i
      BY <2>2, <2>4, <3>1, Table
    <3>3. TypeOK'
      <4>1. /\ shadow' \in Shadows /\ pc' \in {"closed", "idle", "reading", "aborted"}
            /\ pos_' \in Nat /\ begin' \in Nat /\ end' \in Nat /\ ret' \in Nat
        BY <2>1, <2>2, <2>3, <2>4, <3>1
      <4>2. got' \in Seq(Files' \X Nat) /\ fp_array_' \in [Files' -> BOOLEAN]
        BY <2>1, <2>3, <2>5, <3>1 DEF Files, Data
      <4>3. i' \in 1..(Len(parts') + 1)
        BY <2>1, <3>2 DEF parts
      <4>4. reply'.ret \in Int /\ reply'.bytes \in Seq(Files' \X Nat)
        BY <2>1, <3>1 DEF Inv, SafeInv, TypeOK, Files
      <4> QED
        BY <4>1, <4>2, <4>3, <4>4 DEF TypeOK
    <3>4. parts[i].shadow_stop =< begin' /\ begin' = pos_' /\ begin' =< end' /\ ret' =< pos_'
      BY <2>1, <2>2, <2>3, <2>4, <2>8, <3>1, Table
    <3>5. Progress'
      BY <2>1, <3>1, <3>2, <3>4 DEF Progress, parts
    <3>6. Delivered'
      <4>2. (got = [x \in 1..ret |-> ByteIn(parts, pos_ - ret + x)])'
        <5>1. got' = [x \in 1..ret' |-> ByteIn(parts, pos_' - ret' + x)]
          BY <2>1, <2>3, <3>1, Zenon
        <5> QED
          BY <2>1, <5>1, Zenon DEF parts
      <4>3. pos_' =< shadow'.eof
        BY <2>1, <2>2, <2>4
      <4>4. pos_' - ret' = pos_ - ret
        BY <2>1, <2>2, <2>4, <3>1
      <4>5. \E c \in Counts : ~ (AsInt(c) =< 0) /\ end' = (pos_' - ret') + c
        BY <2>1, <3>1, <4>4 DEF Inv, Delivered
      <4> QED
        BY <4>2, <4>3, <4>5, Zenon DEF Delivered, AsInt
    <3> QED
      BY <2>6, <3>3, <3>5, <3>6 DEF Inv, SafeInv
  <2> QED
    BY <2>7, <2>8
<1> QED
  BY <1>1, <1>2

\* Where fgets begins in the file of its partition: before the partition ends.
LEMMA GetsFrom ==
    ASSUME SafeInv, After # {}
    PROVE  LET part == parts[Here]
               from == StartInFile(part, pos_)
           IN  /\ Here \in 1..Len(parts) /\ part.file_index \in Files
               /\ part.shadow_start =< pos_ /\ pos_ < part.shadow_stop
               /\ from \in Nat /\ from < part.stop_in_file
               /\ from =< shadow.sizes[part.file_index]
<1>1. shadow \in Shadows /\ pos_ \in Nat
  BY DEF SafeInv, TypeOK
<1>2. /\ Here \in 1..Len(parts)
      /\ parts[Here].shadow_start =< pos_ /\ pos_ < parts[Here].shadow_stop
  BY <1>1, HereIs
<1> DEFINE part == parts[Here]
<1>3. /\ part.file_index \in Files /\ shadow.sizes[part.file_index] \in Nat
      /\ part.shadow_start \in Nat /\ part.shadow_stop \in Nat
      /\ part.start_in_file \in Nat /\ part.stop_in_file \in Nat
      /\ part.shadow_stop - part.shadow_start = part.stop_in_file - part.start_in_file
      /\ part.stop_in_file =< shadow.sizes[part.file_index]
  BY <1>1, <1>2, Table
<1>4. part.shadow_start =< pos_ /\ pos_ < part.shadow_stop
  BY <1>2
<1> HIDE DEF part
<1>5. /\ StartInFile(part, pos_) \in Nat /\ StartInFile(part, pos_) < part.stop_in_file
      /\ StartInFile(part, pos_) =< shadow.sizes[part.file_index]
  BY <1>1, <1>3, <1>4 DEF StartInFile
<1> QED
  BY <1>2, <1>3, <1>4, <1>5 DEF part

LEMMA GetsLine ==
    ASSUME SafeInv, After # {}, NEW size \in Nat \ {0}
    PROVE  LET f == parts[Here].file_index
               from == StartInFile(parts[Here], pos_)
               to == LineStop(f, from, size)
           IN  /\ to \in Nat /\ from =< to /\ to =< shadow.sizes[f]
               /\ Bytes(f, from, to) = [k \in 1..to - from |-> <<f, from + k - 1>>]
               /\ Bytes(f, from, to) \in Seq(Data)
               /\ Len(Bytes(f, from, to)) = to - from
<1> DEFINE f == parts[Here].file_index
           from == StartInFile(parts[Here], pos_)
           to == LineStop(f, from, size)
<1>1. shadow \in Shadows /\ f \in Files /\ from \in Nat /\ from =< shadow.sizes[f]
  BY GetsFrom DEF SafeInv, TypeOK
<1> HIDE DEF f, from
<1>2. shadow.sizes[f] \in Nat
  BY <1>1, Table
<1>3. to \in from..Smaller(from + size - 1, shadow.sizes[f])
  BY <1>1, LineStopIs
<1> HIDE DEF to
<1>4. to \in Nat /\ from =< to /\ to =< shadow.sizes[f]
  BY <1>1, <1>2, <1>3 DEF Smaller
<1>5. Smaller(to, shadow.sizes[f]) = to
  BY <1>2, <1>4 DEF Smaller
<1>6. LET n == Smaller(to, shadow.sizes[f]) - from IN
      /\ Bytes(f, from, to) = [k \in 1..n |-> <<f, from + k - 1>>]
      /\ Bytes(f, from, to) \in Seq(Data)
      /\ Len(Bytes(f, from, to)) = n
  BY <1>1, <1>4, BytesType, Zenon
<1>7. /\ Bytes(f, from, to) = [k \in 1..to - from |-> <<f, from + k - 1>>]
      /\ Bytes(f, from, to) \in Seq(Data)
      /\ Len(Bytes(f, from, to)) = to - from
  BY <1>5, <1>6, Zenon
<1> QED
  BY <1>4, <1>7, Zenon DEF f, from, to

LEMMA FgetsInv ==
    ASSUME SafeInv, Fgets
    PROVE  SafeInv' /\ Delivered'
<1>1. pc = "idle" /\ pc' = pc /\ UNCHANGED <<shadow, call>>
  BY DEF Fgets
<1>2. PICK size \in Counts \ {0} :
          \/ /\ After = {}
             /\ reply' = Reply("gets", 0, <<>>)
             /\ UNCHANGED <<pc, pos_, fp_array_>>
          \/ /\ After # {}
             /\ LET f == parts[Here].file_index
                    from == StartInFile(parts[Here], pos_)
                    to == LineStop(f, from, size)
                IN  /\ fp_array_' = Prepared(f)
                    /\ reply' = Reply("gets", 1, Bytes(f, from, to))
                    /\ pos_' = pos_ + (to - from)
             /\ UNCHANGED pc
  BY DEF Fgets
<1>3. CASE After = {}
  <2>1. UNCHANGED <<pos_, fp_array_>> /\ reply' = Reply("gets", 0, <<>>)
    BY <1>2, <1>3
  <2>2. reply'.ret \in Int /\ reply'.bytes \in Seq(Data)
    BY <2>1, EmptySeq DEF Reply
  <2> QED
    BY <1>1, <2>1, <2>2, BetweenCalls DEF SafeInv, TypeOK, OneOpen
<1>4. CASE After # {}
  <2> DEFINE f == parts[Here].file_index
             from == StartInFile(parts[Here], pos_)
             to == LineStop(f, from, size)
  <2>1. /\ fp_array_' = Prepared(f) /\ pos_' = pos_ + (to - from)
        /\ reply' = Reply("gets", 1, Bytes(f, from, to))
    BY <1>2, <1>4
  <2>2. f \in Files /\ from \in Nat
    BY <1>4, GetsFrom
  <2>3. to \in Nat /\ from =< to /\ Bytes(f, from, to) \in Seq(Data)
    BY <1>4, GetsLine, RequestsAssumption
  <2> HIDE DEF f, from, to
  <2>4. pos_' \in Nat
    BY <2>1, <2>2, <2>3 DEF SafeInv, TypeOK
  <2>5. reply'.ret \in Int /\ reply'.bytes \in Seq(Data)
    BY <2>1, <2>3 DEF Reply
  <2>6. /\ fp_array_' \in [Files -> BOOLEAN]
        /\ \A g, h \in Files \ {0} : fp_array_'[g] /\ fp_array_'[h] => g = h
    BY <2>1, <2>2, PreparedType DEF SafeInv
  <2> QED
    BY <1>1, <2>4, <2>5, <2>6, BetweenCalls
<1> QED
  BY <1>3, <1>4

LEMMA FopenInv ==
    ASSUME SafeInv, Fopen
    PROVE  SafeInv' /\ Delivered'
<1>1. pc = "closed" /\ pc' \in {"closed", "idle"} /\ UNCHANGED <<shadow, call>>
  BY DEF Fopen
<1>2. reply'.ret \in Int /\ reply'.bytes \in Seq(Data)
  <2>1. reply'.ret \in Int /\ reply'.bytes = <<>>
    BY DEF Fopen, Reply
  <2> QED
    BY <2>1, EmptySeq
<1>3. CASE UNCHANGED <<pc, pos_, fp_array_>>
  BY <1>1, <1>2, <1>3, BetweenCalls DEF SafeInv, TypeOK, OneOpen
<1>4. CASE pc' = "idle" /\ pos_' = 0 /\ fp_array_' = [NoFile EXCEPT ![0] = TRUE]
  <2>1. /\ fp_array_' \in [Files -> BOOLEAN]
        /\ \A f \in Files \ {0} : ~ fp_array_'[f]
    BY <1>4, NoFileType DEF Files
  <2> QED
    BY <1>1, <1>2, <1>4, <2>1, BetweenCalls
<1> QED
  BY <1>3, <1>4 DEF Fopen

LEMMA FseekInv ==
    ASSUME SafeInv, Fseek
    PROVE  SafeInv' /\ Delivered'
<1>1. PICK base \in {0, pos_, shadow.eof} : \E offset \in Offsets :
          LET new == base + offset
              fails == new < 0 \/ new > shadow.eof
          IN  /\ pos_' = IF fails THEN pos_ ELSE new
              /\ reply' = Reply("seek", IF fails THEN -1 ELSE 0, <<>>)
  BY DEF Fseek
<1>2. PICK offset \in Offsets :
          LET new == base + offset
              fails == new < 0 \/ new > shadow.eof
          IN  /\ pos_' = IF fails THEN pos_ ELSE new
              /\ reply' = Reply("seek", IF fails THEN -1 ELSE 0, <<>>)
  BY <1>1
<1>3. base \in Nat /\ offset \in Int /\ pos_ \in Nat /\ shadow.eof \in Nat
  BY Table, RequestsAssumption DEF SafeInv, TypeOK
<1>4. pos_' \in Nat
  BY <1>2, <1>3
<1>5. reply'.ret \in Int /\ reply'.bytes \in Seq(Data)
  BY <1>2, EmptySeq DEF Reply
<1>6. pc = "idle" /\ UNCHANGED <<shadow, pc, fp_array_, call>>
  BY DEF Fseek
<1> QED
  BY <1>4, <1>5, <1>6, BetweenCalls DEF SafeInv, TypeOK, OneOpen

\* The steps that only answer, go back to the start or close the handle.
LEMMA OthersInv ==
    ASSUME SafeInv, ReadNothing \/ Ftell \/ Rewind \/ Fclose
    PROVE  SafeInv' /\ Delivered'
<1>1. pc = "idle" /\ UNCHANGED <<shadow, call>>
  BY DEF ReadNothing, Ftell, Rewind, Fclose
<1>2. reply'.ret \in Int /\ reply'.bytes \in Seq(Data)
  <2>1. pos_ \in Int
    BY DEF SafeInv, TypeOK
  <2>2. reply'.ret \in Int /\ reply'.bytes = <<>>
    BY <2>1 DEF ReadNothing, Ftell, Rewind, Fclose, Reply
  <2> QED
    BY <2>2, EmptySeq
<1>3. pos_' \in Nat
  BY DEF ReadNothing, Ftell, Rewind, Fclose, SafeInv, TypeOK
<1>4. CASE pc' = pc /\ fp_array_' = fp_array_
  BY <1>1, <1>2, <1>3, <1>4, BetweenCalls DEF SafeInv, TypeOK, OneOpen
<1>5. CASE pc' = "closed" /\ fp_array_' = NoFile
  BY <1>1, <1>2, <1>3, <1>5, NoFileType, BetweenCalls
<1> QED
  BY <1>4, <1>5 DEF ReadNothing, Ftell, Rewind, Fclose

LEMMA NothingInv ==
    ASSUME Inv, UNCHANGED vars
    PROVE  Inv'
<1> USE DEF vars, call
<1>1. TypeOK' /\ Progress' /\ OneOpen'
  BY DEF Inv, SafeInv, TypeOK, Progress, OneOpen, Files, parts, NoFile
<1>2. Delivered'
  BY Zenon DEF Inv, Delivered, parts, AsInt
<1> QED
  BY <1>1, <1>2 DEF Inv, SafeInv

LEMMA NextInv == Inv /\ [Next]_vars => Inv'
<1> SUFFICES ASSUME Inv, [Next]_vars
             PROVE  Inv'
  OBVIOUS
<1>1. CASE Fopen
  BY <1>1, FopenInv DEF Inv
<1>2. CASE ReadNothing \/ Ftell \/ Rewind \/ Fclose
  BY <1>2, OthersInv DEF Inv
<1>3. CASE Read
  BY <1>3, ReadInv DEF Inv
<1>4. CASE SkipPartition
  BY <1>4, SkipInv
<1>5. CASE ReadPartition
  BY <1>5, ReadPartitionInv
<1>6. CASE ReadToEof
  BY <1>6, ReadToEofInv
<1>7. CASE Fgets
  BY <1>7, FgetsInv DEF Inv
<1>8. CASE FgetsAborts
  BY <1>8, AbortSafe DEF Inv, FgetsAborts
<1>9. CASE Fseek
  BY <1>9, FseekInv DEF Inv
<1>10. CASE UNCHANGED vars
  BY <1>10, NothingInv
<1> QED
  BY <1>1, <1>2, <1>3, <1>4, <1>5, <1>6, <1>7, <1>8, <1>9, <1>10
     DEF Next, Reading, Aborted

LEMMA Invariance == Spec => []Inv
<1>1. Init => Inv
  BY InitSafe DEF Inv, Init, Delivered
<1> QED
  BY <1>1, NextInv, PTL DEF Spec

-----------------------------------------------------------------------------
(***************************************************************************)
(* The safety properties.                                                  *)
(***************************************************************************)

\* The handle keeps its types: the partition index of a read stays in the
\* table or one past it, and what is delivered are bytes of its files.
THEOREM Typed == Spec => []TypeOK
<1>1. Inv => TypeOK
  BY DEF Inv, SafeInv
<1> QED
  BY <1>1, Invariance, PTL

\* The assertion of shadow_zip.cpp:577 and 613 holds: the partition a read has
\* come to never begins after the place it reads from.
THEOREM ReadsInPartition == Spec => []NoGap
<1>1. Inv => NoGap
  BY NoGapHolds DEF Inv
<1> QED
  BY <1>1, Invariance, PTL

\* A handle has at most one file open besides the apk (shadow_zip.cpp:657),
\* for any number of patch files.
THEOREM HandleOpensOne == Spec => []OneFileOpen
<1>1. Inv => OneFileOpen
  <2> SUFFICES ASSUME Inv
               PROVE  Cardinality({f \in Files \ {0} : fp_array_[f]}) =< 1
    BY DEF OneFileOpen
  <2> DEFINE Opened == {f \in Files \ {0} : fp_array_[f]}
  <2>1. CASE Opened = {}
    BY <2>1, FS_EmptySet
  <2>2. CASE Opened # {}
    <3>1. PICK f \in Opened : TRUE
      BY <2>2
    <3>2. Opened = {f}
      BY <3>1 DEF Inv, SafeInv, OneOpen
    <3> QED
      BY <3>2, FS_Singleton
  <2> QED
    BY <2>1, <2>2
<1> QED
  BY <1>1, Invariance, PTL

-----------------------------------------------------------------------------
(***************************************************************************)
(* The handle is one flat file.  Each call is one of FlatFile's when it    *)
(* returns, and until then changes nothing its caller can see.             *)
(***************************************************************************)

\* The bytes of the shadow apk, FlatFile's content.
Content == [x \in 1..shadow.eof |-> ByteAt(x)]

LEMMA ContentIs ==
    ASSUME shadow \in Shadows
    PROVE  /\ shadow.eof \in Nat
           /\ Content \in Seq(Data) /\ Len(Content) = shadow.eof
           /\ \A x \in 1..shadow.eof : Content[x] = ByteIn(parts, x)
<1>1. Content = [x \in 1..shadow.eof |-> ByteIn(parts, x)]
  BY Zenon DEF Content, ByteAt, ByteIn
<1>2. \A x \in 1..shadow.eof : ByteIn(parts, x) \in Data
  <2> SUFFICES ASSUME NEW x \in 1..shadow.eof
               PROVE  ByteIn(parts, x) \in Data
    OBVIOUS
  <2>1. PICK k \in 1..Len(parts) : parts[k].shadow_start < x /\ x =< parts[k].shadow_stop
    BY Located
  <2> QED
    BY <2>1, ByteIs
<1>3. shadow.eof \in Nat /\ Content \in [1..shadow.eof -> Data]
  BY <1>1, <1>2, Table, Zenon
<1>4. Content \in Seq(Data)
  BY <1>3, SeqDef, Zenon
<1>5. Len(Content) = shadow.eof
  BY <1>3, <1>4, LenProperties
<1> QED
  BY <1>1, <1>3, <1>4, <1>5, Zenon

\* The bytes [from, to) of the shadow apk are the sequence of these bytes.
LEMMA SliceIs ==
    ASSUME shadow \in Shadows, NEW from \in Nat, NEW to \in Nat, from =< to,
           from < to => to =< shadow.eof,
           NEW bytes \in Seq(Data), Len(bytes) = to - from,
           \A k \in 1..to - from : bytes[k] = ByteIn(parts, from + k)
    PROVE  SubSeq(Content, from + 1, to) = bytes
<1>1. CASE from = to
  <2>1. SubSeq(Content, from + 1, to) = <<>>
    BY <1>1, SubSeqEmpty
  <2>2. bytes = <<>>
    BY <1>1, EmptySeq
  <2> QED
    BY <2>1, <2>2
<1>2. CASE from < to
  <2>1. /\ Len(Content) = shadow.eof /\ Content \in Seq(Data)
        /\ \A x \in 1..shadow.eof : Content[x] = ByteIn(parts, x)
        /\ shadow.eof \in Nat
    BY ContentIs
  <2>2. \A k \in from + 1..to : k \in 1..Len(Content) /\ Content[k] \in Data
    BY <1>2, <2>1, ElementOfSeq
  <2>3. /\ SubSeq(Content, from + 1, to) \in Seq(Data)
        /\ Len(SubSeq(Content, from + 1, to)) = to - from
        /\ \A k \in 1..to - from : SubSeq(Content, from + 1, to)[k] = Content[from + k]
    <3> DEFINE low == from + 1
    <3>1. low \in Int /\ low =< to /\ \A k \in low..to : Content[k] \in Data
      BY <1>2, <2>2
    <3>2. to - low + 1 = to - from /\ \A k \in Int : low + k - 1 = from + k
      OBVIOUS
    <3> HIDE DEF low
    <3>3. /\ SubSeq(Content, low, to) \in Seq(Data)
          /\ Len(SubSeq(Content, low, to)) = (IF low =< to THEN to - low + 1 ELSE 0)
          /\ \A k \in 1..to - low + 1 : SubSeq(Content, low, to)[k] = Content[low + k - 1]
      BY <3>1, SubSeqProperties
    <3>4. \A k \in 1..to - from : SubSeq(Content, low, to)[k] = Content[from + k]
      <4> SUFFICES ASSUME NEW k \in 1..to - from
                   PROVE  SubSeq(Content, low, to)[k] = Content[from + k]
        OBVIOUS
      <4>1. k \in 1..to - low + 1 /\ low + k - 1 = from + k
        BY <3>2
      <4>2. SubSeq(Content, low, to)[k] = Content[low + k - 1]
        BY <3>3, <4>1
      <4> QED
        BY <4>1, <4>2, Zenon
    <3> QED
      BY <3>1, <3>2, <3>3, <3>4, Zenon DEF low
  <2>4. \A k \in 1..to - from : Content[from + k] = bytes[k]
    BY <1>2, <2>1
  <2> HIDE DEF Content
  <2> QED
    BY <2>3, <2>4, SeqEqual
<1> QED
  BY <1>1, <1>2

\* What the caller sees of the file itself does not change.
LEMMA FileSame ==
    ASSUME shadow' = shadow
    PROVE  UNCHANGED Flat!file
BY DEF Flat!file, ByteAt, parts, StartInFile

LEMMA SeenSame ==
    ASSUME UNCHANGED <<shadow, pc, pos_, ret, reply>>
    PROVE  UNCHANGED Flat!vars
<1>1. UNCHANGED Flat!file
  BY FileSame
<1> QED
  BY <1>1 DEF Flat!vars, Flat!file

LEMMA FlatInit == Init => Flat!Init
BY DEF Init, Flat!Init, Reply, Flat!Reply

\* A step that is no part of a read.
LEMMA FlatOthers ==
    ASSUME Inv, Fopen \/ ReadNothing \/ Ftell \/ Rewind \/ Fclose
    PROVE  Flat!Next
<1>1. /\ shadow' = shadow /\ ret' = ret /\ ret = 0 /\ pos_ \in Nat
      /\ shadow \in Shadows /\ pos_ - ret = pos_ /\ pos_' - ret' = pos_'
  BY DEF Inv, SafeInv, TypeOK, Progress, Fopen, ReadNothing, Ftell, Rewind, Fclose, call
<1>2. UNCHANGED Flat!file
  BY <1>1, FileSame
<1>3. CASE Fopen
  BY <1>1, <1>2, <1>3 DEF Fopen, Flat!Next, Flat!Open, Flat!Reply, Reply
<1>4. CASE ReadNothing
  <2>1. PICK n \in Counts : AsInt(n) =< 0
    BY <1>4 DEF ReadNothing
  <2>2. Flat!Slice(pos_, pos_) = <<>>
    BY <1>1, SubSeqEmpty DEF Flat!Slice
  <2>3. pos_ - pos_ = 0
    BY <1>1
  <2>4. Flat!Read
    BY <1>1, <1>2, <1>4, <2>1, <2>2, <2>3 DEF ReadNothing, Flat!Read, Flat!Reply, Reply
  <2> QED
    BY <2>4 DEF Flat!Next
<1>5. CASE Ftell
  BY <1>1, <1>2, <1>5 DEF Ftell, Flat!Next, Flat!Tell, Flat!Reply, Reply
<1>6. CASE Rewind
  BY <1>1, <1>2, <1>6 DEF Rewind, Flat!Next, Flat!Rewind, Flat!Reply, Reply
<1>7. CASE Fclose
  BY <1>1, <1>2, <1>7 DEF Fclose, Flat!Next, Flat!Close, Flat!Reply, Reply
<1> QED
  BY <1>3, <1>4, <1>5, <1>6, <1>7

\* A read that has found something to deliver and returns.
LEMMA FlatRead ==
    ASSUME Inv, pc = "reading", NEW bytes \in Seq(Data), NEW m \in Nat,
           Len(bytes) = m, m =< pos_', pos_' - m = pos_ - ret,
           pos_' = (IF shadow.eof >= end THEN end
                    ELSE IF pos_ - ret =< shadow.eof THEN shadow.eof ELSE pos_ - ret),
           pos_' \in Nat, m > 0 => pos_' =< shadow.eof,
           \A k \in 1..m : bytes[k] = ByteIn(parts, (pos_' - m) + k),
           pc' = "idle", ret' = 0, reply' = Reply("read", m, bytes), shadow' = shadow
    PROVE  Flat!Read
<1> DEFINE start == pos_ - ret
<1>1. /\ shadow \in Shadows /\ start \in Nat /\ pos_' = start + m
      /\ pos_' - ret' = pos_' /\ shadow.eof \in Nat
  <2>1. shadow \in Shadows /\ shadow.eof \in Nat
    BY Table DEF Inv, SafeInv, TypeOK
  <2>2. pos_ \in Nat /\ ret \in Nat /\ ret =< pos_
    BY DEF Inv, SafeInv, TypeOK, Progress
  <2>3. start \in Nat /\ pos_' = start + m /\ pos_' - ret' = pos_'
    BY <2>2
  <2> QED
    BY <2>1, <2>3
<1>2. PICK n \in Counts : ~ (AsInt(n) =< 0) /\ end = start + n
  BY DEF Inv, Delivered
<1>3. n \in Nat
  BY RequestsAssumption
<1> HIDE DEF start
<1>4. SubSeq(Content, start + 1, pos_') = bytes
  <2>1. /\ start \in Nat /\ pos_' \in Nat /\ start =< pos_' /\ pos_' - start = m
        /\ start < pos_' => pos_' =< shadow.eof
        /\ pos_' - m = start
    BY <1>1
  <2>2. \A k \in 1..pos_' - start : bytes[k] = ByteIn(parts, start + k)
    BY <2>1
  <2> QED
    BY <1>1, <2>1, <2>2, SliceIs
<1>5. Flat!Eof = shadow.eof
  BY <1>1, ContentIs DEF Flat!Eof, Content
<1>6. UNCHANGED Flat!file
  BY FileSame
<1> DEFINE last == Flat!Smaller(start + n, shadow.eof)
           to == IF n \in {c \in Counts : ~ (AsInt(c) =< 0)} /\ last > start THEN last ELSE start
<1>7. to = pos_'
  BY <1>1, <1>2, <1>3 DEF Flat!Smaller, start
<1>8. pos_' - start = m
  BY <1>1
<1> HIDE DEF to
<1>9. Flat!Reply("read", to - start, Flat!Slice(start, to)) = reply'
  BY <1>4, <1>7, <1>8 DEF Flat!Reply, Reply, Flat!Slice, Content
<1>10. pos_' - ret' = to
  BY <1>1, <1>7
<1>11. LET e == Flat!Smaller(start + n, Flat!Eof)
           t == IF n \in {c \in Counts : ~ (AsInt(c) =< 0)} /\ e > start THEN e ELSE start
       IN  reply' = Flat!Reply("read", t - start, Flat!Slice(start, t)) /\ pos_' - ret' = t
  BY <1>5, <1>9, <1>10, Zenon DEF to
<1>12. UNCHANGED (pc \in {"idle", "reading"}) /\ pc \in {"idle", "reading"}
  OBVIOUS
<1> QED
  BY <1>2, <1>6, <1>11, <1>12, Zenon DEF Flat!Read, start

\* The process ends when a file cannot be opened.
LEMMA FlatAbort ==
    ASSUME Inv, pc \in {"idle", "reading"}, NEW f, CannotOpen(f)
    PROVE  Flat!Next
<1>1. UNCHANGED Flat!file
  BY FileSame DEF CannotOpen
<1>2. /\ pc' = "aborted" /\ pos_' = pos_ /\ ret' = ret
      /\ reply' = Reply("abort", 0, <<>>)
  BY DEF CannotOpen, call
<1> QED
  BY <1>1, <1>2 DEF Flat!Next, Flat!Abort, Flat!Reply, Reply

LEMMA FlatReadPartition ==
    ASSUME Inv, ReadPartition
    PROVE  Flat!Next \/ UNCHANGED Flat!vars
<1> DEFINE f == parts[i].file_index
           n == StopInFile(parts[i], end) - StartInFile(parts[i], begin)
           all == got \o Bytes(f, StartInFile(parts[i], begin), StopInFile(parts[i], end))
<1>1. pc = "reading" /\ i =< Len(parts) /\ begin < parts[i].shadow_stop
  BY DEF ReadPartition
<1>2. CASE CannotOpen(f)
  BY <1>1, <1>2, FlatAbort
<1>3. CASE ~ CannotOpen(f)
  <2>1. /\ pos_' = pos_ + n /\ shadow' = shadow
        /\ IF begin + n >= end
           THEN /\ pc' = "idle" /\ CallReturns
                /\ reply' = Reply("read", ret + n, all)
           ELSE /\ SetCall(begin + n, end, i + 1, ret + n, all)
                /\ UNCHANGED <<pc, reply>>
    BY <1>3 DEF ReadPartition
  <2>2. /\ n \in Nat
        /\ begin + n = (IF end >= parts[i].shadow_stop THEN parts[i].shadow_stop ELSE end)
        /\ begin + n =< shadow.eof /\ i \in 1..Len(parts)
    BY <1>1, PartIs DEF Inv
  <2>3. /\ ret + n \in Nat /\ ret + n =< pos_ + n /\ all \in Seq(Data)
        /\ all = [x \in 1..ret + n |-> ByteIn(parts, (pos_ + n) - (ret + n) + x)]
    BY <1>1, AllIs
  <2>4. /\ pos_ \in Nat /\ begin = pos_ /\ end \in Nat /\ begin =< end
        /\ ret \in Nat /\ ret =< pos_ /\ shadow \in Shadows /\ shadow.eof \in Nat
    BY <1>1, Table DEF Inv, SafeInv, TypeOK, Progress
  <2> HIDE DEF f, n, all
  <2>5. CASE begin + n >= end
    <3>1. pc' = "idle" /\ ret' = 0 /\ reply' = Reply("read", ret + n, all)
      BY <2>1, <2>5 DEF CallReturns, SetCall
    <3>2. Len(all) = ret + n
      BY <2>3, LenProperties
    <3>3. /\ pos_' \in Nat /\ pos_' = end /\ shadow.eof >= end
          /\ pos_' - (ret + n) = pos_ - ret /\ ret + n =< pos_'
      <4>1. parts[i].shadow_stop \in Nat
        BY <2>2, <2>4, Table
      <4>2. begin + n = end
        BY <2>2, <2>4, <2>5, <4>1
      <4>3. pos_' = pos_ + n /\ pos_' = end
        BY <2>1, <2>4, <4>2
      <4>4. pos_' - (ret + n) = pos_ - ret
        BY <2>2, <2>4, <4>3
      <4> QED
        BY <2>2, <2>3, <2>4, <4>2, <4>3, <4>4
    <3>4. \A k \in 1..ret + n : all[k] = ByteIn(parts, (pos_' - (ret + n)) + k)
      BY <2>1, <2>3
    <3>5. Flat!Read
      <4> DEFINE m == ret + n
      <4>1. m \in Nat /\ Len(all) = m /\ m =< pos_' /\ pos_' - m = pos_ - ret
        BY <2>3, <3>2, <3>3
      <4>2. \A k \in 1..m : all[k] = ByteIn(parts, (pos_' - m) + k)
        BY <3>4
      <4>3. reply' = Reply("read", m, all)
        BY <3>1
      <4> HIDE DEF m
      <4> QED
        BY <1>1, <2>1, <2>3, <3>1, <3>3, <4>1, <4>2, <4>3, FlatRead
    <3> QED
      BY <3>5 DEF Flat!Next
  <2>6. CASE ~ (begin + n >= end)
    <3>1. /\ ret' = ret + n /\ pc' = pc /\ reply' = reply
      BY <2>1, <2>6 DEF SetCall
    <3>2. pos_' - ret' = pos_ - ret
      BY <2>1, <2>2, <2>4, <3>1
    <3>3. UNCHANGED Flat!file
      BY <2>1, FileSame
    <3> QED
      BY <3>1, <3>2, <3>3 DEF Flat!vars, Flat!file
  <2> QED
    BY <2>5, <2>6
<1> QED
  BY <1>2, <1>3

LEMMA FlatReadToEof ==
    ASSUME Inv, ReadToEof
    PROVE  Flat!Next
<1>1. /\ pc = "reading" /\ pc' = "idle" /\ ret' = 0 /\ pos_' = pos_ /\ shadow' = shadow
      /\ i > Len(parts) /\ reply' = Reply("read", ret, got)
  BY DEF ReadToEof, CallReturns, SetCall
<1>2. /\ shadow \in Shadows /\ shadow.eof \in Nat /\ Len(parts) \in Nat
      /\ i \in 1..(Len(parts) + 1) /\ ret \in Nat /\ got \in Seq(Data)
      /\ pos_ \in Nat /\ begin = pos_ /\ end \in Nat /\ begin =< end /\ ret =< pos_
      /\ i > 1 => parts[i - 1].shadow_stop =< begin
      /\ ret > 0 => pos_ =< shadow.eof
      /\ got = [x \in 1..ret |-> ByteIn(parts, pos_ - ret + x)]
  BY <1>1, Table DEF Inv, SafeInv, TypeOK, Progress, Delivered, Data
<1>3. shadow.eof =< pos_
  <2>1. i - 1 = Len(parts)
    BY <1>1, <1>2
  <2>2. shadow.eof = (IF Len(parts) = 0 THEN 0 ELSE parts[Len(parts)].shadow_stop)
    BY <1>2, Table
  <2> QED
    BY <1>2, <2>1, <2>2
<1>4. pos_' = (IF shadow.eof >= end THEN end
               ELSE IF pos_ - ret =< shadow.eof THEN shadow.eof ELSE pos_ - ret)
  <2>1. CASE ret > 0
    BY <1>1, <1>2, <1>3, <2>1
  <2>2. CASE ret = 0
    BY <1>1, <1>2, <1>3, <2>2
  <2> QED
    BY <1>2, <2>1, <2>2
<1>5. Len(got) = ret /\ \A k \in 1..ret : got[k] = ByteIn(parts, (pos_' - ret) + k)
  BY <1>1, <1>2, LenProperties
<1>6. Flat!Read
  BY <1>1, <1>2, <1>4, <1>5, FlatRead
<1> QED
  BY <1>6 DEF Flat!Next

LEMMA FlatSeek ==
    ASSUME Inv, Fseek
    PROVE  Flat!Next
<1>1. PICK base \in {0, pos_, shadow.eof} : \E offset \in Offsets :
          LET new == base + offset
              fails == new < 0 \/ new > shadow.eof
          IN  /\ pos_' = IF fails THEN pos_ ELSE new
              /\ reply' = Reply("seek", IF fails THEN -1 ELSE 0, <<>>)
  BY DEF Fseek
<1>2. PICK offset \in Offsets :
          LET new == base + offset
              fails == new < 0 \/ new > shadow.eof
          IN  /\ pos_' = IF fails THEN pos_ ELSE new
              /\ reply' = Reply("seek", IF fails THEN -1 ELSE 0, <<>>)
  BY <1>1
<1>3. /\ pc = "idle" /\ pc' = pc /\ shadow' = shadow /\ ret' = ret /\ ret = 0
      /\ shadow \in Shadows /\ pos_ \in Nat
  BY DEF Fseek, call, Inv, SafeInv, TypeOK, Progress
<1>4. base \in Nat /\ offset \in Int /\ shadow.eof \in Nat
  BY <1>3, Table, RequestsAssumption
<1>5. pos_ - ret = pos_ /\ pos_' - ret' = pos_'
  <2>1. ret' = 0 /\ pos_ - 0 = pos_
    BY <1>3
  <2>2. CASE pos_' = pos_
    BY <1>3, <2>1, <2>2
  <2>3. CASE pos_' = base + offset
    BY <1>3, <1>4, <2>1, <2>3
  <2> QED
    BY <1>2, <2>2, <2>3
<1>6. UNCHANGED Flat!file
  BY <1>3, FileSame
<1>7. Flat!Eof = shadow.eof
  BY <1>3, ContentIs DEF Flat!Eof, Content
<1>8. IF base + offset \in 0..Flat!Eof
      THEN reply' = Flat!Reply("seek", 0, <<>>) /\ pos_' - ret' = base + offset
      ELSE reply' = Flat!Reply("seek", -1, <<>>) /\ pos_' - ret' = pos_ - ret
  BY <1>2, <1>4, <1>5, <1>7 DEF Reply, Flat!Reply
<1>9. base \in {0, pos_ - ret, Flat!Eof}
  BY <1>5, <1>7
<1>10. UNCHANGED (pc \in {"idle", "reading"}) /\ pc \in {"idle", "reading"}
  BY <1>3
<1>11. Flat!Seek
  BY <1>6, <1>8, <1>9, <1>10, Zenon DEF Flat!Seek
<1> QED
  BY <1>11 DEF Flat!Next

LEMMA FlatNext ==
    ASSUME Inv, [Next]_vars
    PROVE  Flat!Next \/ Fgets \/ UNCHANGED Flat!vars
<1>1. CASE Fopen \/ ReadNothing \/ Ftell \/ Rewind \/ Fclose
  BY <1>1, FlatOthers
<1>2. CASE Read
  <2>1. UNCHANGED Flat!file
    BY <1>2, FileSame DEF Read
  <2>2. /\ pc = "idle" /\ pc' = "reading" /\ ret = 0 /\ ret' = 0
        /\ pos_' = pos_ /\ reply' = reply
    BY <1>2 DEF Read, SetCall, Inv, SafeInv, Progress
  <2> QED
    BY <2>1, <2>2 DEF Flat!vars, Flat!file
<1>3. CASE SkipPartition \/ UNCHANGED vars
  BY <1>3, SeenSame DEF SkipPartition, vars, call
<1>4. CASE ReadPartition
  BY <1>4, FlatReadPartition
<1>5. CASE ReadToEof
  BY <1>5, FlatReadToEof
<1>6. CASE FgetsAborts
  BY <1>6, FlatAbort DEF FgetsAborts
<1>7. CASE Fseek
  BY <1>7, FlatSeek
<1> QED
  BY <1>1, <1>2, <1>3, <1>4, <1>5, <1>6, <1>7 DEF Next, Reading, Aborted

\* Every call but fgets answers and delivers what the same call on the flat
\* shadow apk would, and a read in progress is not seen.
THEOREM CallsAreFlat == Spec => Flat!Init /\ [][Flat!Next \/ Fgets]_(Flat!vars)
<1>1. Inv /\ [Next]_vars => [Flat!Next \/ Fgets]_(Flat!vars)
  BY FlatNext
<1> QED
  BY <1>1, FlatInit, Invariance, PTL DEF Spec

-----------------------------------------------------------------------------
(***************************************************************************)
(* fgets.  It stops where a line of the real file does, which is where one *)
(* of the shadow apk does only if no line goes on past a partition.        *)
(***************************************************************************)

\* The end of a line is the only place that is no later than a newline, and
\* has one before it or is the limit.
LEMMA FirstUnique ==
    ASSUME NEW from \in Nat, NEW limit \in Nat, from =< limit,
           NEW S, S \subseteq from + 1..limit,
           NEW r \in from..limit, r = limit \/ r \in S, \A o \in S : r =< o
    PROVE  FirstOf(S, limit) = r
<1>1. /\ FirstOf(S, limit) \in from..limit
      /\ FirstOf(S, limit) = limit \/ FirstOf(S, limit) \in S
      /\ \A o \in S : FirstOf(S, limit) =< o
  BY FirstStop
<1> DEFINE first == FirstOf(S, limit)
<1> HIDE DEF first
<1>2. first \in Int /\ r \in Int /\ first =< limit /\ r =< limit
  BY <1>1 DEF first
<1>3. r =< first /\ first =< r
  BY <1>1, <1>2 DEF first
<1> QED
  BY <1>2, <1>3 DEF first

\* Where a line read from the real file ends, in the shadow apk.
LEMMA SameLineEnd ==
    ASSUME Inv, LinesEnd, pc = "idle", After # {}, NEW size \in Nat \ {0}
    PROVE  LET f == parts[Here].file_index
               from == StartInFile(parts[Here], pos_)
               to == LineStop(f, from, size)
           IN  /\ Flat!LineEnd(size) = pos_ + (to - from)
               /\ pos_ + (to - from) =< shadow.eof
               /\ \A k \in 1..to - from :
                     ByteIn(parts, pos_ + k) = <<f, from + k - 1>>
<1> DEFINE part == parts[Here]
           f == part.file_index
           start == part.shadow_start
           stop == part.shadow_stop
           low == part.start_in_file
           high == part.stop_in_file
           from == StartInFile(part, pos_)
           to == LineStop(f, from, size)
           room == shadow.sizes[f]
           eof == shadow.eof
<1>1. shadow \in Shadows /\ pos_ \in Nat /\ ret = 0
  BY DEF Inv, SafeInv, TypeOK, Progress
<1>2. /\ Here \in 1..Len(parts) /\ f \in Files
      /\ start =< pos_ /\ pos_ < stop
      /\ from \in Nat /\ from < high /\ from =< room
  BY GetsFrom DEF Inv
<1>3. /\ start \in Nat /\ stop \in Nat /\ low \in Nat /\ high \in Nat
      /\ stop - start = high - low /\ high =< room /\ room \in Nat
      /\ stop =< eof /\ eof \in Nat
  BY <1>1, <1>2, Table, Ordered
<1>4. from = pos_ - start + low
  BY DEF StartInFile
<1>5. <<f, high - 1>> \in shadow.newlines
  <2>1. low < high
    BY <1>1, <1>2, <1>3
  <2> QED
    BY <1>1, <1>2, <2>1 DEF LinesEnd, parts
<1>6. \A x \in Int : start < x /\ x =< stop
          => ByteIn(parts, x) = <<f, x - 1 - start + low>>
  BY <1>1, <1>2, ByteIs
<1>7. LET limit == Smaller(from + size - 1, room) IN
      /\ limit \in Nat /\ to \in from..limit
      /\ to = limit \/ (to > from /\ <<f, to - 1>> \in shadow.newlines)
      /\ \A o \in from + 1..limit : <<f, o - 1>> \in shadow.newlines => to =< o
  BY <1>1, <1>2, LineStopIs, Zenon
<1> HIDE DEF part, f, start, stop, low, high, from, to, room, eof
<1>8. to \in Nat /\ from =< to /\ to =< high
  <2>1. Smaller(from + size - 1, room) \in Nat
    BY <1>7
  <2>2. CASE high =< Smaller(from + size - 1, room)
    <3>1. high \in from + 1..Smaller(from + size - 1, room)
      BY <1>2, <1>3, <2>1, <2>2
    <3> QED
      BY <1>2, <1>3, <1>5, <1>7, <3>1
  <2>3. CASE Smaller(from + size - 1, room) < high
    BY <1>2, <1>3, <1>7, <2>1, <2>3
  <2> QED
    BY <1>3, <2>1, <2>2, <2>3
<1> DEFINE r == pos_ + (to - from)
<1>9. r \in Nat /\ pos_ =< r /\ r =< stop /\ r =< eof
  BY <1>1, <1>2, <1>3, <1>4, <1>8
<1>10. \A k \in 1..to - from : ByteIn(parts, pos_ + k) = <<f, from + k - 1>>
  <2> SUFFICES ASSUME NEW k \in 1..to - from
               PROVE  ByteIn(parts, pos_ + k) = <<f, from + k - 1>>
    OBVIOUS
  <2> DEFINE x == pos_ + k
  <2>1. /\ x \in Int /\ start < x /\ x =< stop
        /\ x - 1 - start + low = from + k - 1
    BY <1>1, <1>2, <1>3, <1>4, <1>8, <1>9
  <2> HIDE DEF x
  <2>2. ByteIn(parts, x) = <<f, x - 1 - start + low>>
    BY <1>6, <2>1
  <2> QED
    BY <2>1, <2>2, Zenon DEF x
<1> DEFINE limit == Flat!Smaller(pos_ + size - 1, eof)
           ends == {x \in pos_ + 1..limit : Content[x] \in shadow.newlines}
<1>11. /\ limit \in Nat /\ pos_ =< limit /\ limit =< eof
       /\ limit = (IF pos_ + size - 1 < eof THEN pos_ + size - 1 ELSE eof)
  BY <1>1, <1>2, <1>3 DEF Flat!Smaller
<1>12. r =< limit
  <2>1. to =< from + size - 1
    BY <1>2, <1>3, <1>7, <1>8 DEF Smaller
  <2> QED
    BY <1>1, <1>2, <1>8, <1>9, <1>11, <2>1
<1>13. \A x \in pos_ + 1..limit : x =< stop
           => (x \in ends <=> <<f, x - pos_ + from - 1>> \in shadow.newlines)
  <2> SUFFICES ASSUME NEW x \in pos_ + 1..limit, x =< stop
               PROVE  x \in ends <=> <<f, x - pos_ + from - 1>> \in shadow.newlines
    OBVIOUS
  <2>1. /\ x \in Int /\ start < x /\ x \in 1..eof
        /\ x - 1 - start + low = x - pos_ + from - 1
    BY <1>1, <1>2, <1>3, <1>4, <1>11
  <2>2. Content[x] = ByteIn(parts, x)
    BY <1>1, <2>1, ContentIs DEF eof
  <2>3. Content[x] = <<f, x - pos_ + from - 1>>
    BY <1>6, <2>1, <2>2
  <2> QED
    BY <2>3
<1>14. r = limit \/ r \in ends
  <2>1. CASE to > from /\ <<f, to - 1>> \in shadow.newlines
    <3>1. /\ r \in pos_ + 1..limit /\ r =< stop /\ r - pos_ + from - 1 = to - 1
      BY <1>1, <1>2, <1>8, <1>9, <1>11, <1>12, <2>1
    <3>2. <<f, r - pos_ + from - 1>> \in shadow.newlines
      BY <2>1, <3>1
    <3> QED
      BY <1>13, <3>1, <3>2
  <2>2. CASE to = from + size - 1
    BY <1>1, <1>2, <1>8, <1>9, <1>11, <1>12, <2>2
  <2>3. CASE to = room
    <3>1. to = high /\ r = stop
      BY <1>1, <1>2, <1>3, <1>4, <1>8, <2>3
    <3>2. /\ r \in pos_ + 1..limit /\ r - pos_ + from - 1 = high - 1
      BY <1>1, <1>2, <1>3, <1>8, <1>9, <1>11, <1>12, <3>1
    <3> QED
      BY <1>5, <1>9, <1>13, <3>1, <3>2
  <2> QED
    BY <1>7, <2>1, <2>2, <2>3 DEF Smaller
<1>15. \A x \in ends : r =< x
  <2> SUFFICES ASSUME NEW x \in ends, ~ (r =< x)
               PROVE  FALSE
    OBVIOUS
  <2>1. x \in pos_ + 1..limit /\ x < r /\ x =< stop
    BY <1>3, <1>9, <1>11
  <2>2. <<f, x - pos_ + from - 1>> \in shadow.newlines
    BY <1>13, <2>1
  <2> DEFINE o == x - pos_ + from
  <2>3. /\ o < to /\ o \in from + 1..Smaller(from + size - 1, room)
        /\ x - pos_ + from - 1 = o - 1
    BY <1>1, <1>2, <1>7, <1>8, <1>9, <2>1
  <2> HIDE DEF o
  <2> QED
    BY <1>7, <1>8, <2>2, <2>3
<1>16. FirstOf(ends, limit) = r
  <2>1. ends \subseteq pos_ + 1..limit /\ r \in pos_..limit
    BY <1>9, <1>11, <1>12
  <2> HIDE DEF ends, limit, r
  <2>2. /\ pos_ \in Nat /\ limit \in Nat /\ pos_ =< limit
        /\ r = limit \/ r \in ends
        /\ \A x \in ends : r =< x
    BY <1>1, <1>11, <1>14, <1>15, Zenon
  <2> QED
    BY <2>1, <2>2, FirstUnique, Zenon
<1>17. Flat!LineEnd(size) = FirstOf(ends, limit)
  <2>1. Flat!Eof = eof /\ pos_ - ret = pos_
    BY <1>1, ContentIs DEF Flat!Eof, Content, eof
  <2> DEFINE last == Flat!Smaller((pos_ - ret) + (size - 1), Flat!Eof)
             found == {x \in (pos_ - ret) + 1..last : Content[x] \in shadow.newlines}
  <2>2. last = limit
    BY <2>1, Zenon
  <2>3. found = ends
    BY <2>1, <2>2, Zenon
  <2>4. Flat!LineEnd(size) = FirstOf(found, last)
    BY Zenon DEF Flat!LineEnd, FirstOf, Content
  <2> HIDE DEF last, found, ends, limit
  <2> QED
    BY <2>2, <2>3, <2>4
<1> QED
  BY <1>9, <1>10, <1>16, <1>17 DEF r, from, to, f, part, eof

LEMMA FlatGets ==
    ASSUME Inv, LinesEnd, Fgets
    PROVE  Flat!Next
<1>1. /\ pc = "idle" /\ pc' = pc /\ shadow' = shadow /\ ret' = ret /\ ret = 0
      /\ shadow \in Shadows /\ pos_ \in Nat /\ shadow.eof \in Nat
  BY Table DEF Fgets, call, Inv, SafeInv, TypeOK, Progress
<1>2. PICK size \in Counts \ {0} :
          \/ /\ After = {}
             /\ reply' = Reply("gets", 0, <<>>)
             /\ UNCHANGED <<pc, pos_, fp_array_>>
          \/ /\ After # {}
             /\ LET f == parts[Here].file_index
                    from == StartInFile(parts[Here], pos_)
                    to == LineStop(f, from, size)
                IN  /\ fp_array_' = Prepared(f)
                    /\ reply' = Reply("gets", 1, Bytes(f, from, to))
                    /\ pos_' = pos_ + (to - from)
             /\ UNCHANGED pc
  BY DEF Fgets
<1>3. UNCHANGED Flat!file
  BY <1>1, FileSame
<1>4. Flat!Eof = shadow.eof /\ pos_ - ret = pos_
  BY <1>1, ContentIs DEF Flat!Eof, Content
<1>5. UNCHANGED (pc \in {"idle", "reading"}) /\ pc \in {"idle", "reading"}
  BY <1>1
<1>6. CASE After = {}
  <2>1. pos_ >= shadow.eof
    BY <1>1, <1>6, AfterEof
  <2>2. reply' = Flat!Reply("gets", 0, <<>>) /\ pos_' - ret' = pos_ - ret
    BY <1>1, <1>2, <1>6 DEF Reply, Flat!Reply
  <2>3. pos_ - ret >= Flat!Eof
    BY <1>4, <2>1
  <2>4. Flat!Gets
    BY <1>2, <1>3, <1>5, <2>2, <2>3, Zenon DEF Flat!Gets
  <2> QED
    BY <2>4 DEF Flat!Next
<1>7. CASE After # {}
  <2> DEFINE f == parts[Here].file_index
             from == StartInFile(parts[Here], pos_)
             to == LineStop(f, from, size)
             r == pos_ + (to - from)
  <2>1. reply' = Reply("gets", 1, Bytes(f, from, to)) /\ pos_' = r
    BY <1>2, <1>7
  <2>2. size \in Nat \ {0}
    BY RequestsAssumption
  <2>3. /\ to \in Nat /\ from \in Nat /\ from =< to
        /\ Bytes(f, from, to) = [k \in 1..to - from |-> <<f, from + k - 1>>]
        /\ Bytes(f, from, to) \in Seq(Data)
        /\ Len(Bytes(f, from, to)) = to - from
    BY <1>7, <2>2, GetsFrom, GetsLine DEF Inv
  <2>4. /\ Flat!LineEnd(size) = r /\ r =< shadow.eof
        /\ \A k \in 1..to - from : ByteIn(parts, pos_ + k) = <<f, from + k - 1>>
    BY <1>1, <1>7, <2>2, SameLineEnd
  <2>5. ~ (pos_ >= shadow.eof)
    BY <1>1, <1>7, AfterEof
  <2> DEFINE bytes == Bytes(f, from, to)
  <2> HIDE DEF f, from, to
  <2>6. r \in Nat /\ pos_ =< r /\ r - pos_ = to - from
    BY <1>1, <2>3
  <2>7. bytes \in Seq(Data) /\ Len(bytes) = r - pos_
    BY <2>3, <2>6
  <2>8. \A k \in 1..r - pos_ : bytes[k] = ByteIn(parts, pos_ + k)
    BY <2>3, <2>4, <2>6
  <2>9. r =< shadow.eof
    BY <2>4
  <2> HIDE DEF r, bytes
  <2>10. SubSeq(Content, pos_ + 1, r) = bytes
    BY <1>1, <2>6, <2>7, <2>8, <2>9, SliceIs
  <2>11. Flat!Slice(pos_ - ret, Flat!LineEnd(size)) = bytes
    BY <1>4, <2>4, <2>10 DEF Flat!Slice, Content, r
  <2>12. reply' = Flat!Reply("gets", 1, Flat!Slice(pos_ - ret, Flat!LineEnd(size)))
    BY <2>1, <2>11 DEF Reply, Flat!Reply, bytes
  <2>13. pos_' - ret' = Flat!LineEnd(size)
    BY <1>1, <2>1, <2>4, <2>6 DEF r
  <2>14. ~ (pos_ - ret >= Flat!Eof)
    BY <1>4, <2>5
  <2>15. Flat!Gets
    BY <1>2, <1>3, <1>5, <2>12, <2>13, <2>14, Zenon DEF Flat!Gets
  <2> QED
    BY <2>15 DEF Flat!Next
<1> QED
  BY <1>6, <1>7

\* When no line goes on past a partition, fgets is that of the flat file too,
\* and a handle implements it altogether.
THEOREM HandleIsOneFile == Spec /\ LinesEnd => ReadsAsOneFile
<1> SUFFICES ASSUME LinesEnd
             PROVE  Spec => ReadsAsOneFile
  OBVIOUS
<1>1. Inv /\ [Next]_vars => [Flat!Next]_(Flat!vars)
  BY FlatNext, FlatGets
<1> QED
  BY <1>1, FlatInit, Invariance, PTL DEF Spec, ReadsAsOneFile, Flat!Spec
=============================================================================
