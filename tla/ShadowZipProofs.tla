--------------------------- MODULE ShadowZipProofs ---------------------------
(***************************************************************************)
(* Proofs about ShadowZip, for every set of well-formed packages.          *)
(***************************************************************************)
EXTENDS ShadowZip, SequenceTheorems, TLAPS

-----------------------------------------------------------------------------
(***************************************************************************)
(* The partition table: appending a partition, growing the last one.       *)
(***************************************************************************)
\* The members of a FilePartitionInfo, and of the one its constructor makes.
LEMMA PartitionFields ==
    ASSUME NEW part \in FilePartitionInfo
    PROVE  /\ part.shadow_start \in Nat /\ part.shadow_stop \in Nat
           /\ part.file_index \in Nat
           /\ part.start_in_file \in Nat /\ part.stop_in_file \in Nat
BY DEF FilePartitionInfo

LEMMA GrownFields ==
    ASSUME NEW part \in FilePartitionInfo, NEW size \in Nat
    PROVE  /\ Grown(part, size) \in FilePartitionInfo
           /\ Grown(part, size).shadow_start = part.shadow_start
           /\ Grown(part, size).start_in_file = part.start_in_file
           /\ Grown(part, size).file_index = part.file_index
           /\ Grown(part, size).shadow_stop = part.shadow_stop + size
           /\ Grown(part, size).stop_in_file = part.stop_in_file + size
<1>1. Grown(part, size) \in FilePartitionInfo
  BY DEF Grown, Partition, FilePartitionInfo
<1>2. /\ Grown(part, size).shadow_start = part.shadow_start
      /\ Grown(part, size).start_in_file = part.start_in_file
      /\ Grown(part, size).file_index = part.file_index
  BY DEF Grown, Partition
<1>3. Grown(part, size).shadow_stop = part.shadow_stop + size
  BY DEF Grown, Partition
<1>4. Grown(part, size).stop_in_file = part.stop_in_file + size
  BY DEF Grown, Partition
<1> QED BY <1>1, <1>2, <1>3, <1>4

\* A partition that begins where the table stops extends the tiling.
LEMMA TilesAppend ==
    ASSUME NEW parts \in Seq(FilePartitionInfo), NEW part \in FilePartitionInfo,
           Tiles(parts, part.shadow_start),
           part.shadow_start =< part.shadow_stop,
           part.start_in_file =< part.stop_in_file,
           part.shadow_stop = part.shadow_start + (part.stop_in_file - part.start_in_file)
    PROVE  Tiles(Append(parts, part), part.shadow_stop)
<1> DEFINE new == Append(parts, part)
<1>1. /\ new \in Seq(FilePartitionInfo)
      /\ Len(new) = Len(parts) + 1 /\ Len(parts) \in Nat
      /\ \A k \in 1..Len(parts) : new[k] = parts[k]
      /\ new[Len(parts) + 1] = part
  BY AppendProperties, LenProperties
<1>2. \A k \in 1..Len(new) :
          /\ new[k].shadow_start = StopBefore(new, k)
          /\ new[k].shadow_start =< new[k].shadow_stop
          /\ new[k].start_in_file =< new[k].stop_in_file
          /\ new[k].shadow_stop
               = new[k].shadow_start + (new[k].stop_in_file - new[k].start_in_file)
  <2> SUFFICES ASSUME NEW k \in 1..Len(new)
               PROVE  /\ new[k].shadow_start = StopBefore(new, k)
                      /\ new[k].shadow_start =< new[k].shadow_stop
                      /\ new[k].start_in_file =< new[k].stop_in_file
                      /\ new[k].shadow_stop
                           = new[k].shadow_start + (new[k].stop_in_file - new[k].start_in_file)
    OBVIOUS
  <2> HIDE DEF new
  <2>1. CASE k \in 1..Len(parts)
    BY <1>1, <2>1 DEF Tiles, StopBefore
  <2>2. CASE k = Len(parts) + 1
    BY <1>1, <2>2 DEF Tiles, StopBefore
  <2> QED BY <1>1, <2>1, <2>2
<1>3. part.shadow_stop = StopBefore(new, Len(new) + 1)
  <2> HIDE DEF new
  <2> QED BY <1>1 DEF StopBefore
<1> QED BY <1>2, <1>3 DEF Tiles

\* What growing the last partition of a table gives.
LEMMA GrownLast ==
    ASSUME NEW parts \in Seq(FilePartitionInfo), Len(parts) > 0, NEW size \in Nat
    PROVE  LET new == [parts EXCEPT ![Len(parts)] = Grown(@, size)] IN
           /\ new \in Seq(FilePartitionInfo)
           /\ Len(new) = Len(parts)
           /\ \A k \in 1..(Len(parts) - 1) : new[k] = parts[k]
           /\ new[Len(parts)].shadow_start = parts[Len(parts)].shadow_start
           /\ new[Len(parts)].start_in_file = parts[Len(parts)].start_in_file
           /\ new[Len(parts)].file_index = parts[Len(parts)].file_index
           /\ new[Len(parts)].shadow_stop = parts[Len(parts)].shadow_stop + size
           /\ new[Len(parts)].stop_in_file = parts[Len(parts)].stop_in_file + size
<1> DEFINE last == Len(parts)
<1>1. last \in 1..Len(parts)
  BY LenProperties
<1>2. parts[last] \in FilePartitionInfo
  BY <1>1, ElementOfSeq
<1> DEFINE part == Grown(parts[last], size)
<1>3. /\ part \in FilePartitionInfo
      /\ part.shadow_start = parts[last].shadow_start
      /\ part.start_in_file = parts[last].start_in_file
      /\ part.file_index = parts[last].file_index
      /\ part.shadow_stop = parts[last].shadow_stop + size
      /\ part.stop_in_file = parts[last].stop_in_file + size
  BY <1>2, GrownFields
<1> HIDE DEF part
<1>4. /\ [parts EXCEPT ![last] = part] \in Seq(FilePartitionInfo)
      /\ Len([parts EXCEPT ![last] = part]) = Len(parts)
      /\ \A k \in 1..Len(parts) :
            [parts EXCEPT ![last] = part][k] = IF k = last THEN part ELSE parts[k]
  BY <1>1, <1>3, ExceptSeq
<1>5. [parts EXCEPT ![last] = part] = [parts EXCEPT ![Len(parts)] = Grown(@, size)]
  BY DEF part
<1> HIDE DEF last
<1>6. last = Len(parts) /\ last \in Nat /\ \A k \in 1..(last - 1) : k \in 1..Len(parts) /\ k # last
  BY <1>1 DEF last
<1> QED BY <1>1, <1>3, <1>4, <1>5, <1>6

\* Growing the last partition extends the tiling.
LEMMA TilesGrown ==
    ASSUME NEW parts \in Seq(FilePartitionInfo), Len(parts) > 0, NEW size \in Nat,
           NEW eof, Tiles(parts, eof)
    PROVE  Tiles([parts EXCEPT ![Len(parts)] = Grown(@, size)], eof + size)
<1> DEFINE new == [parts EXCEPT ![Len(parts)] = Grown(@, size)]
<1>1. /\ new \in Seq(FilePartitionInfo)
      /\ Len(new) = Len(parts)
      /\ \A k \in 1..(Len(parts) - 1) : new[k] = parts[k]
      /\ new[Len(parts)].shadow_start = parts[Len(parts)].shadow_start
      /\ new[Len(parts)].start_in_file = parts[Len(parts)].start_in_file
      /\ new[Len(parts)].shadow_stop = parts[Len(parts)].shadow_stop + size
      /\ new[Len(parts)].stop_in_file = parts[Len(parts)].stop_in_file + size
  BY GrownLast
<1>2. Len(parts) \in Nat /\ \A k \in 1..Len(parts) : parts[k] \in FilePartitionInfo
  BY LenProperties, ElementOfSeq
<1> HIDE DEF new
<1>3. ASSUME NEW k \in 1..Len(new)
      PROVE  /\ new[k].shadow_start = StopBefore(new, k)
             /\ new[k].shadow_start =< new[k].shadow_stop
             /\ new[k].start_in_file =< new[k].stop_in_file
             /\ new[k].shadow_stop
                  = new[k].shadow_start + (new[k].stop_in_file - new[k].start_in_file)
  <2>1. StopBefore(new, k) = StopBefore(parts, k)
    BY <1>1, <1>2 DEF StopBefore
  <2>2. /\ parts[k].shadow_start = StopBefore(parts, k)
        /\ parts[k].shadow_start =< parts[k].shadow_stop
        /\ parts[k].start_in_file =< parts[k].stop_in_file
        /\ parts[k].shadow_stop
             = parts[k].shadow_start + (parts[k].stop_in_file - parts[k].start_in_file)
    BY <1>1 DEF Tiles
  <2>3. /\ parts[k].shadow_start \in Nat /\ parts[k].shadow_stop \in Nat
        /\ parts[k].start_in_file \in Nat /\ parts[k].stop_in_file \in Nat
    BY <1>1, <1>2, PartitionFields
  <2>4. CASE k = Len(parts)
    <3>1. /\ new[k].shadow_start = parts[k].shadow_start
          /\ new[k].start_in_file = parts[k].start_in_file
          /\ new[k].shadow_stop = parts[k].shadow_stop + size
          /\ new[k].stop_in_file = parts[k].stop_in_file + size
      BY <1>1, <2>4
    <3>2. k \in 1..Len(parts)
      BY <1>1
    <3>3. new[k].shadow_start = StopBefore(new, k)
      BY <2>1, <2>2, <3>1, Zenon
    <3>4. /\ new[k].shadow_start =< new[k].shadow_stop
          /\ new[k].start_in_file =< new[k].stop_in_file
      BY <2>2, <2>3, <3>1, <3>2
    <3>5. new[k].shadow_stop
            = new[k].shadow_start + (new[k].stop_in_file - new[k].start_in_file)
      BY <2>2, <2>3, <3>1, <3>2
    <3> QED BY <3>3, <3>4, <3>5
  <2>5. CASE k \in 1..(Len(parts) - 1)
    BY <1>1, <2>1, <2>2, <2>5
  <2> QED BY <1>1, <1>2, <2>4, <2>5
<1>4. eof + size = StopBefore(new, Len(new) + 1)
  BY <1>1, <1>2 DEF Tiles, StopBefore
<1> QED BY <1>3, <1>4 DEF Tiles, new

\* What a table maps it still maps with one more partition.
LEMMA MapsAppend ==
    ASSUME NEW parts \in Seq(FilePartitionInfo), NEW part \in FilePartitionInfo,
           NEW x, NEW len, NEW f, NEW o, Maps(parts, x, len, f, o)
    PROVE  Maps(Append(parts, part), x, len, f, o)
<1>1. /\ Len(Append(parts, part)) = Len(parts) + 1 /\ Len(parts) \in Nat
      /\ \A k \in 1..Len(parts) : Append(parts, part)[k] = parts[k]
  BY AppendProperties, LenProperties
<1> QED BY <1>1 DEF Maps

\* What a table maps it still maps when its last partition has grown.
LEMMA MapsGrown ==
    ASSUME NEW parts \in Seq(FilePartitionInfo), Len(parts) > 0, NEW size \in Nat,
           NEW x \in Int, NEW len \in Int, NEW f, NEW o, Maps(parts, x, len, f, o)
    PROVE  Maps([parts EXCEPT ![Len(parts)] = Grown(@, size)], x, len, f, o)
<1> DEFINE new == [parts EXCEPT ![Len(parts)] = Grown(@, size)]
<1>1. /\ Len(new) = Len(parts)
      /\ \A k \in 1..(Len(parts) - 1) : new[k] = parts[k]
      /\ new[Len(parts)].shadow_start = parts[Len(parts)].shadow_start
      /\ new[Len(parts)].start_in_file = parts[Len(parts)].start_in_file
      /\ new[Len(parts)].file_index = parts[Len(parts)].file_index
      /\ new[Len(parts)].shadow_stop = parts[Len(parts)].shadow_stop + size
  BY GrownLast
<1>2. Len(parts) \in Nat /\ \A k \in 1..Len(parts) : parts[k] \in FilePartitionInfo
  BY LenProperties, ElementOfSeq
<1> HIDE DEF new
<1>3. PICK k \in 1..Len(parts) :
          /\ parts[k].file_index = f
          /\ parts[k].shadow_start =< x
          /\ x + len =< parts[k].shadow_stop
          /\ o - parts[k].start_in_file = x - parts[k].shadow_start
  BY DEF Maps
<1>4. /\ new[k].file_index = f
      /\ new[k].shadow_start =< x
      /\ x + len =< new[k].shadow_stop
      /\ o - new[k].start_in_file = x - new[k].shadow_start
  <2>1. CASE k = Len(parts)
    <3>1. parts[k].shadow_stop \in Nat
      BY <1>2 DEF FilePartitionInfo
    <3> QED BY <1>1, <1>3, <2>1, <3>1
  <2>2. CASE k \in 1..(Len(parts) - 1)
    BY <1>1, <1>3, <2>2
  <2> QED BY <1>2, <2>1, <2>2
<1> QED BY <1>1, <1>4 DEF Maps, new

-----------------------------------------------------------------------------
(***************************************************************************)
(* ZipEntry objects: the types of what init computes from them.            *)
(***************************************************************************)
LEMMA PointerFacts ==
    ASSUME TypeOK
    PROVE  /\ \A p \in Pointers :
                 /\ p[1] \in 0..last_file /\ p[2] \in 1..Count(p[1])
                 /\ p = <<p[1], p[2]>> /\ Rec(p) \in EntryType
           /\ \A f \in 0..last_file : \A k \in 1..Count(f) : <<f, k>> \in Pointers
           /\ \A f \in 0..last_file : Count(f) \in Nat
<1>1. ASSUME NEW f \in 0..last_file
      PROVE  disk[f].entries \in Seq(EntryType) /\ Count(f) \in Nat
  <2>1. disk[f] \in Archive
    BY DEF TypeOK
  <2>2. disk[f].entries \in Seq(EntryType)
    BY <2>1 DEF Archive
  <2> QED BY <2>2, LenProperties DEF Count
<1>2. ASSUME NEW p \in Pointers
      PROVE  /\ p[1] \in 0..last_file /\ p[2] \in 1..Count(p[1])
             /\ p = <<p[1], p[2]>>
  BY DEF Pointers
<1>3. ASSUME NEW p \in Pointers
      PROVE  Rec(p) \in EntryType
  BY <1>1, <1>2, ElementOfSeq DEF Rec, Count
<1>4. \A f \in 0..last_file : \A k \in 1..Count(f) : <<f, k>> \in Pointers
  BY DEF Pointers
<1> QED BY <1>1, <1>2, <1>3, <1>4

LEMMA EntryFacts ==
    ASSUME TypeOK, NEW p \in Pointers
    PROVE  /\ Rec(p).lfh \in Nat /\ Rec(p).extra \in Nat /\ Rec(p).name \in Names
           /\ Rec(p).cde \in Nat /\ Rec(p).stored \in BOOLEAN
           /\ entries[p].lfh \in Nat /\ entries[p].extra \in Nat
           /\ DataLen(Rec(p)) \in Nat
           /\ HeaderLen(Rec(p), entries[p].extra) \in Nat
           /\ HeaderLen(Rec(p), Rec(p).extra) \in Nat
           /\ \A y \in Nat : HeaderLen(Rec(p), entries[p].extra + y)
                              = HeaderLen(Rec(p), entries[p].extra) + y
<1>1. Rec(p) \in EntryType
  BY PointerFacts
<1>2. /\ Rec(p).lfh \in Nat /\ Rec(p).extra \in Nat /\ Rec(p).name \in Names
      /\ Rec(p).cde \in Nat /\ Rec(p).stored \in BOOLEAN
      /\ Rec(p).name_len \in Nat /\ Rec(p).compressed_size \in Nat
  BY <1>1 DEF EntryType
<1>3. entries[p] \in ZipEntry
  BY DEF TypeOK
<1>4. entries[p].lfh \in Nat /\ entries[p].extra \in Nat
  BY <1>3 DEF ZipEntry
<1>5. DataLen(Rec(p)) \in Nat
  BY <1>2 DEF DataLen, kDataDescriptorLen
<1>6. /\ HeaderLen(Rec(p), entries[p].extra) \in Nat
      /\ HeaderLen(Rec(p), Rec(p).extra) \in Nat
      /\ \A y \in Nat : HeaderLen(Rec(p), entries[p].extra + y)
                         = HeaderLen(Rec(p), entries[p].extra) + y
  BY <1>2, <1>4 DEF HeaderLen, kLFHLen
<1> QED BY <1>2, <1>4, <1>5, <1>6

LEMMA PaddingArithmetic ==
    ASSUME NEW n \in Nat
    PROVE  /\ (4 - (n % 4)) % 4 \in 0..3
           /\ (n + ((4 - (n % 4)) % 4)) % 4 = 0
OBVIOUS

\* The padding of an entry is 0 to 3 bytes and aligns stored data.
LEMMA PaddingFacts ==
    ASSUME TypeOK, NEW p \in Pointers
    PROVE  /\ Padding(p) \in 0..3
           /\ Rec(p).stored =>
                 (pre_shadow_stop + HeaderLen(Rec(p), entries[p].extra + Padding(p)))
                     % Alignment = 0
<1> DEFINE n == pre_shadow_stop + HeaderLen(Rec(p), entries[p].extra)
<1>1. HeaderLen(Rec(p), entries[p].extra) \in Nat /\ pre_shadow_stop \in Nat /\ n \in Nat
  <2>1. HeaderLen(Rec(p), entries[p].extra) \in Nat /\ pre_shadow_stop \in Nat
    BY EntryFacts DEF TypeOK
  <2> QED BY <2>1
<1>2. Padding(p) = IF Rec(p).stored THEN (4 - (n % 4)) % 4 ELSE 0
  BY DEF Padding, Alignment
<1>3. Padding(p) \in 0..3
  <2> HIDE DEF n
  <2> QED BY <1>1, <1>2, PaddingArithmetic
<1>4. pre_shadow_stop + HeaderLen(Rec(p), entries[p].extra + Padding(p)) = n + Padding(p)
  <2>1. HeaderLen(Rec(p), entries[p].extra + Padding(p))
          = HeaderLen(Rec(p), entries[p].extra) + Padding(p)
    BY <1>3, EntryFacts
  <2> QED BY <1>1, <1>3, <2>1
<1>5. Rec(p).stored => (n + Padding(p)) % 4 = 0
  <2> HIDE DEF n
  <2> QED BY <1>1, <1>2, PaddingArithmetic
<1> QED BY <1>3, <1>4, <1>5 DEF Alignment

\* Where an entry begins, where its data begin and where it stops.
LEMMA OffsetFacts ==
    ASSUME TypeOK, NEW p \in Pointers
    PROVE  /\ getEntryBegin(p) \in Nat /\ getFileOffset(p) \in Nat
           /\ getEntryEnd(p) \in Nat
           /\ getFileOffset(p) = getEntryBegin(p) + HeaderLen(Rec(p), entries[p].extra)
           /\ getEntryEnd(p) = getFileOffset(p) + DataLen(Rec(p))
<1>1. /\ entries[p].lfh \in Nat /\ DataLen(Rec(p)) \in Nat
      /\ HeaderLen(Rec(p), entries[p].extra) \in Nat
  BY EntryFacts
<1> QED BY <1>1 DEF getEntryBegin, getFileOffset, getEntryEnd

LEMMA HeaderFileFacts ==
    ASSUME TypeOK
    PROVE  HeaderFileLen \in Nat
<1>1. CASE header_file = <<>>
  BY <1>1 DEF HeaderFileLen
<1>2. CASE header_file # <<>>
  <2>1. header_file \in Seq(HeaderRecord)
    BY DEF TypeOK
  <2>2. Len(header_file) \in 1..Len(header_file)
    BY <1>2, <2>1, EmptySeq
  <2>3. header_file[Len(header_file)] \in HeaderRecord
    BY <2>1, <2>2, ElementOfSeq
  <2> QED BY <1>2, <2>3 DEF HeaderFileLen, HeaderRecord
<1> QED BY <1>1, <1>2

-----------------------------------------------------------------------------
(***************************************************************************)
(* add_entry_to_partition: what each of its three ways does to the table.  *)
(***************************************************************************)
\* The partitions the code appends; Body for the data behind a new header.
Whole(p) == Partition(pre_shadow_stop, pre_shadow_stop + (getEntryEnd(p) - getEntryBegin(p)),
                      p[1], getEntryBegin(p), getEntryEnd(p))
NewLen(p) == HeaderLen(Rec(p), entries[p].extra + Padding(p))
Header(p) == Partition(pre_shadow_stop, pre_shadow_stop + NewLen(p),
                       1, HeaderFileLen, HeaderFileLen + NewLen(p))
Body(p) == Partition(pre_shadow_stop + NewLen(p),
                     pre_shadow_stop + NewLen(p) + (getEntryEnd(p) - getFileOffset(p)),
                     p[1], getFileOffset(p), getEntryEnd(p))

LEMMA WholeFacts ==
    ASSUME TypeOK, NEW p \in Pointers
    PROVE  /\ Whole(p) \in FilePartitionInfo
           /\ Whole(p).shadow_start = pre_shadow_stop
           /\ Whole(p).shadow_stop = pre_shadow_stop + (getEntryEnd(p) - getEntryBegin(p))
           /\ Whole(p).file_index = p[1]
           /\ Whole(p).start_in_file = getEntryBegin(p)
           /\ Whole(p).stop_in_file = getEntryEnd(p)
           /\ getEntryEnd(p) - getEntryBegin(p) \in Nat
           /\ getEntryEnd(p) - getEntryBegin(p)
                 = HeaderLen(Rec(p), entries[p].extra) + DataLen(Rec(p))
<1>1. /\ getEntryBegin(p) \in Nat /\ getEntryEnd(p) \in Nat
      /\ getEntryEnd(p) - getEntryBegin(p) \in Nat
      /\ getEntryEnd(p) - getEntryBegin(p)
            = HeaderLen(Rec(p), entries[p].extra) + DataLen(Rec(p))
  <2>1. /\ HeaderLen(Rec(p), entries[p].extra) \in Nat /\ DataLen(Rec(p)) \in Nat
    BY EntryFacts
  <2>2. /\ getEntryBegin(p) \in Nat /\ getFileOffset(p) \in Nat /\ getEntryEnd(p) \in Nat
        /\ getFileOffset(p) = getEntryBegin(p) + HeaderLen(Rec(p), entries[p].extra)
        /\ getEntryEnd(p) = getFileOffset(p) + DataLen(Rec(p))
    BY OffsetFacts
  <2> QED BY <2>1, <2>2
<1>2. /\ pre_shadow_stop \in Nat /\ p[1] \in Nat
      /\ pre_shadow_stop + (getEntryEnd(p) - getEntryBegin(p)) \in Nat
  <2>1. pre_shadow_stop \in Nat /\ last_file \in Nat
    BY DEF TypeOK
  <2>2. p[1] \in 0..last_file
    BY PointerFacts
  <2> QED BY <1>1, <2>1, <2>2
<1>3. Whole(p) \in FilePartitionInfo
  BY <1>1, <1>2 DEF Whole, Partition, FilePartitionInfo
<1>4. /\ Whole(p).shadow_start = pre_shadow_stop
      /\ Whole(p).shadow_stop = pre_shadow_stop + (getEntryEnd(p) - getEntryBegin(p))
      /\ Whole(p).file_index = p[1]
      /\ Whole(p).start_in_file = getEntryBegin(p)
      /\ Whole(p).stop_in_file = getEntryEnd(p)
  BY DEF Whole, Partition
<1> QED BY <1>1, <1>3, <1>4

LEMMA PaddedFacts ==
    ASSUME TypeOK, NEW p \in Pointers
    PROVE  /\ Header(p) \in FilePartitionInfo
           /\ Header(p).shadow_start = pre_shadow_stop
           /\ Header(p).shadow_stop = pre_shadow_stop + NewLen(p)
           /\ Header(p).file_index = 1
           /\ Header(p).start_in_file = HeaderFileLen
           /\ Header(p).stop_in_file = HeaderFileLen + NewLen(p)
           /\ Body(p) \in FilePartitionInfo
           /\ Body(p).shadow_start = pre_shadow_stop + NewLen(p)
           /\ Body(p).shadow_stop = pre_shadow_stop + NewLen(p) + DataLen(Rec(p))
           /\ Body(p).file_index = p[1]
           /\ Body(p).start_in_file = getFileOffset(p)
           /\ Body(p).stop_in_file = getEntryEnd(p)
           /\ getEntryEnd(p) - getFileOffset(p) = DataLen(Rec(p))
           /\ NewLen(p) \in Nat /\ HeaderFileLen \in Nat
<1>1. HeaderFileLen \in Nat
  BY HeaderFileFacts
<1>2. NewLen(p) \in Nat
  <2>1. Padding(p) \in 0..3 /\ HeaderLen(Rec(p), entries[p].extra) \in Nat
    BY PaddingFacts, EntryFacts
  <2>2. NewLen(p) = HeaderLen(Rec(p), entries[p].extra) + Padding(p)
    BY <2>1, EntryFacts DEF NewLen
  <2> QED BY <2>1, <2>2
<1>3. /\ getEntryEnd(p) - getFileOffset(p) = DataLen(Rec(p)) /\ DataLen(Rec(p)) \in Nat
      /\ getFileOffset(p) \in Nat /\ getEntryEnd(p) \in Nat
  <2>1. DataLen(Rec(p)) \in Nat
    BY EntryFacts
  <2>2. /\ getFileOffset(p) \in Nat /\ getEntryEnd(p) \in Nat
        /\ getEntryEnd(p) = getFileOffset(p) + DataLen(Rec(p))
    BY OffsetFacts
  <2> QED BY <2>1, <2>2
<1>4. pre_shadow_stop \in Nat /\ p[1] \in Nat /\ 1 \in Nat
  <2>1. pre_shadow_stop \in Nat /\ last_file \in Nat
    BY DEF TypeOK
  <2>2. p[1] \in 0..last_file
    BY PointerFacts
  <2> QED BY <2>1, <2>2
<1>5. /\ pre_shadow_stop + NewLen(p) \in Nat /\ HeaderFileLen + NewLen(p) \in Nat
      /\ pre_shadow_stop + NewLen(p) + DataLen(Rec(p)) \in Nat
  BY <1>1, <1>2, <1>3, <1>4
<1>6. Body(p) = Partition(pre_shadow_stop + NewLen(p),
                          pre_shadow_stop + NewLen(p) + DataLen(Rec(p)),
                          p[1], getFileOffset(p), getEntryEnd(p))
  BY <1>3 DEF Body
<1>7. Body(p) \in FilePartitionInfo
  BY <1>3, <1>4, <1>5, <1>6 DEF Partition, FilePartitionInfo
<1>8. /\ Body(p).shadow_start = pre_shadow_stop + NewLen(p)
      /\ Body(p).shadow_stop = pre_shadow_stop + NewLen(p) + DataLen(Rec(p))
      /\ Body(p).file_index = p[1]
      /\ Body(p).start_in_file = getFileOffset(p)
      /\ Body(p).stop_in_file = getEntryEnd(p)
  BY <1>6 DEF Partition
<1>9. Header(p) \in FilePartitionInfo
  BY <1>1, <1>4, <1>5 DEF Header, Partition, FilePartitionInfo
<1>10. /\ Header(p).shadow_start = pre_shadow_stop
       /\ Header(p).shadow_stop = pre_shadow_stop + NewLen(p)
       /\ Header(p).file_index = 1
       /\ Header(p).start_in_file = HeaderFileLen
       /\ Header(p).stop_in_file = HeaderFileLen + NewLen(p)
  BY DEF Header, Partition
<1> QED BY <1>1, <1>2, <1>3, <1>7, <1>8, <1>9, <1>10

\* The three ways, in terms of those partitions.
Merges(p) ==
    /\ Padding(p) = 0 /\ Len(patch_partitions) > 0
    /\ patch_partitions[Len(patch_partitions)].file_index = p[1]
    /\ patch_partitions[Len(patch_partitions)].stop_in_file = getEntryBegin(p)
    /\ patch_partitions' = [patch_partitions EXCEPT ![Len(patch_partitions)] =
                               Grown(@, getEntryEnd(p) - getEntryBegin(p))]
    /\ pre_shadow_stop' = pre_shadow_stop + (getEntryEnd(p) - getEntryBegin(p))
    /\ header_file' = header_file
Appends(p) ==
    /\ Padding(p) = 0
    /\ patch_partitions' = Append(patch_partitions, Whole(p))
    /\ pre_shadow_stop' = pre_shadow_stop + (getEntryEnd(p) - getEntryBegin(p))
    /\ header_file' = header_file
Pads(p) ==
    /\ patch_partitions' = Append(Append(patch_partitions, Header(p)), Body(p))
    /\ pre_shadow_stop' = pre_shadow_stop + NewLen(p) + DataLen(Rec(p))
    /\ header_file' = Append(header_file, [entry |-> p, start |-> HeaderFileLen,
                                           stop |-> HeaderFileLen + NewLen(p)])

LEMMA AddCases ==
    ASSUME TypeOK, LastPartition, pc # "done", NEW p \in Pointers, Add(p)
    PROVE  Merges(p) \/ Appends(p) \/ Pads(p)
<1>1. CASE Merge(p)
  <2>1. p[1] \in 0..last_file /\ last_file \in Nat
    BY PointerFacts DEF TypeOK
  <2>2. pre_file_index # -1
    BY <1>1, <2>1 DEF Merge
  <2> QED BY <1>1, <2>2 DEF Merge, Merges, LastPartition
<1>2. CASE NewPartition(p)
  BY <1>2 DEF NewPartition, Appends, Whole
<1>3. CASE PadHeader(p)
  <2>1. getEntryEnd(p) - getFileOffset(p) = DataLen(Rec(p))
    BY PaddedFacts
  <2> QED BY <1>3, <2>1 DEF PadHeader, Pads, Header, Body, NewLen
<1> QED BY <1>1, <1>2, <1>3 DEF Add

\* The table stays typed and, whichever way the entry is added, tiles the
\* shadow file up to the new end.
LEMMA AddTiles ==
    ASSUME TypeOK, LastPartition, pc # "done", NEW p \in Pointers, Add(p)
    PROVE  /\ patch_partitions' \in Seq(FilePartitionInfo)
           /\ pre_shadow_stop' \in Nat
           /\ Tiles(patch_partitions, pre_shadow_stop)
                 => Tiles(patch_partitions', pre_shadow_stop')
<1>1. patch_partitions \in Seq(FilePartitionInfo) /\ pre_shadow_stop \in Nat
  BY DEF TypeOK
<1>2. CASE Merges(p)
  <2>1. getEntryEnd(p) - getEntryBegin(p) \in Nat
    BY WholeFacts
  <2>2. /\ Len(patch_partitions) > 0
        /\ patch_partitions' = [patch_partitions EXCEPT ![Len(patch_partitions)] =
                                   Grown(@, getEntryEnd(p) - getEntryBegin(p))]
        /\ pre_shadow_stop' = pre_shadow_stop + (getEntryEnd(p) - getEntryBegin(p))
    BY <1>2 DEF Merges
  <2>3. patch_partitions' \in Seq(FilePartitionInfo)
    BY <1>1, <2>1, <2>2, GrownLast
  <2>4. Tiles(patch_partitions, pre_shadow_stop)
          => Tiles(patch_partitions', pre_shadow_stop')
    BY <1>1, <2>1, <2>2, TilesGrown
  <2>5. pre_shadow_stop' \in Nat
    BY <1>1, <2>1, <2>2
  <2> QED BY <2>3, <2>4, <2>5
<1>3. CASE Appends(p)
  <2>1. /\ Whole(p) \in FilePartitionInfo
        /\ Whole(p).shadow_start = pre_shadow_stop
        /\ Whole(p).shadow_stop = pre_shadow_stop + (getEntryEnd(p) - getEntryBegin(p))
        /\ Whole(p).start_in_file = getEntryBegin(p)
        /\ Whole(p).stop_in_file = getEntryEnd(p)
        /\ getEntryEnd(p) - getEntryBegin(p) \in Nat
        /\ getEntryBegin(p) \in Nat /\ getEntryEnd(p) \in Nat
    BY WholeFacts, OffsetFacts
  <2>2. /\ patch_partitions' = Append(patch_partitions, Whole(p))
        /\ pre_shadow_stop' = Whole(p).shadow_stop
    BY <1>3, <2>1 DEF Appends
  <2>3. /\ Whole(p).shadow_start =< Whole(p).shadow_stop
        /\ Whole(p).start_in_file =< Whole(p).stop_in_file
        /\ Whole(p).shadow_stop
              = Whole(p).shadow_start + (Whole(p).stop_in_file - Whole(p).start_in_file)
    BY <1>1, <2>1
  <2>4. patch_partitions' \in Seq(FilePartitionInfo)
    BY <1>1, <2>1, <2>2, AppendProperties
  <2>5. Tiles(patch_partitions, pre_shadow_stop)
          => Tiles(patch_partitions', pre_shadow_stop')
    BY <1>1, <2>1, <2>2, <2>3, TilesAppend
  <2>6. pre_shadow_stop' \in Nat
    BY <1>1, <2>1, <2>2
  <2> QED BY <2>4, <2>5, <2>6
<1>4. CASE Pads(p)
  <2> DEFINE mid == Append(patch_partitions, Header(p))
  <2>1. /\ patch_partitions' = Append(mid, Body(p))
        /\ pre_shadow_stop' = Body(p).shadow_stop
    BY <1>4, PaddedFacts DEF Pads
  <2>2. /\ Header(p) \in FilePartitionInfo /\ Body(p) \in FilePartitionInfo
        /\ Header(p).shadow_start = pre_shadow_stop
        /\ Header(p).shadow_stop = Body(p).shadow_start
    BY PaddedFacts
  <2>3. /\ Header(p).shadow_start =< Header(p).shadow_stop
        /\ Header(p).start_in_file =< Header(p).stop_in_file
        /\ Header(p).shadow_stop
              = Header(p).shadow_start + (Header(p).stop_in_file - Header(p).start_in_file)
    <3>1. /\ Header(p).shadow_start = pre_shadow_stop
          /\ Header(p).shadow_stop = pre_shadow_stop + NewLen(p)
          /\ Header(p).start_in_file = HeaderFileLen
          /\ Header(p).stop_in_file = HeaderFileLen + NewLen(p)
          /\ NewLen(p) \in Nat /\ HeaderFileLen \in Nat
      BY PaddedFacts
    <3> QED BY <1>1, <3>1
  <2>4. /\ Body(p).shadow_start =< Body(p).shadow_stop
        /\ Body(p).start_in_file =< Body(p).stop_in_file
        /\ Body(p).shadow_stop
              = Body(p).shadow_start + (Body(p).stop_in_file - Body(p).start_in_file)
    <3>1. /\ Body(p).shadow_start = pre_shadow_stop + NewLen(p)
          /\ Body(p).shadow_stop = pre_shadow_stop + NewLen(p) + DataLen(Rec(p))
          /\ Body(p).start_in_file = getFileOffset(p)
          /\ Body(p).stop_in_file = getEntryEnd(p)
          /\ getEntryEnd(p) = getFileOffset(p) + DataLen(Rec(p))
          /\ NewLen(p) \in Nat
      BY PaddedFacts, OffsetFacts
    <3>2. DataLen(Rec(p)) \in Nat /\ getFileOffset(p) \in Nat
      BY EntryFacts, OffsetFacts
    <3> QED BY <1>1, <3>1, <3>2
  <2>5. mid \in Seq(FilePartitionInfo)
    BY <1>1, <2>2, AppendProperties
  <2>6. Tiles(patch_partitions, pre_shadow_stop) => Tiles(mid, Body(p).shadow_start)
    BY <1>1, <2>2, <2>3, TilesAppend
  <2> HIDE DEF mid
  <2>7. Tiles(mid, Body(p).shadow_start) => Tiles(patch_partitions', pre_shadow_stop')
    BY <2>1, <2>2, <2>4, <2>5, TilesAppend
  <2>8. patch_partitions' \in Seq(FilePartitionInfo)
    BY <2>1, <2>2, <2>5, AppendProperties
  <2>9. pre_shadow_stop' \in Nat
    BY <2>1, <2>2, PartitionFields
  <2> QED BY <2>6, <2>7, <2>8, <2>9
<1> QED BY <1>2, <1>3, <1>4, AddCases

\* init never changes its input, so pointers and records keep their meaning.
LEMMA InputStep ==
    ASSUME UNCHANGED input
    PROVE  /\ disk' = disk /\ last_file' = last_file /\ removed_files' = removed_files
           /\ Pointers' = Pointers /\ HeaderRecord' = HeaderRecord
           /\ \A p : Rec(p)' = Rec(p) /\ initFromCDE(p)' = initFromCDE(p)
           /\ \A f : Count(f)' = Count(f)
<1>1. disk' = disk /\ last_file' = last_file /\ removed_files' = removed_files
  BY DEF input
<1>2. Pointers' = Pointers
  BY <1>1 DEF Pointers, Count
<1> QED BY <1>1, <1>2 DEF HeaderRecord, Rec, initFromCDE, Count

\* Init and every action but Add: the type of the layout variables.
LEMMA AddTyped ==
    ASSUME TypeOK, LastPartition, pc # "done", NEW p \in Pointers, Add(p), UNCHANGED input
    PROVE  /\ pre_file_index' \in -1..last_file' /\ pre_file_stop' \in Nat
           /\ pre_shadow_stop' \in Nat
           /\ patch_partitions' \in Seq(FilePartitionInfo)
           /\ header_file' \in Seq(HeaderRecord')
           /\ entries' \in [Pointers' -> ZipEntry]
           /\ all_entries' \in Seq(Pointers')
<1>1. pre_file_index' \in -1..last_file' /\ pre_file_stop' \in Nat
  <2>1. p[1] \in 0..last_file /\ last_file \in Nat
    BY PointerFacts DEF TypeOK
  <2>2. getEntryEnd(p) \in Nat
    BY OffsetFacts
  <2>3. last_file' = last_file
    BY InputStep
  <2> QED BY <2>1, <2>2, <2>3 DEF Add
<1>2. entries' \in [Pointers' -> ZipEntry]
  <2>1. PlacedEntry(p) \in ZipEntry
    <3>1. /\ pre_shadow_stop \in Nat /\ entries[p].extra \in Nat /\ Padding(p) \in 0..3
      BY EntryFacts, PaddingFacts DEF TypeOK
    <3>2. entries[p].extra + Padding(p) \in Nat
      BY <3>1
    <3> QED BY <3>1, <3>2 DEF PlacedEntry, ZipEntry
  <2>2. Pointers' = Pointers
    BY InputStep
  <2> QED BY <2>1, <2>2 DEF Add, TypeOK
<1>3. all_entries' \in Seq(Pointers')
  <2>1. Pointers' = Pointers
    BY InputStep
  <2> QED BY <2>1, AppendProperties DEF Add, TypeOK
<1>4. header_file' \in Seq(HeaderRecord')
  <2>1. HeaderRecord' = HeaderRecord /\ header_file \in Seq(HeaderRecord)
    BY InputStep DEF TypeOK
  <2>2. CASE header_file' = header_file
    BY <2>1, <2>2
  <2>3. CASE Pads(p)
    <3> DEFINE rec == [entry |-> p, start |-> HeaderFileLen, stop |-> HeaderFileLen + NewLen(p)]
    <3>1. HeaderFileLen \in Nat /\ HeaderFileLen + NewLen(p) \in Nat
      <4>1. HeaderFileLen \in Nat /\ NewLen(p) \in Nat
        BY PaddedFacts
      <4> QED BY <4>1
    <3>2. rec \in HeaderRecord
      BY <3>1 DEF HeaderRecord
    <3>3. header_file' = Append(header_file, rec)
      BY <2>3 DEF Pads
    <3> HIDE DEF rec
    <3> QED BY <2>1, <3>2, <3>3, AppendProperties
  <2> QED BY <2>2, <2>3, AddCases DEF Merges, Appends
<1> QED BY <1>1, <1>2, <1>3, <1>4, AddTiles

\* The last partition is the one of the entry just added.
LEMMA AddLastPartition ==
    ASSUME TypeOK, LastPartition, pc # "done", NEW p \in Pointers, Add(p)
    PROVE  LastPartition'
<1> DEFINE new == patch_partitions'
<1>1. pre_file_index' = p[1] /\ pre_file_stop' = getEntryEnd(p)
  BY DEF Add
<1>2. patch_partitions \in Seq(FilePartitionInfo) /\ Len(patch_partitions) \in Nat
  BY LenProperties DEF TypeOK
<1>3. CASE Merges(p)
  <2> DEFINE size == getEntryEnd(p) - getEntryBegin(p)
             last == Len(patch_partitions)
  <2>1. size \in Nat /\ getEntryBegin(p) \in Nat /\ getEntryEnd(p) \in Nat
    BY WholeFacts, OffsetFacts
  <2>2. getEntryBegin(p) + size = getEntryEnd(p)
    BY <2>1
  <2>3. last > 0 /\ new = [patch_partitions EXCEPT ![last] = Grown(@, size)]
    BY <1>3 DEF Merges
  <2> HIDE DEF size
  <2>4. /\ Len(new) = last
        /\ new[last].file_index = patch_partitions[last].file_index
        /\ new[last].stop_in_file = patch_partitions[last].stop_in_file + size
    BY <1>2, <2>1, <2>3, GrownLast
  <2>5. /\ patch_partitions[last].file_index = p[1]
        /\ patch_partitions[last].stop_in_file = getEntryBegin(p)
    BY <1>3 DEF Merges
  <2> QED BY <1>1, <2>2, <2>3, <2>4, <2>5 DEF LastPartition
<1>4. CASE Appends(p)
  <2>1. new = Append(patch_partitions, Whole(p)) /\ Whole(p) \in FilePartitionInfo
    BY <1>4, WholeFacts DEF Appends
  <2>2. Len(new) = Len(patch_partitions) + 1 /\ new[Len(patch_partitions) + 1] = Whole(p)
    BY <1>2, <2>1, AppendProperties
  <2>3. Len(new) > 0 /\ new[Len(new)] = Whole(p)
    BY <1>2, <2>2
  <2> QED BY <1>1, <2>3, WholeFacts DEF LastPartition
<1>5. CASE Pads(p)
  <2> DEFINE mid == Append(patch_partitions, Header(p))
  <2>1. /\ new = Append(mid, Body(p)) /\ Body(p) \in FilePartitionInfo
        /\ Header(p) \in FilePartitionInfo
    BY <1>5, PaddedFacts DEF Pads
  <2>2. mid \in Seq(FilePartitionInfo) /\ Len(mid) \in Nat
    BY <1>2, <2>1, AppendProperties, LenProperties
  <2> HIDE DEF mid
  <2>3. Len(new) = Len(mid) + 1 /\ new[Len(mid) + 1] = Body(p)
    BY <2>1, <2>2, AppendProperties
  <2>4. Len(new) > 0 /\ new[Len(new)] = Body(p)
    BY <2>2, <2>3
  <2> QED BY <1>1, <2>4, PaddedFacts DEF LastPartition
<1> QED BY <1>3, <1>4, <1>5, AddCases

-----------------------------------------------------------------------------
(***************************************************************************)
(* Type correctness.                                                       *)
(***************************************************************************)
TypeInv == TypeOK /\ LastPartition

\* A step that only moves init along, or ends it before the directory.
LEMMA QuietTyped ==
    ASSUME TypeInv, pc # "done", UNCHANGED <<input, layout, directory>>,
           pc' \in {"parse_patch", "scan", "place", "append", "directory", "failed", "exited"},
           i' \in Nat, j' \in Nat \ {0},
           pc' \in {"parse_patch", "scan"} => i' >= 2,
           pc' = "scan" => i' =< last_file,
           DOMAIN filename_2_entry' \subseteq Names,
           \A n \in DOMAIN filename_2_entry' : filename_2_entry'[n] \in Pointers
    PROVE  TypeInv'
<1>1. /\ Pointers' = Pointers /\ HeaderRecord' = HeaderRecord
      /\ disk' = disk /\ last_file' = last_file /\ removed_files' = removed_files
  BY InputStep
<1>2. TypeOK'
  BY <1>1 DEF TypeInv, TypeOK, layout, directory
<1>3. LastPartition'
  BY DEF TypeInv, LastPartition, layout
<1> QED BY <1>2, <1>3 DEF TypeInv

\* A step that adds an entry.
LEMMA AddTypeInv ==
    ASSUME TypeInv, pc # "done", NEW p \in Pointers, Add(p),
           UNCHANGED <<pc, i, input, filename_2_entry, directory>>, j' \in Nat \ {0}
    PROVE  TypeInv'
<1>1. TypeOK /\ LastPartition
  BY DEF TypeInv
<1>2. /\ Pointers' = Pointers
      /\ disk' = disk /\ last_file' = last_file /\ removed_files' = removed_files
  BY InputStep
<1>3. TypeOK'
  BY <1>1, <1>2, AddTyped DEF TypeOK, directory
<1>4. LastPartition'
  BY <1>1, AddLastPartition
<1> QED BY <1>3, <1>4 DEF TypeInv

\* The entry the apk loop places is one of the parsed entries.
LEMMA ApkEntryTyped ==
    ASSUME TypeOK, j =< Count(0)
    PROVE  ApkEntry \in Pointers
<1>1. <<0, j>> \in Pointers
  <2>1. j \in Nat \ {0} /\ last_file \in Nat
    BY DEF TypeOK
  <2>2. Count(0) \in Nat
    BY <2>1, PointerFacts
  <2>3. j \in 1..Count(0) /\ 0 \in 0..last_file
    BY <2>1, <2>2
  <2> QED BY <2>3, PointerFacts
<1> QED BY <1>1 DEF ApkEntry, TypeOK

\* The entry the scan and append loops look at, too.
LEMMA CursorTyped ==
    ASSUME TypeOK, i =< last_file, j =< Count(i)
    PROVE  <<i, j>> \in Pointers
<1>1. i \in 0..last_file /\ j \in Nat \ {0}
  BY DEF TypeOK
<1>2. Count(i) \in Nat
  BY <1>1, PointerFacts
<1>3. j \in 1..Count(i)
  BY <1>1, <1>2
<1> QED BY <1>1, <1>3, PointerFacts

LEMMA InitTyped == Init => TypeInv
<1> SUFFICES ASSUME Init PROVE TypeInv
  OBVIOUS
<1>1. PICK inp \in Inputs :
          disk = inp.files /\ last_file = inp.last /\ removed_files = inp.removed
  BY DEF Init
<1>2. IsInput(inp)
  BY InputsAssumption
<1>3. /\ last_file \in Nat \ {0} /\ disk \in [0..last_file -> Archive]
      /\ removed_files \subseteq Names
  BY <1>1, <1>2 DEF IsInput
<1>4. entries \in [Pointers -> ZipEntry]
  <2>1. ASSUME NEW p \in Pointers PROVE initFromCDE(p) \in ZipEntry
    <3>1. p[1] \in 0..last_file /\ p[2] \in 1..Len(disk[p[1]].entries)
      BY DEF Pointers, Count
    <3>2. disk[p[1]].entries \in Seq(EntryType)
      BY <1>3, <3>1 DEF Archive
    <3>3. Rec(p) \in EntryType
      BY <3>1, <3>2, ElementOfSeq DEF Rec
    <3> QED BY <3>3 DEF initFromCDE, EntryType, ZipEntry
  <2> QED BY <2>1 DEF Init
<1>5. /\ patch_partitions \in Seq(FilePartitionInfo) /\ header_file \in Seq(HeaderRecord)
      /\ all_entries \in Seq(Pointers) /\ central_dir \in Seq([entry : Pointers, lfh : Nat])
  BY EmptySeq DEF Init
<1>6. /\ DOMAIN filename_2_entry \subseteq Names
      /\ \A n \in DOMAIN filename_2_entry : filename_2_entry[n] \in Pointers
  BY DEF Init
<1>7. TypeOK
  BY <1>3, <1>4, <1>5, <1>6 DEF Init, TypeOK
<1>8. LastPartition
  BY DEF Init, LastPartition
<1> QED BY <1>7, <1>8 DEF TypeInv

LEMMA NextTyped == TypeInv /\ [Next]_vars => TypeInv'
<1> SUFFICES ASSUME TypeInv, [Next]_vars PROVE TypeInv'
  OBVIOUS
<1> USE DEF TypeInv
<1>1. /\ TypeOK /\ LastPartition /\ i \in Nat /\ j \in Nat \ {0} /\ last_file \in Nat \ {0}
      /\ DOMAIN filename_2_entry \subseteq Names
      /\ \A n \in DOMAIN filename_2_entry : filename_2_entry[n] \in Pointers
      /\ pc \in {"parse_patch", "scan"} => i >= 2
      /\ pc = "scan" => i =< last_file
  BY DEF TypeOK
<1>2. i + 1 \in Nat /\ j + 1 \in Nat \ {0}
  BY <1>1
<1>3. CASE UNCHANGED vars
  <2>1. Pointers' = Pointers /\ HeaderRecord' = HeaderRecord
    BY <1>3, InputStep DEF vars
  <2>2. TypeOK'
    BY <1>1, <1>3, <2>1 DEF TypeOK, vars, input, layout, directory
  <2>3. LastPartition'
    BY <1>1, <1>3 DEF LastPartition, vars, layout
  <2> QED BY <2>2, <2>3
<1>4. CASE NoPatches \/ ParseFails
  BY <1>1, <1>4, QuietTyped DEF NoPatches, ParseFails, Fail
<1>5. CASE DupPatchFile
  BY <1>1, <1>5, QuietTyped DEF DupPatchFile, Fail
<1>6. CASE ParsePatch
  BY <1>1, <1>6, QuietTyped DEF ParsePatch
<1>7. CASE SkipPatchFile
  BY <1>1, <1>2, <1>7, QuietTyped DEF SkipPatchFile
<1>8. CASE RecordPatchFile
  <2>1. <<i, j>> \in Pointers
    BY <1>1, <1>8, CursorTyped DEF RecordPatchFile
  <2>2. Rec(<<i, j>>).name \in Names
    BY <1>1, <2>1, EntryFacts
  <2>3. /\ DOMAIN filename_2_entry' \subseteq Names
        /\ \A n \in DOMAIN filename_2_entry' : filename_2_entry'[n] \in Pointers
    BY <1>1, <1>8, <2>1, <2>2 DEF RecordPatchFile
  <2> QED BY <1>1, <1>2, <1>8, <2>3, QuietTyped DEF RecordPatchFile
<1>9. CASE NextPatch
  <2>1. i + 1 >= 2
    BY <1>1, <1>9 DEF NextPatch
  <2> QED BY <1>1, <1>2, <1>9, <2>1, QuietTyped DEF NextPatch
<1>10. CASE ParseApk
  BY <1>1, <1>10, QuietTyped DEF ParseApk
<1>11. CASE SkipApkEntry
  BY <1>1, <1>2, <1>11, QuietTyped DEF SkipApkEntry
<1>12. CASE PlaceApkEntry
  <2>1. CASE Add(ApkEntry) /\ j' = j + 1
              /\ UNCHANGED <<pc, i, input, filename_2_entry, directory>>
    <3>1. ApkEntry \in Pointers
      BY <1>1, <1>12, ApkEntryTyped DEF PlaceApkEntry
    <3> QED BY <1>2, <1>12, <2>1, <3>1, AddTypeInv DEF PlaceApkEntry
  <2>2. CASE HeaderWriteFails(ApkEntry)
    BY <1>1, <1>12, <2>2, QuietTyped DEF PlaceApkEntry, HeaderWriteFails
  <2> QED BY <1>12, <2>1, <2>2 DEF PlaceApkEntry
<1>13. CASE ApkPlaced
  BY <1>1, <1>13, QuietTyped DEF ApkPlaced
<1>14. CASE SkipUsedEntry
  BY <1>1, <1>2, <1>14, QuietTyped DEF SkipUsedEntry
<1>15. CASE AppendPatchEntry
  <2>1. CASE Add(<<i, j>>) /\ j' = j + 1
              /\ UNCHANGED <<pc, i, input, filename_2_entry, directory>>
    <3>1. <<i, j>> \in Pointers
      BY <1>1, <1>15, CursorTyped DEF AppendPatchEntry
    <3> QED BY <1>2, <1>15, <2>1, <3>1, AddTypeInv DEF AppendPatchEntry
  <2>2. CASE HeaderWriteFails(<<i, j>>)
    BY <1>1, <1>15, <2>2, QuietTyped DEF AppendPatchEntry, HeaderWriteFails
  <2> QED BY <1>15, <2>1, <2>2 DEF AppendPatchEntry
<1>16. CASE NextPatchAppended
  BY <1>1, <1>2, <1>16, QuietTyped DEF NextPatchAppended
<1>17. CASE AllAppended
  BY <1>1, <1>17, QuietTyped DEF AllAppended
<1>18. CASE WriteCDE
  <2>1. Pointers' = Pointers /\ HeaderRecord' = HeaderRecord
        /\ disk' = disk /\ last_file' = last_file /\ removed_files' = removed_files
    BY <1>18, InputStep DEF WriteCDE
  <2>2. all_entries[j] \in Pointers
    <3>1. all_entries \in Seq(Pointers) /\ j \in 1..Len(all_entries)
      BY <1>1, <1>18, LenProperties DEF WriteCDE, TypeOK
    <3> QED BY <3>1, ElementOfSeq
  <2>3. central_dir' \in Seq([entry : Pointers, lfh : Nat]) /\ end_size' \in Nat
    <3>1. /\ entries[all_entries[j]].lfh \in Nat /\ Rec(all_entries[j]).cde \in Nat
      BY <1>1, <2>2, EntryFacts
    <3>2. [entry |-> all_entries[j], lfh |-> entries[all_entries[j]].lfh]
            \in [entry : Pointers, lfh : Nat]
      BY <2>2, <3>1
    <3>3. /\ central_dir \in Seq([entry : Pointers, lfh : Nat]) /\ end_size \in Nat
      BY <1>1 DEF TypeOK
    <3>4. end_size + Rec(all_entries[j]).cde \in Nat
      BY <3>1, <3>3
    <3> QED BY <1>18, <3>2, <3>3, <3>4, AppendProperties DEF WriteCDE
  <2>4. TypeOK'
    BY <1>1, <1>2, <1>18, <2>1, <2>3 DEF WriteCDE, TypeOK, layout
  <2>5. LastPartition'
    BY <1>1, <1>18 DEF WriteCDE, LastPartition, layout
  <2> QED BY <2>4, <2>5
<1>19. CASE Finish
  <2>1. Pointers' = Pointers /\ HeaderRecord' = HeaderRecord
        /\ disk' = disk /\ last_file' = last_file /\ removed_files' = removed_files
    BY <1>19, InputStep DEF Finish
  <2>2. end_size' \in Nat /\ end_of_file' \in Nat /\ pre_shadow_stop \in Nat
        /\ last_file + 1 \in Nat
    BY <1>1, <1>19 DEF Finish, TypeOK, kEOCDLen
  <2>3. Partition(pre_shadow_stop, end_of_file', last_file + 1, 0, end_size')
          \in FilePartitionInfo
    BY <2>2 DEF Partition, FilePartitionInfo
  <2>4. patch_partitions' \in Seq(FilePartitionInfo)
    BY <1>1, <1>19, <2>3, AppendProperties DEF Finish, TypeOK
  <2>5. TypeOK'
    BY <1>1, <1>19, <2>1, <2>2, <2>4 DEF Finish, TypeOK
  <2>6. LastPartition'
    BY <1>19 DEF Finish, LastPartition
  <2> QED BY <2>5, <2>6
<1>20. CASE Terminated
  BY <1>3, <1>20 DEF Terminated
<1> QED
  BY <1>3, <1>4, <1>5, <1>6, <1>7, <1>8, <1>9, <1>10, <1>11, <1>12, <1>13, <1>14,
     <1>15, <1>16, <1>17, <1>18, <1>19, <1>20 DEF Next

\* Every variable of init has its type in every reachable state, whatever the
\* package: the ZipEntry pointers it follows are always those of parsed entries.
THEOREM TypeCorrect == Spec => []TypeOK
<1>1. Init => TypeInv
  BY InitTyped
<1>2. TypeInv /\ [Next]_vars => TypeInv'
  BY NextTyped
<1>3. TypeInv => TypeOK
  BY DEF TypeInv
<1> QED BY <1>1, <1>2, <1>3, PTL DEF Spec

-----------------------------------------------------------------------------
(***************************************************************************)
(* No entry is placed twice.                                               *)
(***************************************************************************)
PlacingInv == TypeInv /\ DiskOK /\ PlacedOnce

LEMMA InitPlacing == Init => PlacingInv
<1> SUFFICES ASSUME Init PROVE PlacingInv
  OBVIOUS
<1>1. TypeInv /\ TypeOK
  BY InitTyped DEF TypeInv
<1>2. PICK inp \in Inputs : disk = inp.files /\ last_file = inp.last
  BY DEF Init
<1>3. IsInput(inp) /\ WellFormed(inp)
  BY InputsAssumption
<1>4. DiskOK
  <2>1. disk[1].entries = <<>>
    BY <1>2, <1>3 DEF IsInput
  <2>2. ASSUME NEW p \in Pointers
        PROVE  Rec(p).lfh + EntrySize(Rec(p)) =< disk[p[1]].size
    BY <1>1, <1>2, <1>3, PointerFacts DEF WellFormed, Rec, Count
  <2>3. \A k, m \in 1..Count(0) : Rec(<<0, k>>).name = Rec(<<0, m>>).name => k = m
    BY <1>2, <1>3 DEF WellFormed, Rec, Count
  <2> QED BY <2>1, <2>2, <2>3 DEF DiskOK
<1>5. PlacedOnce
  <2>1. \A p \in Pointers : entries[p] = initFromCDE(p) /\ ~entries[p].used
    BY DEF Init, initFromCDE
  <2>2. all_entries = <<>> /\ DOMAIN filename_2_entry = {} /\ pc = "parse_patch"
    BY DEF Init
  <2>3. Len(all_entries) = 0
    BY <2>2
  <2> QED BY <2>1, <2>2, <2>3 DEF PlacedOnce
<1> QED BY <1>1, <1>4, <1>5 DEF PlacingInv

\* The apk loop looks each name up once, so the entry it places is a fresh one.
LEMMA ApkEntryFresh ==
    ASSUME PlacingInv, pc = "place", j =< Count(0)
    PROVE  /\ ApkEntry \in Pointers /\ ~entries[ApkEntry].used
           /\ Rec(ApkEntry).name = Rec(<<0, j>>).name
<1>1. TypeOK /\ PlacedOnce /\ DiskOK
  BY DEF PlacingInv, TypeInv
<1>2. ApkEntry \in Pointers
  BY <1>1, ApkEntryTyped
<1>3. Rec(ApkEntry).name = Rec(<<0, j>>).name
  BY <1>1 DEF ApkEntry, PlacedOnce
<1>4. j \in 1..Count(0)
  <2>1. j \in Nat \ {0} /\ 0 \in 0..last_file
    BY <1>1 DEF TypeOK
  <2>2. Count(0) \in Nat
    BY <1>1, <2>1, PointerFacts
  <2> QED BY <2>1, <2>2
<1>5. ~entries[ApkEntry].used
  <2> SUFFICES ASSUME entries[ApkEntry].used PROVE FALSE
    OBVIOUS
  <2>1. PICK k \in 1..Count(0) : k < j /\ Rec(ApkEntry).name = Rec(<<0, k>>).name
    BY <1>1, <1>2 DEF PlacedOnce
  <2>2. k = j
    BY <1>1, <1>3, <1>4, <2>1 DEF DiskOK
  <2> QED BY <1>4, <2>1, <2>2
<1> QED BY <1>2, <1>3, <1>5

\* The steps of init seen from the layout: an entry not placed before is added,
\* the directory is finished, or nothing of the layout changes.
Adds(p) ==
    /\ pc \in {"place", "append"} /\ ~entries[p].used /\ Add(p)
    /\ pc = "place" => j =< Count(0) /\ Rec(p).name = Rec(<<0, j>>).name
    /\ j' = j + 1
    /\ UNCHANGED <<pc, i, input, filename_2_entry, directory>>
LeavesLayout ==
    /\ UNCHANGED <<input, layout>>
    /\ pc' = "done" <=> pc = "done"
    /\ pc = "done" => end_of_file' = end_of_file

LEMMA StepKinds ==
    ASSUME PlacingInv, [Next]_vars
    PROVE  (\E p \in Pointers : Adds(p)) \/ Finish \/ LeavesLayout
<1>1. TypeOK
  BY DEF PlacingInv, TypeInv
<1>2. CASE UNCHANGED vars \/ Terminated
  BY <1>2 DEF vars, Terminated, LeavesLayout, directory
<1>3. CASE NoPatches \/ ParsePatch \/ ParseFails \/ DupPatchFile \/ SkipPatchFile
  BY <1>3 DEF NoPatches, ParsePatch, ParseFails, DupPatchFile, SkipPatchFile, Fail, LeavesLayout
<1>4. CASE RecordPatchFile \/ NextPatch \/ ParseApk \/ SkipApkEntry \/ ApkPlaced
  BY <1>4 DEF RecordPatchFile, NextPatch, ParseApk, SkipApkEntry, ApkPlaced, LeavesLayout
<1>5. CASE SkipUsedEntry \/ NextPatchAppended \/ AllAppended \/ WriteCDE
  BY <1>5 DEF SkipUsedEntry, NextPatchAppended, AllAppended, WriteCDE, LeavesLayout
<1>6. CASE PlaceApkEntry
  <2>1. ApkEntry \in Pointers /\ ~entries[ApkEntry].used
        /\ Rec(ApkEntry).name = Rec(<<0, j>>).name
    BY <1>6, ApkEntryFresh DEF PlaceApkEntry
  <2>2. CASE HeaderWriteFails(ApkEntry)
    BY <1>6, <2>2 DEF PlaceApkEntry, HeaderWriteFails, LeavesLayout
  <2>3. CASE ~HeaderWriteFails(ApkEntry)
    <3>1. Adds(ApkEntry)
      BY <1>6, <2>1, <2>3 DEF PlaceApkEntry, Adds
    <3> QED BY <2>1, <3>1
  <2> QED BY <2>2, <2>3
<1>7. CASE AppendPatchEntry
  <2>1. <<i, j>> \in Pointers
    BY <1>1, <1>7, CursorTyped DEF AppendPatchEntry
  <2>2. CASE HeaderWriteFails(<<i, j>>)
    BY <1>7, <2>2 DEF AppendPatchEntry, HeaderWriteFails, LeavesLayout
  <2>3. CASE ~HeaderWriteFails(<<i, j>>)
    <3>1. Adds(<<i, j>>)
      BY <1>7, <2>3 DEF AppendPatchEntry, Adds
    <3> QED BY <2>1, <3>1
  <2> QED BY <2>2, <2>3
<1> QED BY <1>2, <1>3, <1>4, <1>5, <1>6, <1>7 DEF Next

\* How filename_2_entry and pc may change.
LEMMA OnlyRecordChangesLookup ==
    ASSUME [Next]_vars
    PROVE  RecordPatchFile \/ filename_2_entry' = filename_2_entry
BY DEF Next, vars, NoPatches, ParsePatch, ParseFails, DupPatchFile, SkipPatchFile,
       NextPatch, ParseApk, SkipApkEntry, PlaceApkEntry, ApkPlaced, SkipUsedEntry,
       AppendPatchEntry, NextPatchAppended, AllAppended, WriteCDE, Finish, Terminated,
       Fail, HeaderWriteFails

LEMMA ScanComesFirst ==
    ASSUME [Next]_vars, pc' \in {"parse_patch", "scan"}
    PROVE  pc \in {"parse_patch", "scan"}
BY DEF Next, vars, NoPatches, ParsePatch, ParseFails, DupPatchFile, SkipPatchFile,
       RecordPatchFile, NextPatch, ParseApk, SkipApkEntry, PlaceApkEntry, ApkPlaced,
       SkipUsedEntry, AppendPatchEntry, NextPatchAppended, AllAppended, WriteCDE,
       Finish, Terminated, Fail, HeaderWriteFails

LEMMA PlaceComesNext ==
    ASSUME [Next]_vars, pc' = "place"
    PROVE  \/ pc \in {"parse_patch", "scan"}
           \/ pc = "place" /\ j' \in {j, j + 1}
BY DEF Next, vars, NoPatches, ParsePatch, ParseFails, DupPatchFile, SkipPatchFile,
       RecordPatchFile, NextPatch, ParseApk, SkipApkEntry, PlaceApkEntry, ApkPlaced,
       SkipUsedEntry, AppendPatchEntry, NextPatchAppended, AllAppended, WriteCDE,
       Finish, Terminated, Fail, HeaderWriteFails

LEMMA NextPlacing == PlacingInv /\ [Next]_vars => PlacingInv'
<1> SUFFICES ASSUME PlacingInv, [Next]_vars PROVE PlacingInv'
  OBVIOUS
<1>1. TypeInv' /\ TypeOK /\ DiskOK /\ PlacedOnce
  BY NextTyped DEF PlacingInv, TypeInv
<1>2. UNCHANGED input
  BY DEF Next, vars, NoPatches, ParsePatch, ParseFails, DupPatchFile, SkipPatchFile,
         RecordPatchFile, NextPatch, ParseApk, SkipApkEntry, PlaceApkEntry, ApkPlaced,
         SkipUsedEntry, AppendPatchEntry, NextPatchAppended, AllAppended, WriteCDE,
         Finish, Terminated, Fail, HeaderWriteFails
<1>3. /\ disk' = disk /\ last_file' = last_file /\ Pointers' = Pointers
      /\ \A p : Rec(p)' = Rec(p) /\ initFromCDE(p)' = initFromCDE(p)
      /\ \A f : Count(f)' = Count(f)
  BY <1>2, InputStep
<1>4. DiskOK'
  BY <1>1, <1>3 DEF DiskOK
<1>5. PlacedOnce'
  <2>1. CASE \E p \in Pointers : Adds(p)
    <3>1. PICK p \in Pointers : Adds(p)
      BY <2>1
    <3>2. /\ entries' = [entries EXCEPT ![p] = PlacedEntry(p)]
          /\ all_entries' = Append(all_entries, p)
          /\ pc' = pc /\ j' = j + 1 /\ filename_2_entry' = filename_2_entry
          /\ pc \in {"place", "append"}
      BY <3>1 DEF Adds, Add
    <3>3. entries \in [Pointers -> ZipEntry] /\ all_entries \in Seq(Pointers) /\ j \in Nat
      BY <1>1 DEF TypeOK
    <3>4. entries'[p].used /\ \A q \in Pointers : q # p => entries'[q] = entries[q]
      BY <3>2, <3>3 DEF PlacedEntry
    <3>5. \A q \in Pointers : ~entries'[q].used => entries'[q] = initFromCDE(q)
      BY <1>1, <3>4 DEF PlacedOnce
    <3>6. ASSUME NEW k \in 1..Len(all_entries')
          PROVE  entries'[all_entries'[k]].used
      <4>1. /\ Len(all_entries') = Len(all_entries) + 1 /\ Len(all_entries) \in Nat
            /\ \A m \in 1..Len(all_entries) : all_entries'[m] = all_entries[m]
            /\ all_entries'[Len(all_entries) + 1] = p
        BY <3>2, <3>3, AppendProperties, LenProperties
      <4>2. CASE k \in 1..Len(all_entries)
        <5>1. all_entries[k] \in Pointers /\ entries[all_entries[k]].used
          BY <1>1, <3>3, <4>2, ElementOfSeq DEF PlacedOnce
        <5> QED BY <3>4, <4>1, <4>2, <5>1
      <4>3. CASE k = Len(all_entries) + 1
        BY <3>4, <4>1, <4>3
      <4> QED BY <4>1, <4>2, <4>3
    <3>7. pc' = "place" =>
            \A q \in Pointers : entries'[q].used =>
                \E k \in 1..Count(0) : k < j' /\ Rec(q).name = Rec(<<0, k>>).name
      <4> SUFFICES ASSUME pc' = "place", NEW q \in Pointers, entries'[q].used
                   PROVE  \E k \in 1..Count(0) : k < j' /\ Rec(q).name = Rec(<<0, k>>).name
        OBVIOUS
      <4>1. CASE q = p
        <5>1. j =< Count(0) /\ Rec(p).name = Rec(<<0, j>>).name
          BY <3>1, <3>2 DEF Adds
        <5>2. j \in 1..Count(0) /\ j < j'
          <6>1. j \in Nat \ {0} /\ 0 \in 0..last_file
            BY <1>1 DEF TypeOK
          <6>2. Count(0) \in Nat
            BY <1>1, <6>1, PointerFacts
          <6> QED BY <3>2, <5>1, <6>1, <6>2
        <5> QED BY <4>1, <5>1, <5>2
      <4>2. CASE q # p
        <5>1. PICK k \in 1..Count(0) : k < j /\ Rec(q).name = Rec(<<0, k>>).name
          BY <1>1, <3>2, <3>4, <4>2 DEF PlacedOnce
        <5>2. k < j'
          <6>1. k \in Int /\ j \in Int
            BY <3>3
          <6> QED BY <3>2, <5>1, <6>1
        <5> QED BY <5>1, <5>2
      <4> QED BY <4>1, <4>2
    <3> QED BY <1>1, <1>3, <3>2, <3>5, <3>6, <3>7 DEF PlacedOnce
  <2>2. CASE entries' = entries /\ all_entries' = all_entries
    <3>1. entries' = entries /\ all_entries' = all_entries
      BY <2>2
    <3>2. /\ \A p \in Pointers' : ~entries'[p].used => entries'[p] = initFromCDE(p)'
          /\ \A k \in 1..Len(all_entries') : entries'[all_entries'[k]].used
      BY <1>1, <1>3, <3>1 DEF PlacedOnce
    <3>3. \A n \in DOMAIN filename_2_entry' : (Rec(filename_2_entry[n]).name)' = n
      <4>1. CASE RecordPatchFile
        <5>1. ASSUME NEW n \in DOMAIN filename_2_entry' PROVE Rec(filename_2_entry'[n]).name = n
          <6>1. CASE n = Rec(<<i, j>>).name
            BY <4>1, <6>1 DEF RecordPatchFile
          <6>2. CASE n # Rec(<<i, j>>).name
            <7>1. n \in DOMAIN filename_2_entry /\ filename_2_entry'[n] = filename_2_entry[n]
              BY <4>1, <6>2 DEF RecordPatchFile
            <7> QED BY <1>1, <7>1 DEF PlacedOnce
          <6> QED BY <6>1, <6>2
        <5> QED BY <1>3, <5>1 DEF Rec
      <4>2. CASE filename_2_entry' = filename_2_entry
        <5>1. \A n \in DOMAIN filename_2_entry' : Rec(filename_2_entry'[n]).name = n
          BY <1>1, <4>2 DEF PlacedOnce
        <5> QED BY <1>3, <5>1 DEF Rec
      <4> QED BY <4>1, <4>2, OnlyRecordChangesLookup
    <3>4. pc' \in {"parse_patch", "scan"} => \A p \in Pointers : ~entries'[p].used
      BY <1>1, <3>1, ScanComesFirst DEF PlacedOnce
    <3>5. pc' = "place" =>
            \A q \in Pointers : entries'[q].used =>
                \E k \in 1..Count(0) : k < j' /\ Rec(q).name = Rec(<<0, k>>).name
      <4> SUFFICES ASSUME pc' = "place", NEW q \in Pointers, entries[q].used
                   PROVE  \E k \in 1..Count(0) : k < j' /\ Rec(q).name = Rec(<<0, k>>).name
        BY <3>1
      <4>1. pc = "place" /\ j' \in {j, j + 1}
        BY <1>1, PlaceComesNext DEF PlacedOnce
      <4>2. PICK k \in 1..Count(0) : k < j /\ Rec(q).name = Rec(<<0, k>>).name
        BY <1>1, <4>1 DEF PlacedOnce
      <4>3. k < j'
        <5>1. k \in Int /\ j \in Int
          BY <1>1 DEF TypeOK
        <5> QED BY <4>1, <4>2, <5>1
      <4> QED BY <4>2, <4>3
    <3> QED BY <1>3, <3>2, <3>3, <3>4, <3>5 DEF PlacedOnce
  <2> QED BY <2>1, <2>2, StepKinds DEF LeavesLayout, Finish, layout
<1> QED BY <1>1, <1>4, <1>5 DEF PlacingInv
=============================================================================
