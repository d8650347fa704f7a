------------------------ MODULE ShadowZipContentProofs ------------------------
(***************************************************************************)
(* Proofs about what the shadow apk that ShadowZip::init lays out holds:   *)
(* the partitions tile it, every entry is found where its record says, and *)
(* the central directory gives every entry the offset it was placed at and *)
(* lists what the shadow apk is meant to hold.                             *)
(***************************************************************************)
EXTENDS ShadowZipProofs

-----------------------------------------------------------------------------
(***************************************************************************)
(* The content of the shadow apk.                                          *)
(***************************************************************************)
\* What was mapped before an entry is added stays mapped.
LEMMA AddKeepsMaps ==
    ASSUME TypeOK, LastPartition, pc # "done", NEW p \in Pointers, Add(p),
           NEW x \in Int, NEW len \in Int, NEW f, NEW o, Maps(patch_partitions, x, len, f, o)
    PROVE  Maps(patch_partitions', x, len, f, o)
<1>1. patch_partitions \in Seq(FilePartitionInfo)
  BY DEF TypeOK
<1>2. CASE Merges(p)
  <2>1. getEntryEnd(p) - getEntryBegin(p) \in Nat
    BY WholeFacts
  <2> QED BY <1>1, <1>2, <2>1, MapsGrown DEF Merges
<1>3. CASE Appends(p)
  BY <1>1, <1>3, WholeFacts, MapsAppend DEF Appends
<1>4. CASE Pads(p)
  <2> DEFINE mid == Append(patch_partitions, Header(p))
  <2>1. Header(p) \in FilePartitionInfo /\ Body(p) \in FilePartitionInfo
    BY PaddedFacts
  <2>2. mid \in Seq(FilePartitionInfo) /\ Maps(mid, x, len, f, o)
    BY <1>1, <2>1, AppendProperties, MapsAppend
  <2>3. patch_partitions' = Append(mid, Body(p))
    BY <1>4 DEF Pads
  <2> HIDE DEF mid
  <2> QED BY <2>1, <2>2, <2>3, MapsAppend
<1> QED BY <1>2, <1>3, <1>4, AddCases

\* A table maps what lies within its last partition.
LEMMA MapsLast ==
    ASSUME NEW parts \in Seq(FilePartitionInfo), NEW part, NEW k \in 1..Len(parts),
           parts[k] = part, NEW x, NEW len, NEW o,
           part.shadow_start =< x, x + len =< part.shadow_stop,
           o - part.start_in_file = x - part.shadow_start
    PROVE  Maps(parts, x, len, part.file_index, o)
BY DEF Maps

\* The entry just added is mapped whole, unpadded, or header and data apart.
LEMMA AddMaps ==
    ASSUME TypeOK, LastPartition, Tiling, pc # "done", NEW p \in Pointers, Add(p)
    PROVE  /\ \/ /\ Padding(p) = 0
                 /\ Maps(patch_partitions', pre_shadow_stop,
                         HeaderLen(Rec(p), entries[p].extra), p[1], getEntryBegin(p))
              \/ /\ Pads(p)
                 /\ Maps(patch_partitions', pre_shadow_stop, NewLen(p), 1, HeaderFileLen)
           /\ Maps(patch_partitions', pre_shadow_stop + NewLen(p), DataLen(Rec(p)),
                   p[1], getFileOffset(p))
<1> DEFINE H == HeaderLen(Rec(p), entries[p].extra)
           D == DataLen(Rec(p))
           new == patch_partitions'
<1>1. /\ patch_partitions \in Seq(FilePartitionInfo) /\ pre_shadow_stop \in Nat
      /\ new \in Seq(FilePartitionInfo) /\ Len(patch_partitions) \in Nat
  BY AddTiles, LenProperties DEF TypeOK
<1>2. H \in Nat /\ D \in Nat
  BY EntryFacts
<1>3. /\ getEntryBegin(p) \in Nat /\ getFileOffset(p) = getEntryBegin(p) + H
      /\ getEntryEnd(p) = getFileOffset(p) + D
  BY OffsetFacts
<1>4. Padding(p) = 0 => NewLen(p) = H
  <2>1. entries[p].extra \in Nat
    BY EntryFacts
  <2> QED BY <2>1 DEF NewLen
<1>5. CASE Merges(p)
  <2> DEFINE last == Len(patch_partitions)
             old == patch_partitions[last]
             size == getEntryEnd(p) - getEntryBegin(p)
  <2>1. /\ last > 0 /\ old.file_index = p[1] /\ old.stop_in_file = getEntryBegin(p)
        /\ new = [patch_partitions EXCEPT ![last] = Grown(@, size)]
        /\ Padding(p) = 0
    BY <1>5 DEF Merges
  <2>2. size \in Nat /\ size = H + D
    BY WholeFacts
  <2>3. /\ Len(new) = last
        /\ new[last].shadow_start = old.shadow_start
        /\ new[last].start_in_file = old.start_in_file
        /\ new[last].file_index = old.file_index
        /\ new[last].shadow_stop = old.shadow_stop + size
    <3> HIDE DEF size
    <3> QED BY <1>1, <2>1, <2>2, GrownLast
  <2>4. last \in 1..Len(new) /\ last \in 1..Len(patch_partitions)
    BY <1>1, <2>1, <2>3
  <2>5. /\ old.shadow_start \in Nat /\ old.shadow_stop \in Nat
        /\ old.start_in_file \in Nat /\ old.stop_in_file \in Nat
    <3>1. old \in FilePartitionInfo
      BY <1>1, <2>4, ElementOfSeq
    <3> QED BY <3>1, PartitionFields
  <2>6. /\ old.shadow_stop = pre_shadow_stop
        /\ old.shadow_start =< old.shadow_stop
        /\ old.shadow_stop = old.shadow_start + (old.stop_in_file - old.start_in_file)
    <3>1. /\ old.shadow_start =< old.shadow_stop
          /\ old.shadow_stop = old.shadow_start + (old.stop_in_file - old.start_in_file)
      BY <2>4 DEF Tiling, Tiles
    <3>2. pre_shadow_stop = StopBefore(patch_partitions, last + 1)
      BY DEF Tiling, Tiles
    <3>3. StopBefore(patch_partitions, last + 1) = patch_partitions[last].shadow_stop
      BY <1>1, <2>1 DEF StopBefore
    <3> QED BY <3>1, <3>2, <3>3
  <2> DEFINE part == new[last]
  <2>7. /\ part.shadow_start \in Nat /\ part.shadow_stop \in Nat /\ part.start_in_file \in Nat
        /\ part.shadow_start =< pre_shadow_stop
        /\ part.shadow_stop = pre_shadow_stop + (H + D)
        /\ getEntryBegin(p) - part.start_in_file = pre_shadow_stop - part.shadow_start
    <3> HIDE DEF size, old, new, H, D, last
    <3>1. part.shadow_start = old.shadow_start /\ part.start_in_file = old.start_in_file
          /\ part.shadow_stop = old.shadow_stop + size
      BY <2>3
    <3>2. /\ part.shadow_start \in Nat /\ part.start_in_file \in Nat
          /\ part.shadow_start =< pre_shadow_stop
      BY <2>5, <2>6, <3>1
    <3>3. part.shadow_stop = pre_shadow_stop + (H + D)
      BY <2>2, <2>6, <3>1
    <3>4. part.shadow_stop \in Nat
      BY <1>1, <1>2, <3>3
    <3>5. old.stop_in_file - old.start_in_file = pre_shadow_stop - old.shadow_start
      BY <2>5, <2>6
    <3>6. getEntryBegin(p) - part.start_in_file = pre_shadow_stop - part.shadow_start
      BY <2>1, <3>1, <3>5
    <3> QED BY <3>2, <3>3, <3>4, <3>6
  <2> HIDE DEF part, size, old, H, D
  <2>8. Maps(new, pre_shadow_stop, H, part.file_index, getEntryBegin(p))
    <3>1. pre_shadow_stop + H =< part.shadow_stop
      BY <1>1, <1>2, <2>7
    <3> QED BY <1>1, <2>4, <2>7, <3>1, MapsLast DEF part
  <2>9. Maps(new, pre_shadow_stop + H, D, part.file_index, getEntryBegin(p) + H)
    <3> DEFINE x == pre_shadow_stop + H
               o == getEntryBegin(p) + H
    <3>1. part.shadow_start =< x /\ x + D =< part.shadow_stop
      BY <1>1, <1>2, <2>7
    <3>2. o - part.start_in_file = x - part.shadow_start
      <4> DEFINE u == getEntryBegin(p)
                 v == part.start_in_file
                 y == part.shadow_start
      <4>1. u \in Nat /\ v \in Nat /\ y \in Nat /\ pre_shadow_stop \in Nat /\ H \in Nat
        BY <1>1, <1>2, <1>3, <2>7
      <4>2. u - v = pre_shadow_stop - y
        BY <2>7
      <4> HIDE DEF u, v, y
      <4>3. (u + H) - v = (pre_shadow_stop + H) - y
        BY <4>1, <4>2
      <4> QED BY <4>3 DEF u, v, y
    <3> HIDE DEF x, o
    <3>3. Maps(new, x, D, part.file_index, o)
      BY <1>1, <2>4, <3>1, <3>2, MapsLast DEF part
    <3> QED BY <3>3 DEF x, o
  <2>10. part.file_index = p[1]
    BY <2>1, <2>3 DEF part, old
  <2> QED BY <1>3, <1>4, <2>1, <2>8, <2>9, <2>10 DEF H, D
<1>6. CASE Appends(p)
  <2> DEFINE last == Len(patch_partitions) + 1
             part == Whole(p)
  <2>1. Padding(p) = 0 /\ new = Append(patch_partitions, part) /\ part \in FilePartitionInfo
    BY <1>6, WholeFacts DEF Appends
  <2>2. last \in 1..Len(new) /\ new[last] = part
    <3> HIDE DEF part
    <3>1. Len(new) = Len(patch_partitions) + 1 /\ new[Len(patch_partitions) + 1] = part
      BY <1>1, <2>1, AppendProperties
    <3> QED BY <1>1, <3>1
  <2>3. /\ part.shadow_start = pre_shadow_stop
        /\ part.shadow_stop = pre_shadow_stop + (H + D)
        /\ part.file_index = p[1]
        /\ part.start_in_file = getEntryBegin(p)
    BY WholeFacts
  <2> HIDE DEF part, H, D, last
  <2>4. Maps(new, pre_shadow_stop, H, part.file_index, getEntryBegin(p))
    <3>1. /\ part.shadow_start =< pre_shadow_stop
          /\ pre_shadow_stop + H =< part.shadow_stop
          /\ getEntryBegin(p) - part.start_in_file = pre_shadow_stop - part.shadow_start
      BY <1>1, <1>2, <1>3, <2>3
    <3> QED BY <1>1, <2>2, <3>1, MapsLast
  <2>5. Maps(new, pre_shadow_stop + H, D, part.file_index, getEntryBegin(p) + H)
    <3> DEFINE x == pre_shadow_stop + H
               o == getEntryBegin(p) + H
    <3>1. part.shadow_start =< x /\ x + D =< part.shadow_stop
      BY <1>1, <1>2, <2>3
    <3>2. o - part.start_in_file = x - part.shadow_start
      BY <1>1, <1>2, <1>3, <2>3
    <3> HIDE DEF x, o
    <3>3. Maps(new, x, D, part.file_index, o)
      BY <1>1, <2>2, <3>1, <3>2, MapsLast
    <3> QED BY <3>3 DEF x, o
  <2> QED BY <1>3, <1>4, <2>1, <2>3, <2>4, <2>5 DEF H, D
<1>7. CASE Pads(p)
  <2> DEFINE mid == Append(patch_partitions, Header(p))
  <2>1. /\ new = Append(mid, Body(p))
        /\ Header(p) \in FilePartitionInfo /\ Body(p) \in FilePartitionInfo
        /\ NewLen(p) \in Nat /\ HeaderFileLen \in Nat
    BY <1>7, PaddedFacts DEF Pads
  <2>2. /\ mid \in Seq(FilePartitionInfo)
        /\ Len(mid) = Len(patch_partitions) + 1 /\ mid[Len(patch_partitions) + 1] = Header(p)
    BY <1>1, <2>1, AppendProperties
  <2> HIDE DEF mid
  <2>3. Len(mid) \in 1..Len(mid) /\ mid[Len(mid)] = Header(p)
    BY <1>1, <2>2
  <2>4. Len(new) = Len(mid) + 1 /\ new[Len(mid) + 1] = Body(p)
    BY <2>1, <2>2, AppendProperties
  <2>5. Len(mid) + 1 \in 1..Len(new)
    BY <1>1, <2>2, <2>4
  <2>6. Maps(new, pre_shadow_stop, NewLen(p), 1, HeaderFileLen)
    <3>1. /\ Header(p).shadow_start = pre_shadow_stop
          /\ Header(p).shadow_stop = pre_shadow_stop + NewLen(p)
          /\ Header(p).file_index = 1 /\ Header(p).start_in_file = HeaderFileLen
      BY PaddedFacts
    <3>2. /\ Header(p).shadow_start =< pre_shadow_stop
          /\ pre_shadow_stop + NewLen(p) =< Header(p).shadow_stop
          /\ HeaderFileLen - Header(p).start_in_file = pre_shadow_stop - Header(p).shadow_start
      BY <1>1, <2>1, <3>1
    <3>3. Maps(mid, pre_shadow_stop, NewLen(p), 1, HeaderFileLen)
      BY <2>2, <2>3, <3>1, <3>2, MapsLast
    <3> QED BY <1>1, <2>1, <2>2, <3>3, MapsAppend
  <2>7. Maps(new, pre_shadow_stop + NewLen(p), D, p[1], getFileOffset(p))
    <3>1. /\ Body(p).shadow_start = pre_shadow_stop + NewLen(p)
          /\ Body(p).shadow_stop = pre_shadow_stop + NewLen(p) + D
          /\ Body(p).file_index = p[1] /\ Body(p).start_in_file = getFileOffset(p)
      BY PaddedFacts
    <3>2. getFileOffset(p) \in Nat
      BY OffsetFacts
    <3> DEFINE x == pre_shadow_stop + NewLen(p)
               o == getFileOffset(p)
    <3>3. Body(p).shadow_start =< x /\ x + D =< Body(p).shadow_stop
      <4> HIDE DEF D
      <4> QED BY <1>1, <1>2, <2>1, <3>1
    <3>4. o - Body(p).start_in_file = x - Body(p).shadow_start
      <4> HIDE DEF D
      <4> QED BY <1>1, <1>2, <2>1, <3>1, <3>2
    <3>5. Len(mid) + 1 \in 1..Len(new) /\ new[Len(mid) + 1] = Body(p) /\ Body(p).file_index = p[1]
      BY <2>4, <2>5, <3>1
    <3> HIDE DEF x, o, D, new
    <3>6. Maps(new, x, D, p[1], o)
      BY <1>1, <3>3, <3>4, <3>5, MapsLast
    <3> QED BY <3>6 DEF x, o
  <2> QED BY <1>7, <2>6, <2>7
<1> QED BY <1>5, <1>6, <1>7, AddCases

\* An entry already placed is not the one being added, and keeps its place;
\* the added one begins at the end and the shadow file grows by its length.
LEMMA AddedEntry ==
    ASSUME PlacingInv, NEW p \in Pointers, Adds(p)
    PROVE  /\ all_entries' = Append(all_entries, p)
           /\ \A k \in 1..Len(all_entries) :
                 all_entries[k] \in Pointers /\ all_entries[k] # p
           /\ \A q \in Pointers : q # p => entries'[q] = entries[q]
           /\ entries'[p].lfh = pre_shadow_stop
           /\ entries'[p].extra = entries[p].extra + Padding(p)
           /\ entries[p].lfh = Rec(p).lfh /\ entries[p].extra = Rec(p).extra
           /\ \A q : Rec(q)' = Rec(q)
<1>1. TypeOK /\ PlacedOnce
  BY DEF PlacingInv, TypeInv
<1>2. /\ all_entries' = Append(all_entries, p)
      /\ entries' = [entries EXCEPT ![p] = PlacedEntry(p)]
      /\ ~entries[p].used
  BY DEF Adds, Add
<1>3. entries \in [Pointers -> ZipEntry] /\ all_entries \in Seq(Pointers)
  BY <1>1 DEF TypeOK
<1>4. \A k \in 1..Len(all_entries) : all_entries[k] \in Pointers /\ all_entries[k] # p
  <2>1. ASSUME NEW k \in 1..Len(all_entries)
        PROVE  all_entries[k] \in Pointers /\ entries[all_entries[k]].used
    BY <1>1, <1>3, ElementOfSeq DEF PlacedOnce
  <2> QED BY <1>2, <2>1
<1>5. \A q \in Pointers : q # p => entries'[q] = entries[q]
  BY <1>2, <1>3
<1>6. entries'[p] = PlacedEntry(p)
  BY <1>2, <1>3
<1>7. entries[p] = initFromCDE(p)
  BY <1>1, <1>2 DEF PlacedOnce
<1>8. \A q : Rec(q)' = Rec(q)
  BY InputStep DEF Adds
<1> QED BY <1>2, <1>4, <1>5, <1>6, <1>7, <1>8 DEF PlacedEntry, initFromCDE

LEMMA AddedOffsets ==
    ASSUME PlacingInv, NEW p \in Pointers, Adds(p)
    PROVE  /\ getFileOffset(p)' = pre_shadow_stop + NewLen(p)
           /\ getEntryEnd(p)' = pre_shadow_stop'
           /\ \A q \in Pointers : q # p => /\ getFileOffset(q)' = getFileOffset(q)
                                         /\ getEntryEnd(q)' = getEntryEnd(q)
<1>1. TypeOK /\ LastPartition /\ pc # "done" /\ Add(p)
  BY DEF PlacingInv, TypeInv, Adds
<1>2. /\ entries'[p].lfh = pre_shadow_stop
      /\ entries'[p].extra = entries[p].extra + Padding(p)
      /\ \A q \in Pointers : q # p => entries'[q] = entries[q]
      /\ \A q : Rec(q)' = Rec(q)
  BY AddedEntry
<1>3. getFileOffset(p)' = pre_shadow_stop + NewLen(p)
  BY <1>2 DEF getFileOffset, NewLen
<1>4. getEntryEnd(p)' = pre_shadow_stop + NewLen(p) + DataLen(Rec(p))
  BY <1>2, <1>3 DEF getEntryEnd
<1>5. pre_shadow_stop' = pre_shadow_stop + NewLen(p) + DataLen(Rec(p))
  <2>1. CASE Pads(p)
    BY <2>1 DEF Pads
  <2>2. CASE Merges(p) \/ Appends(p)
    <3>1. /\ Padding(p) = 0
          /\ pre_shadow_stop' = pre_shadow_stop + (getEntryEnd(p) - getEntryBegin(p))
      BY <2>2 DEF Merges, Appends
    <3>2. getEntryEnd(p) - getEntryBegin(p)
            = HeaderLen(Rec(p), entries[p].extra) + DataLen(Rec(p))
      BY <1>1, WholeFacts
    <3>3. /\ entries[p].extra \in Nat /\ DataLen(Rec(p)) \in Nat
          /\ HeaderLen(Rec(p), entries[p].extra) \in Nat /\ pre_shadow_stop \in Nat
      BY <1>1, EntryFacts DEF TypeOK
    <3>4. NewLen(p) = HeaderLen(Rec(p), entries[p].extra)
      BY <3>1, <3>3 DEF NewLen
    <3> QED BY <3>1, <3>2, <3>3, <3>4
  <2> QED BY <1>1, <2>1, <2>2, AddCases
<1>6. \A q \in Pointers : q # p => /\ getFileOffset(q)' = getFileOffset(q)
                               /\ getEntryEnd(q)' = getEntryEnd(q)
  BY <1>2 DEF getFileOffset, getEntryEnd
<1> QED BY <1>3, <1>4, <1>5, <1>6

-----------------------------------------------------------------------------
(***************************************************************************)
(* The partitions tile the shadow apk.                                     *)
(***************************************************************************)
TilingInv == PlacingInv /\ Tiling

LEMMA InitTiling == Init => TilingInv
<1> SUFFICES ASSUME Init PROVE TilingInv
  OBVIOUS
<1>1. patch_partitions = <<>> /\ pre_shadow_stop = 0 /\ pc # "done"
  BY DEF Init
<1>2. Len(patch_partitions) = 0
  BY <1>1
<1>3. Tiling
  BY <1>1, <1>2 DEF Tiling, Tiles, StopBefore
<1> QED BY <1>3, InitPlacing DEF TilingInv

\* The partition of the central directory, which the last step appends.
LEMMA FinishTiles ==
    ASSUME TypeOK, Tiling, Finish
    PROVE  Tiling'
<1>1. /\ patch_partitions \in Seq(FilePartitionInfo) /\ last_file + 1 \in Nat
      /\ pre_shadow_stop \in Nat /\ end_size \in Nat
  BY DEF TypeOK
<1>2. /\ end_size' = end_size + 22 /\ end_of_file' = pre_shadow_stop + end_size'
      /\ pc # "done" /\ pc' = "done"
  BY DEF Finish, kEOCDLen
<1>3. end_size' \in Nat /\ end_of_file' \in Nat /\ pre_shadow_stop =< end_of_file'
  BY <1>1, <1>2
<1> DEFINE part == Partition(pre_shadow_stop, end_of_file', last_file + 1, 0, end_size')
<1>4. patch_partitions' = Append(patch_partitions, part)
  BY DEF Finish
<1>5. part \in FilePartitionInfo
  BY <1>1, <1>3 DEF Partition, FilePartitionInfo
<1>6. /\ part.shadow_start = pre_shadow_stop /\ part.shadow_stop = end_of_file'
      /\ part.start_in_file = 0 /\ part.stop_in_file = end_size'
  BY DEF Partition
<1> HIDE DEF part
<1>7. Tiles(patch_partitions, part.shadow_start)
  BY <1>2, <1>6 DEF Tiling
<1>8. /\ part.shadow_start =< part.shadow_stop /\ part.start_in_file =< part.stop_in_file
      /\ part.shadow_stop = part.shadow_start + (part.stop_in_file - part.start_in_file)
  BY <1>1, <1>2, <1>3, <1>6
<1>9. Tiles(patch_partitions', end_of_file')
  BY <1>1, <1>4, <1>5, <1>6, <1>7, <1>8, TilesAppend
<1> QED BY <1>2, <1>9 DEF Tiling

LEMMA NextTiling == TilingInv /\ [Next]_vars => TilingInv'
<1> SUFFICES ASSUME TilingInv, [Next]_vars PROVE TilingInv'
  OBVIOUS
<1>1. PlacingInv' /\ PlacingInv /\ TypeOK /\ LastPartition /\ Tiling
  BY NextPlacing DEF TilingInv, PlacingInv, TypeInv
<1>2. ASSUME NEW p \in Pointers, Adds(p) PROVE Tiling'
  <2>1. pc # "done" /\ pc' = pc /\ Add(p)
    BY <1>2 DEF Adds
  <2>2. Tiles(patch_partitions, pre_shadow_stop)
    BY <1>1, <2>1 DEF Tiling
  <2>3. Tiles(patch_partitions', pre_shadow_stop')
    BY <1>1, <2>1, <2>2, AddTiles
  <2> QED BY <2>1, <2>3 DEF Tiling
<1>3. Finish => Tiling'
  BY <1>1, FinishTiles
<1>4. LeavesLayout => Tiling'
  BY <1>1 DEF LeavesLayout, layout, Tiling
<1>5. Tiling'
  BY <1>1, <1>2, <1>3, <1>4, StepKinds
<1> QED BY <1>1, <1>5 DEF TilingInv

\* In every reachable state the partition table covers the shadow file byte for
\* byte up to its end, so a handle at any offset finds the one partition it
\* reads from and the assertion in the loop of ShadowZip::fread holds.
THEOREM TableTiles == Spec => []Tiling
<1>1. Init => TilingInv
  BY InitTiling
<1>2. TilingInv /\ [Next]_vars => TilingInv'
  BY NextTiling
<1>3. TilingInv => Tiling
  BY DEF TilingInv
<1> QED BY <1>1, <1>2, <1>3, PTL DEF Spec

-----------------------------------------------------------------------------
(***************************************************************************)
(* Every entry is where its record says, whole, aligned and on its own.    *)
(***************************************************************************)
ContentInv == TilingInv /\ ContentMapped /\ Aligned /\ EndToEnd

\* What an entry that was placed before reads as when another one is added.
LEMMA AddKeepsEntry ==
    ASSUME TilingInv, NEW p \in Pointers, Adds(p), NEW q \in Pointers, q # p,
           HeaderMapped(q), DataMapped(q)
    PROVE  HeaderMapped(q)' /\ DataMapped(q)'
<1>1. TypeOK /\ LastPartition /\ pc # "done" /\ Add(p) /\ PlacingInv
  BY DEF TilingInv, PlacingInv, TypeInv, Adds
<1>2. /\ entries'[q] = entries[q] /\ Rec(q)' = Rec(q)
      /\ getFileOffset(q)' = getFileOffset(q)
  BY <1>1, AddedEntry, AddedOffsets
<1>3. /\ entries[q].lfh \in Int /\ getFileOffset(q) \in Int /\ DataLen(Rec(q)) \in Int
      /\ HeaderLen(Rec(q), Rec(q).extra) \in Int
      /\ HeaderLen(Rec(q), entries[q].extra) \in Int
  BY <1>1, EntryFacts, OffsetFacts
<1>4. /\ Len(header_file) =< Len(header_file')
      /\ \A h \in 1..Len(header_file) : h \in 1..Len(header_file') /\ header_file'[h] = header_file[h]
  <2>1. CASE header_file' = header_file
    <3>1. Len(header_file) \in Nat
      BY <1>1, LenProperties DEF TypeOK
    <3> QED BY <2>1, <3>1
  <2>2. CASE Pads(p)
    <3>1. header_file \in Seq(HeaderRecord) /\ HeaderFileLen \in Nat /\ NewLen(p) \in Nat
      BY <1>1, PaddedFacts DEF TypeOK
    <3> DEFINE r == [entry |-> p, start |-> HeaderFileLen, stop |-> HeaderFileLen + NewLen(p)]
    <3>2. r \in HeaderRecord /\ header_file' = Append(header_file, r)
      BY <2>2, <3>1 DEF Pads, HeaderRecord
    <3> HIDE DEF r
    <3>3. /\ Len(header_file') = Len(header_file) + 1 /\ Len(header_file) \in Nat
          /\ \A h \in 1..Len(header_file) : header_file'[h] = header_file[h]
      BY <3>1, <3>2, AppendProperties, LenProperties
    <3> QED BY <3>3
  <2> QED BY <1>1, <2>1, <2>2, AddCases DEF Merges, Appends
<1>5. DataMapped(q)'
  <2>1. Maps(patch_partitions', getFileOffset(q), DataLen(Rec(q)),
             q[1], Rec(q).lfh + HeaderLen(Rec(q), Rec(q).extra))
    BY <1>1, <1>3, AddKeepsMaps DEF DataMapped
  <2> QED BY <1>2, <2>1 DEF DataMapped
<1>6. HeaderMapped(q)'
  <2>1. CASE /\ entries[q].extra = Rec(q).extra
             /\ Maps(patch_partitions, entries[q].lfh, HeaderLen(Rec(q), Rec(q).extra),
                     q[1], Rec(q).lfh)
    <3>1. Maps(patch_partitions', entries[q].lfh, HeaderLen(Rec(q), Rec(q).extra),
               q[1], Rec(q).lfh)
      BY <1>1, <1>3, <2>1, AddKeepsMaps
    <3> QED BY <1>2, <2>1, <3>1 DEF HeaderMapped
  <2>2. ASSUME NEW h \in 1..Len(header_file),
               header_file[h].entry = q,
               header_file[h].stop - header_file[h].start = HeaderLen(Rec(q), entries[q].extra),
               Maps(patch_partitions, entries[q].lfh,
                    HeaderLen(Rec(q), entries[q].extra), 1, header_file[h].start)
        PROVE  HeaderMapped(q)'
    <3>1. Maps(patch_partitions', entries[q].lfh,
               HeaderLen(Rec(q), entries[q].extra), 1, header_file[h].start)
      BY <1>1, <1>3, <2>2, AddKeepsMaps
    <3>2. h \in 1..Len(header_file') /\ header_file'[h] = header_file[h]
      BY <1>4
    <3> QED BY <1>2, <2>2, <3>1, <3>2 DEF HeaderMapped
  <2> QED BY <2>1, <2>2 DEF HeaderMapped
<1> QED BY <1>5, <1>6

\* The added entry reads as its header and its data.
LEMMA AddedMapped ==
    ASSUME TilingInv, NEW p \in Pointers, Adds(p)
    PROVE  HeaderMapped(p)' /\ DataMapped(p)'
<1>1. TypeOK /\ LastPartition /\ Tiling /\ pc # "done" /\ Add(p) /\ PlacingInv
  BY DEF TilingInv, PlacingInv, TypeInv, Adds
<1>2. /\ entries'[p].lfh = pre_shadow_stop
      /\ entries'[p].extra = entries[p].extra + Padding(p)
      /\ entries[p].lfh = Rec(p).lfh /\ entries[p].extra = Rec(p).extra
      /\ Rec(p)' = Rec(p)
  BY <1>1, AddedEntry
<1>3. getFileOffset(p)' = pre_shadow_stop + NewLen(p)
  BY <1>1, AddedOffsets
<1>4. /\ getEntryBegin(p) = Rec(p).lfh
      /\ getFileOffset(p) = Rec(p).lfh + HeaderLen(Rec(p), Rec(p).extra)
  BY <1>2 DEF getEntryBegin, getFileOffset
<1>5. DataMapped(p)'
  <2>1. Maps(patch_partitions', pre_shadow_stop + NewLen(p), DataLen(Rec(p)),
             p[1], getFileOffset(p))
    BY <1>1, AddMaps
  <2> QED BY <1>2, <1>3, <1>4, <2>1 DEF DataMapped
<1>6. HeaderMapped(p)'
  <2>1. CASE /\ Padding(p) = 0
             /\ Maps(patch_partitions', pre_shadow_stop,
                     HeaderLen(Rec(p), entries[p].extra), p[1], getEntryBegin(p))
    <3>1. entries'[p].extra = Rec(p).extra
      <4>1. Rec(p).extra \in Nat
        BY <1>1, EntryFacts
      <4> QED BY <1>2, <2>1, <4>1
    <3> QED BY <1>2, <1>4, <2>1, <3>1 DEF HeaderMapped
  <2>2. CASE /\ Pads(p)
             /\ Maps(patch_partitions', pre_shadow_stop, NewLen(p), 1, HeaderFileLen)
    <3>1. header_file \in Seq(HeaderRecord) /\ HeaderFileLen \in Nat /\ NewLen(p) \in Nat
      BY <1>1, PaddedFacts DEF TypeOK
    <3> DEFINE r == [entry |-> p, start |-> HeaderFileLen, stop |-> HeaderFileLen + NewLen(p)]
               h == Len(header_file) + 1
    <3>2. r \in HeaderRecord /\ header_file' = Append(header_file, r)
      BY <2>2, <3>1 DEF Pads, HeaderRecord
    <3>3. /\ r.entry = p /\ r.start = HeaderFileLen /\ r.stop = HeaderFileLen + NewLen(p)
          /\ r.stop - r.start = NewLen(p)
      BY <3>1
    <3> HIDE DEF r
    <3>4. Len(header_file') = Len(header_file) + 1 /\ header_file'[Len(header_file) + 1] = r
      BY <3>1, <3>2, AppendProperties
    <3>5. h \in 1..Len(header_file')
      BY <3>1, <3>4, LenProperties
    <3>6. header_file'[h] = r
      BY <3>4
    <3>7. HeaderLen(Rec(p)', entries'[p].extra) = NewLen(p)
      BY <1>2 DEF NewLen
    <3> HIDE DEF h
    <3> QED BY <1>2, <2>2, <3>3, <3>5, <3>6, <3>7 DEF HeaderMapped
  <2> QED BY <1>1, <2>1, <2>2, AddMaps
<1> QED BY <1>5, <1>6

\* Placed gains the added entry, which it did not have.
LEMMA AddedPlaced ==
    ASSUME PlacingInv, NEW p \in Pointers, Adds(p)
    PROVE  Placed' = Placed \cup {p} /\ p \notin Placed /\ Placed \subseteq Pointers
<1>1. TypeOK /\ all_entries \in Seq(Pointers)
  BY DEF PlacingInv, TypeInv, TypeOK
<1>2. /\ all_entries' = Append(all_entries, p)
      /\ \A k \in 1..Len(all_entries) : all_entries[k] \in Pointers /\ all_entries[k] # p
  BY AddedEntry
<1>3. /\ Len(all_entries') = Len(all_entries) + 1 /\ Len(all_entries) \in Nat
      /\ all_entries'[Len(all_entries) + 1] = p
      /\ \A k \in 1..Len(all_entries) : all_entries'[k] = all_entries[k]
  BY <1>1, <1>2, AppendProperties, LenProperties
<1>4. 1..Len(all_entries') = (1..Len(all_entries)) \cup {Len(all_entries) + 1}
  BY <1>3
<1>5. Placed' = Placed \cup {p}
  BY <1>3, <1>4 DEF Placed
<1> QED BY <1>2, <1>5 DEF Placed

LEMMA AddContent ==
    ASSUME ContentInv, NEW p \in Pointers, Adds(p)
    PROVE  ContentMapped' /\ Aligned' /\ EndToEnd'
<1>1. TilingInv /\ PlacingInv /\ TypeOK /\ ContentMapped /\ Aligned /\ EndToEnd
  BY DEF ContentInv, TilingInv, PlacingInv, TypeInv
<1>2. Placed' = Placed \cup {p} /\ p \notin Placed /\ Placed \subseteq Pointers
  BY <1>1, AddedPlaced
<1>3. /\ \A q : Rec(q)' = Rec(q)
      /\ \A q \in Pointers : q # p => /\ getFileOffset(q)' = getFileOffset(q)
                                   /\ getEntryEnd(q)' = getEntryEnd(q)
      /\ getFileOffset(p)' = pre_shadow_stop + NewLen(p)
      /\ getEntryEnd(p)' = pre_shadow_stop'
  BY <1>1, AddedEntry, AddedOffsets
<1>4. ContentMapped'
  <2> SUFFICES ASSUME NEW q \in Placed' PROVE HeaderMapped(q)' /\ DataMapped(q)'
    BY DEF ContentMapped
  <2>1. CASE q = p
    BY <1>1, <2>1, AddedMapped
  <2>2. CASE q # p
    <3>1. q \in Pointers /\ HeaderMapped(q) /\ DataMapped(q)
      BY <1>1, <1>2, <2>2 DEF ContentMapped
    <3> QED BY <1>1, <2>2, <3>1, AddKeepsEntry
  <2> QED BY <2>1, <2>2
<1>5. Aligned'
  <2> SUFFICES ASSUME NEW q \in Placed', Rec(q).stored
               PROVE  getFileOffset(q)' % Alignment = 0
    BY <1>3 DEF Aligned, Alignment
  <2>1. CASE q = p
    BY <1>1, <1>3, <2>1, PaddingFacts DEF NewLen
  <2>2. CASE q # p
    BY <1>1, <1>2, <1>3, <2>2 DEF Aligned
  <2> QED BY <2>1, <2>2
<1>6. EndToEnd'
  <2> SUFFICES ASSUME NEW k \in 1..Len(all_entries')
               PROVE  getEntryEnd(all_entries[k])' =
                          IF k = Len(all_entries') THEN pre_shadow_stop'
                          ELSE entries'[all_entries'[k + 1]].lfh
    BY DEF EndToEnd
  <2> DEFINE n == Len(all_entries)
  <2>1. /\ Len(all_entries') = n + 1 /\ n \in Nat /\ all_entries'[n + 1] = p
        /\ \A m \in 1..n : /\ all_entries'[m] = all_entries[m]
                         /\ all_entries[m] \in Pointers /\ all_entries[m] # p
    <3>1. all_entries' = Append(all_entries, p) /\ all_entries \in Seq(Pointers)
      BY <1>1, AddedEntry DEF TypeOK
    <3>2. \A m \in 1..n : all_entries[m] \in Pointers /\ all_entries[m] # p
      BY <1>1, AddedEntry
    <3> QED BY <3>1, <3>2, AppendProperties, LenProperties
  <2>2. entries'[p].lfh = pre_shadow_stop /\ \A q \in Pointers : q # p => entries'[q] = entries[q]
    BY <1>1, AddedEntry
  <2>3. ASSUME NEW q, all_entries'[k] = q PROVE getEntryEnd(all_entries[k])' = getEntryEnd(q)'
    BY <2>3 DEF getEntryEnd, getFileOffset, Rec
  <2>4. CASE k = n + 1
    BY <1>3, <2>1, <2>3, <2>4
  <2>5. CASE k \in 1..n
    <3>1. getEntryEnd(all_entries[k])' = getEntryEnd(all_entries[k])
      <4> DEFINE q == all_entries[k]
      <4>1. q \in Pointers /\ q # p /\ all_entries'[k] = q
        BY <2>1, <2>5
      <4> QED
        BY <1>3, <2>2, <4>1 DEF getEntryEnd, getFileOffset, Rec
    <3>2. getEntryEnd(all_entries[k]) =
              IF k = n THEN pre_shadow_stop ELSE entries[all_entries[k + 1]].lfh
      BY <1>1, <2>5 DEF EndToEnd
    <3>3. CASE k = n
      <4>1. all_entries'[k + 1] = p /\ k # Len(all_entries')
        BY <2>1, <3>3
      <4> QED BY <2>2, <3>1, <3>2, <3>3, <4>1
    <3>4. CASE k # n
      <4>1. k + 1 \in 1..n /\ k # Len(all_entries')
        BY <2>1, <2>5, <3>4
      <4>2. /\ all_entries'[k + 1] = all_entries[k + 1] /\ all_entries[k + 1] \in Pointers
            /\ all_entries[k + 1] # p
        BY <2>1, <4>1
      <4>3. entries'[all_entries'[k + 1]] = entries[all_entries[k + 1]]
        BY <2>2, <4>2
      <4> QED BY <3>1, <3>2, <3>4, <4>1, <4>3
    <3> QED BY <3>3, <3>4
  <2>6. k \in 1..n \/ k = n + 1
    BY <2>1
  <2> QED BY <2>4, <2>5, <2>6
<1> QED BY <1>4, <1>5, <1>6

LEMMA InitContent == Init => ContentInv
<1> SUFFICES ASSUME Init PROVE ContentInv
  OBVIOUS
<1>1. all_entries = <<>> /\ Len(all_entries) = 0
  BY DEF Init
<1>2. Placed = {}
  BY <1>1 DEF Placed
<1>3. EndToEnd
  BY <1>1 DEF EndToEnd
<1> QED BY <1>2, <1>3, InitTiling DEF ContentInv, ContentMapped, Aligned

\* The directory's partition leaves what is mapped mapped.
LEMMA FinishContent ==
    ASSUME ContentInv, Finish
    PROVE  ContentMapped' /\ Aligned' /\ EndToEnd'
<1>1. TypeOK /\ ContentMapped /\ Aligned /\ EndToEnd
  BY DEF ContentInv, TilingInv, PlacingInv, TypeInv
<1>2. /\ entries' = entries /\ all_entries' = all_entries /\ header_file' = header_file
      /\ pre_shadow_stop' = pre_shadow_stop /\ UNCHANGED input
  BY DEF Finish
<1>3. disk' = disk /\ Placed' = Placed
  BY <1>2 DEF input, Placed
<1>4. Aligned' /\ EndToEnd'
  BY <1>1, <1>2, <1>3 DEF Aligned, EndToEnd, getFileOffset, getEntryEnd, Rec
<1>5. ASSUME NEW x, NEW len, NEW f, NEW o, Maps(patch_partitions, x, len, f, o)
      PROVE  Maps(patch_partitions', x, len, f, o)
  <2> DEFINE part == Partition(pre_shadow_stop, end_of_file', last_file + 1, 0, end_size')
  <2>1. patch_partitions \in Seq(FilePartitionInfo) /\ patch_partitions' = Append(patch_partitions, part)
    BY <1>1 DEF TypeOK, Finish
  <2>2. /\ last_file + 1 \in Nat /\ pre_shadow_stop \in Nat
        /\ end_size' \in Nat /\ end_of_file' \in Nat
    BY <1>1 DEF TypeOK, Finish, kEOCDLen
  <2>3. part \in FilePartitionInfo
    BY <2>2 DEF Partition, FilePartitionInfo
  <2> HIDE DEF part
  <2> QED BY <1>5, <2>1, <2>3, MapsAppend
<1>6. ContentMapped'
  <2> SUFFICES ASSUME NEW q \in Placed PROVE HeaderMapped(q)' /\ DataMapped(q)'
    BY <1>3 DEF ContentMapped
  <2>1. HeaderMapped(q) /\ DataMapped(q)
    BY <1>1 DEF ContentMapped
  <2>2. Rec(q)' = Rec(q) /\ getFileOffset(q)' = getFileOffset(q)
    BY <1>2, <1>3 DEF Rec, getFileOffset
  <2>3. DataMapped(q)'
    BY <1>5, <2>1, <2>2 DEF DataMapped
  <2>4. HeaderMapped(q)'
    BY <1>2, <1>5, <2>1, <2>2 DEF HeaderMapped
  <2> QED BY <2>3, <2>4
<1> QED BY <1>4, <1>6

LEMMA NextContent == ContentInv /\ [Next]_vars => ContentInv'
<1> SUFFICES ASSUME ContentInv, [Next]_vars PROVE ContentInv'
  OBVIOUS
<1>1. TilingInv' /\ TilingInv /\ PlacingInv
  BY NextTiling DEF ContentInv, TilingInv
<1>2. ASSUME NEW p \in Pointers, Adds(p) PROVE ContentMapped' /\ Aligned' /\ EndToEnd'
  BY <1>2, AddContent
<1>3. Finish => ContentMapped' /\ Aligned' /\ EndToEnd'
  BY FinishContent
<1>4. LeavesLayout => ContentMapped' /\ Aligned' /\ EndToEnd'
  <2> SUFFICES ASSUME LeavesLayout PROVE ContentMapped' /\ Aligned' /\ EndToEnd'
    OBVIOUS
  <2>1. /\ entries' = entries /\ all_entries' = all_entries /\ header_file' = header_file
        /\ pre_shadow_stop' = pre_shadow_stop /\ patch_partitions' = patch_partitions
        /\ disk' = disk
    BY DEF LeavesLayout, layout, input
  <2>2. Placed' = Placed
    BY <2>1 DEF Placed
  <2>3. Aligned' /\ EndToEnd'
    BY <2>1, <2>2 DEF ContentInv, Aligned, EndToEnd, getFileOffset, getEntryEnd, Rec
  <2>4. ASSUME NEW q \in Placed PROVE HeaderMapped(q)' /\ DataMapped(q)'
    <3>1. HeaderMapped(q) /\ DataMapped(q)
      BY DEF ContentInv, ContentMapped
    <3>2. Rec(q)' = Rec(q) /\ getFileOffset(q)' = getFileOffset(q)
      BY <2>1 DEF Rec, getFileOffset
    <3> QED BY <2>1, <3>1, <3>2 DEF HeaderMapped, DataMapped
  <2>5. ContentMapped'
    BY <2>2, <2>4 DEF ContentMapped
  <2> QED BY <2>3, <2>5
<1> QED BY <1>1, <1>2, <1>3, <1>4, StepKinds DEF ContentInv

\* For every package: through merging, padding and replacement each entry that
\* add_entry_to_partition placed reads as its local header and then its data.
THEOREM EntriesReadBack == Spec => []ContentMapped
<1>1. ContentInv => ContentMapped
  BY DEF ContentInv
<1> QED BY <1>1, InitContent, NextContent, PTL DEF Spec

\* For every package: the data of each stored entry is at a multiple of four.
THEOREM StoredDataAligned == Spec => []Aligned
<1>1. ContentInv => Aligned
  BY DEF ContentInv
<1> QED BY <1>1, InitContent, NextContent, PTL DEF Spec

\* For every package: each entry begins where the one before it stops.
THEOREM EntriesEndToEnd == Spec => []EndToEnd
<1>1. ContentInv => EndToEnd
  BY DEF ContentInv
<1> QED BY <1>1, InitContent, NextContent, PTL DEF Spec

-----------------------------------------------------------------------------
(***************************************************************************)
(* No partition reaches past the end of its file.                          *)
(***************************************************************************)
\* InBounds of one partition.
Fits(part) ==
    \/ part.file_index \in 0..last_file /\ part.file_index # 1
       /\ part.stop_in_file =< disk[part.file_index].size
    \/ part.file_index = 1 /\ part.stop_in_file =< HeaderFileLen
    \/ part.file_index = last_file + 1 /\ part.stop_in_file =< end_size

BoundsInv == PlacingInv /\ InBounds

\* An entry about to be added still is where its archive has it, and an archive
\* with an entry is not the header file.
LEMMA FreshInArchive ==
    ASSUME PlacingInv, NEW p \in Pointers, Adds(p)
    PROVE  /\ p[1] \in 0..last_file /\ p[1] # 1
           /\ getEntryEnd(p) =< disk[p[1]].size
<1>1. TypeOK /\ DiskOK
  BY DEF PlacingInv, TypeInv
<1>2. p[1] \in 0..last_file /\ p[2] \in 1..Count(p[1])
  BY <1>1, PointerFacts
<1>3. p[1] # 1
  <2> SUFFICES ASSUME p[1] = 1 PROVE FALSE
    OBVIOUS
  <2>1. Count(1) = 0
    BY <1>1 DEF DiskOK, Count
  <2> QED BY <1>2, <2>1
<1>4. entries[p].lfh = Rec(p).lfh /\ entries[p].extra = Rec(p).extra
  BY AddedEntry
<1>5. getEntryEnd(p) = Rec(p).lfh + EntrySize(Rec(p))
  <2>1. /\ Rec(p).lfh \in Nat /\ DataLen(Rec(p)) \in Nat
        /\ HeaderLen(Rec(p), Rec(p).extra) \in Nat
    BY <1>1, EntryFacts
  <2> QED BY <1>4, <2>1 DEF getEntryEnd, getFileOffset, EntrySize
<1>6. Rec(p).lfh + EntrySize(Rec(p)) =< disk[p[1]].size
  BY <1>1 DEF DiskOK
<1> QED BY <1>2, <1>3, <1>5, <1>6

\* The header file only grows, by the header that was written.
LEMMA HeaderFileGrows ==
    ASSUME TypeOK, LastPartition, pc # "done", NEW p \in Pointers, Add(p)
    PROVE  /\ HeaderFileLen \in Nat /\ HeaderFileLen' \in Nat /\ HeaderFileLen =< HeaderFileLen'
           /\ Pads(p) => HeaderFileLen' = HeaderFileLen + NewLen(p)
<1>1. HeaderFileLen \in Nat /\ NewLen(p) \in Nat /\ header_file \in Seq(HeaderRecord)
  BY PaddedFacts DEF TypeOK
<1>2. CASE Pads(p)
  <2> DEFINE r == [entry |-> p, start |-> HeaderFileLen, stop |-> HeaderFileLen + NewLen(p)]
  <2>1. r \in HeaderRecord /\ header_file' = Append(header_file, r)
        /\ r.stop = HeaderFileLen + NewLen(p)
    BY <1>1, <1>2 DEF Pads, HeaderRecord
  <2> HIDE DEF r
  <2>2. /\ Len(header_file') = Len(header_file) + 1 /\ Len(header_file) \in Nat
        /\ header_file'[Len(header_file) + 1] = r
    BY <1>1, <2>1, AppendProperties, LenProperties
  <2>3. header_file' # <<>>
    <3>1. Len(header_file') # 0
      BY <2>2
    <3> QED BY <3>1
  <2>4. HeaderFileLen' = r.stop
    BY <2>2, <2>3 DEF HeaderFileLen
  <2> QED BY <1>1, <2>1, <2>4
<1>3. CASE ~Pads(p)
  <2>1. header_file' = header_file
    BY <1>3, AddCases DEF Merges, Appends
  <2> QED BY <1>1, <1>3, <2>1 DEF HeaderFileLen
<1> QED BY <1>2, <1>3

LEMMA AddBounds ==
    ASSUME BoundsInv, NEW p \in Pointers, Adds(p)
    PROVE  InBounds'
<1>1. TypeOK /\ LastPartition /\ PlacingInv /\ InBounds /\ pc # "done" /\ Add(p)
  BY DEF BoundsInv, PlacingInv, TypeInv, Adds
<1>2. /\ disk' = disk /\ last_file' = last_file /\ end_size' = end_size
  BY InputStep DEF Adds, directory
<1>3. p[1] \in 0..last_file /\ p[1] # 1 /\ getEntryEnd(p) =< disk[p[1]].size
  BY <1>1, FreshInArchive
<1>4. /\ HeaderFileLen \in Nat /\ HeaderFileLen' \in Nat /\ HeaderFileLen =< HeaderFileLen'
      /\ Pads(p) => HeaderFileLen' = HeaderFileLen + NewLen(p)
  BY <1>1, HeaderFileGrows
<1>5. /\ patch_partitions \in Seq(FilePartitionInfo)
      /\ patch_partitions' \in Seq(FilePartitionInfo)
  BY <1>1, AddTiles DEF TypeOK
<1>6. ASSUME NEW part \in FilePartitionInfo, Fits(part) PROVE Fits(part)'
  <2>1. part.stop_in_file \in Nat
    BY PartitionFields
  <2> QED BY <1>2, <1>4, <1>6, <2>1 DEF Fits
<1>7. \A k \in 1..Len(patch_partitions) :
          patch_partitions[k] \in FilePartitionInfo /\ Fits(patch_partitions[k])
  BY <1>1, <1>5, ElementOfSeq DEF InBounds, Fits
<1>8. ASSUME NEW part, part.file_index = p[1], part.stop_in_file = getEntryEnd(p)
      PROVE  Fits(part)'
  BY <1>2, <1>3, <1>8 DEF Fits
<1>9. SUFFICES ASSUME NEW k \in 1..Len(patch_partitions'), NEW part, part = patch_partitions'[k]
               PROVE  Fits(part)'
  <2>1. \A k \in 1..Len(patch_partitions') : \A part : part = patch_partitions'[k] => Fits(part)'
    BY <1>9
  <2> QED BY <2>1 DEF InBounds, Fits
<1>10. CASE Merges(p)
  <2> DEFINE last == Len(patch_partitions)
             size == getEntryEnd(p) - getEntryBegin(p)
  <2>1. /\ last > 0 /\ patch_partitions[last].file_index = p[1]
        /\ patch_partitions[last].stop_in_file = getEntryBegin(p)
        /\ patch_partitions' = [patch_partitions EXCEPT ![last] = Grown(@, size)]
    BY <1>10 DEF Merges
  <2>2. size \in Nat /\ getEntryBegin(p) + size = getEntryEnd(p) /\ last \in Nat
    BY <1>1, <1>5, WholeFacts, OffsetFacts, LenProperties
  <2> HIDE DEF size
  <2>3. Len(patch_partitions') = last
    BY <1>5, <2>1, <2>2, GrownLast
  <2>4. CASE k = last
    <3>1. k \in 1..Len(patch_partitions)
      BY <2>1, <2>2, <2>4
    <3>2. patch_partitions[last] \in FilePartitionInfo
      BY <1>7, <2>4, <3>1
    <3>3. part = Grown(patch_partitions[last], size)
      BY <1>5, <1>9, <2>1, <2>4, <3>1
    <3>4. part.file_index = p[1] /\ part.stop_in_file = getEntryEnd(p)
      BY <2>1, <2>2, <3>2, <3>3, GrownFields
    <3> QED BY <1>8, <3>4
  <2>5. CASE k # last
    <3>1. k \in 1..Len(patch_partitions) /\ part = patch_partitions[k]
      BY <1>5, <1>9, <2>1, <2>3, <2>5
    <3> QED BY <1>6, <1>7, <3>1
  <2> QED BY <2>4, <2>5
<1>11. CASE Appends(p)
  <2>1. /\ patch_partitions' = Append(patch_partitions, Whole(p)) /\ Whole(p) \in FilePartitionInfo
        /\ Whole(p).file_index = p[1] /\ Whole(p).stop_in_file = getEntryEnd(p)
    BY <1>1, <1>11, WholeFacts DEF Appends
  <2>2. /\ Len(patch_partitions') = Len(patch_partitions) + 1 /\ Len(patch_partitions) \in Nat
        /\ \A m \in 1..Len(patch_partitions) : patch_partitions'[m] = patch_partitions[m]
        /\ patch_partitions'[Len(patch_partitions) + 1] = Whole(p)
    BY <1>5, <2>1, AppendProperties, LenProperties
  <2>3. CASE k = Len(patch_partitions) + 1
    BY <1>8, <1>9, <2>1, <2>2, <2>3
  <2>4. CASE k # Len(patch_partitions) + 1
    <3>1. k \in 1..Len(patch_partitions) /\ part = patch_partitions[k]
      BY <1>9, <2>2, <2>4
    <3> QED BY <1>6, <1>7, <3>1
  <2> QED BY <2>3, <2>4
<1>12. CASE Pads(p)
  <2> DEFINE mid == Append(patch_partitions, Header(p))
  <2>1. /\ patch_partitions' = Append(mid, Body(p))
        /\ Header(p) \in FilePartitionInfo /\ Body(p) \in FilePartitionInfo
        /\ Body(p).file_index = p[1] /\ Body(p).stop_in_file = getEntryEnd(p)
        /\ Header(p).file_index = 1 /\ Header(p).stop_in_file = HeaderFileLen + NewLen(p)
    BY <1>1, <1>12, PaddedFacts DEF Pads
  <2>2. /\ mid \in Seq(FilePartitionInfo)
        /\ Len(mid) = Len(patch_partitions) + 1 /\ Len(patch_partitions) \in Nat
        /\ \A m \in 1..Len(patch_partitions) : mid[m] = patch_partitions[m]
        /\ mid[Len(patch_partitions) + 1] = Header(p)
    BY <1>5, <2>1, AppendProperties, LenProperties
  <2> HIDE DEF mid
  <2>3. /\ Len(patch_partitions') = Len(mid) + 1
        /\ \A m \in 1..Len(mid) : patch_partitions'[m] = mid[m]
        /\ patch_partitions'[Len(mid) + 1] = Body(p)
    BY <2>1, <2>2, AppendProperties
  <2>4. CASE k = Len(mid) + 1
    BY <1>8, <1>9, <2>1, <2>3, <2>4
  <2>5. CASE k = Len(mid)
    <3>1. part = Header(p)
      <4>1. k \in 1..Len(mid)
        BY <2>2, <2>5
      <4> QED BY <1>9, <2>2, <2>3, <2>5, <4>1
    <3>2. part.file_index = 1 /\ part.stop_in_file = HeaderFileLen'
      BY <1>4, <1>12, <2>1, <3>1
    <3> QED BY <1>4, <3>2 DEF Fits
  <2>6. CASE k # Len(mid) + 1 /\ k # Len(mid)
    <3>1. k \in 1..Len(patch_partitions) /\ k \in 1..Len(mid)
      BY <2>2, <2>3, <2>6
    <3>2. part = patch_partitions[k]
      BY <1>9, <2>2, <2>3, <3>1
    <3> QED BY <1>6, <1>7, <3>1, <3>2
  <2> QED BY <2>4, <2>5, <2>6
<1> QED BY <1>1, <1>10, <1>11, <1>12, AddCases

LEMMA FinishBounds ==
    ASSUME BoundsInv, Finish
    PROVE  InBounds'
<1>1. TypeOK /\ InBounds
  BY DEF BoundsInv, PlacingInv, TypeInv
<1>2. /\ disk' = disk /\ last_file' = last_file /\ header_file' = header_file
      /\ end_size' = end_size + 22 /\ end_size \in Nat
  BY <1>1 DEF Finish, input, kEOCDLen, TypeOK
<1> DEFINE new == Partition(pre_shadow_stop, end_of_file', last_file + 1, 0, end_size')
<1>3. patch_partitions' = Append(patch_partitions, new)
  BY DEF Finish
<1>4. /\ new \in FilePartitionInfo
      /\ new.file_index = last_file + 1 /\ new.stop_in_file = end_size'
  <2>1. /\ last_file + 1 \in Nat /\ pre_shadow_stop \in Nat
        /\ end_size' \in Nat /\ end_of_file' \in Nat
    BY <1>1, <1>2 DEF TypeOK, Finish
  <2> QED BY <2>1 DEF Partition, FilePartitionInfo
<1> HIDE DEF new
<1>5. patch_partitions \in Seq(FilePartitionInfo)
  BY <1>1 DEF TypeOK
<1>6. /\ Len(patch_partitions') = Len(patch_partitions) + 1 /\ Len(patch_partitions) \in Nat
      /\ \A m \in 1..Len(patch_partitions) : patch_partitions'[m] = patch_partitions[m]
      /\ patch_partitions'[Len(patch_partitions) + 1] = new
  BY <1>3, <1>4, <1>5, AppendProperties, LenProperties
<1>7. HeaderFileLen' = HeaderFileLen
  BY <1>2 DEF HeaderFileLen
<1>8. SUFFICES ASSUME NEW k \in 1..Len(patch_partitions'), NEW part, part = patch_partitions'[k]
               PROVE  Fits(part)'
  <2>1. \A k \in 1..Len(patch_partitions') : \A part : part = patch_partitions'[k] => Fits(part)'
    BY <1>8
  <2> QED BY <2>1 DEF InBounds, Fits
<1>9. CASE k = Len(patch_partitions) + 1
  <2>1. part.file_index = last_file' + 1 /\ part.stop_in_file = end_size'
    BY <1>2, <1>4, <1>6, <1>8, <1>9
  <2>2. end_size' \in Nat
    BY <1>2
  <2> QED BY <2>1, <2>2 DEF Fits
<1>10. CASE k # Len(patch_partitions) + 1
  <2>1. k \in 1..Len(patch_partitions) /\ part = patch_partitions[k]
    BY <1>6, <1>8, <1>10
  <2>2. Fits(part) /\ part \in FilePartitionInfo
    BY <1>1, <1>5, <2>1, ElementOfSeq DEF InBounds, Fits
  <2>3. part.stop_in_file \in Nat
    BY <2>2, PartitionFields
  <2> QED BY <1>2, <1>7, <2>2, <2>3 DEF Fits
<1> QED BY <1>9, <1>10

\* Only WriteCDE and Finish change end_size, and it never shrinks.
LEMMA EndSizeGrows ==
    ASSUME TypeOK, [Next]_vars
    PROVE  end_size \in Nat /\ end_size' \in Nat /\ end_size =< end_size'
<1>1. end_size \in Nat
  BY DEF TypeOK
<1>2. CASE WriteCDE
  <2>1. all_entries[j] \in Pointers
    <3>1. all_entries \in Seq(Pointers) /\ j \in 1..Len(all_entries)
      BY <1>2, LenProperties DEF WriteCDE, TypeOK
    <3> QED BY <3>1, ElementOfSeq
  <2>2. Rec(all_entries[j]).cde \in Nat
    BY <2>1, EntryFacts
  <2>3. end_size' = end_size + Rec(all_entries[j]).cde
    BY <1>2 DEF WriteCDE
  <2> QED BY <1>1, <2>2, <2>3
<1>3. CASE Finish
  BY <1>1, <1>3 DEF Finish, kEOCDLen
<1>4. CASE end_size' = end_size
  BY <1>1, <1>4
<1>5. WriteCDE \/ Finish \/ end_size' = end_size
  BY DEF Next, vars, directory, NoPatches, ParsePatch, ParseFails, DupPatchFile, SkipPatchFile,
         RecordPatchFile, NextPatch, ParseApk, SkipApkEntry, PlaceApkEntry, ApkPlaced,
         SkipUsedEntry, AppendPatchEntry, NextPatchAppended, AllAppended, Terminated,
         Fail, HeaderWriteFails
<1> QED BY <1>2, <1>3, <1>4, <1>5

LEMMA NextBounds == BoundsInv /\ [Next]_vars => BoundsInv'
<1> SUFFICES ASSUME BoundsInv, [Next]_vars PROVE BoundsInv'
  OBVIOUS
<1>1. PlacingInv' /\ PlacingInv /\ TypeOK /\ InBounds
  BY NextPlacing DEF BoundsInv, PlacingInv, TypeInv
<1>2. ASSUME NEW p \in Pointers, Adds(p) PROVE InBounds'
  BY <1>2, AddBounds
<1>3. Finish => InBounds'
  BY FinishBounds
<1>4. LeavesLayout => InBounds'
  <2> SUFFICES ASSUME LeavesLayout PROVE InBounds'
    OBVIOUS
  <2>1. /\ patch_partitions' = patch_partitions /\ header_file' = header_file
        /\ disk' = disk /\ last_file' = last_file
    BY DEF LeavesLayout, layout, input
  <2>2. HeaderFileLen' = HeaderFileLen
    BY <2>1 DEF HeaderFileLen
  <2>3. end_size \in Nat /\ end_size' \in Nat /\ end_size =< end_size'
    BY <1>1, EndSizeGrows
  <2>4. ASSUME NEW k \in 1..Len(patch_partitions)
        PROVE  patch_partitions[k].stop_in_file \in Nat
    BY <1>1, ElementOfSeq, PartitionFields DEF TypeOK
  <2> QED BY <1>1, <2>1, <2>2, <2>3, <2>4 DEF InBounds
<1> QED BY <1>1, <1>2, <1>3, <1>4, StepKinds DEF BoundsInv

\* For every package whose entries lie inside their archives: each partition
\* lies inside the file it names, so no read through the table falls short.
THEOREM PartitionsInBounds == Spec => []InBounds
<1>1. Init => BoundsInv
  <2> SUFFICES ASSUME Init PROVE BoundsInv
    OBVIOUS
  <2>1. patch_partitions = <<>> /\ Len(patch_partitions) = 0
    BY DEF Init
  <2> QED BY <2>1, InitPlacing DEF BoundsInv, InBounds
<1>2. BoundsInv => InBounds
  BY DEF BoundsInv
<1> QED BY <1>1, <1>2, NextBounds, PTL DEF Spec

-----------------------------------------------------------------------------
(***************************************************************************)
(* What the three loops have done so far.                                  *)
(***************************************************************************)
\* Entry p comes before entry J of file I.
Before(p, I, J) == p[1] < I \/ (p[1] = I /\ p[2] < J)

\* The patch files that the loop filling filename_2_entry has looked at; while
\* it runs, it is about to parse file i or at entry j of it.
Scanned ==
    {p \in PatchFiles : /\ pc = "parse_patch" => p[1] < i
                        /\ pc = "scan" => Before(p, i, j)}

\* filename_2_entry has those of them that are not removed, and nothing else.
LookupExact ==
    pc \notin {"failed", "exited"} =>
        /\ \A p \in Scanned : Rec(p).name \notin removed_files =>
              Rec(p).name \in DOMAIN filename_2_entry /\ filename_2_entry[Rec(p).name] = p
        /\ \A n \in DOMAIN filename_2_entry :
              n \notin removed_files /\ filename_2_entry[n] \in Scanned

\* The entries of the apk the second loop places something for, and what.
Kept == {k \in 1..Count(0) : ~Rec(<<0, k>>).dir /\ Rec(<<0, k>>).name \notin removed_files}
ChosenFor(k) ==
    LET n == Rec(<<0, k>>).name
    IN  IF n \in DOMAIN filename_2_entry THEN filename_2_entry[n] ELSE <<0, k>>
ChosenBefore(p, J) == \E k \in Kept : k < J /\ p = ChosenFor(k)

\* mUserData2 is set of the entries in all_entries_, each of which is there
\* once: those the apk loop chose and then the other files of the patches.
UsedExact ==
    /\ \A p \in Pointers : entries[p].used => \E k \in 1..Len(all_entries) : all_entries[k] = p
    /\ \A k, m \in 1..Len(all_entries) : all_entries[k] = all_entries[m] => k = m
    /\ pc = "place" => \A p \in Pointers : entries[p].used <=> ChosenBefore(p, j)
    /\ pc = "append" =>
          /\ i >= 1
          /\ \A p \in Pointers :
                entries[p].used <=> \/ ChosenBefore(p, Count(0) + 1)
                                    \/ p \in PatchFiles /\ Before(p, i, j)
    /\ pc \in {"directory", "done"} =>
          \A p \in Pointers :
              entries[p].used <=> ChosenBefore(p, Count(0) + 1) \/ p \in PatchFiles

\* The records written so far are those of the first entries placed.
RecordsInOrder ==
    /\ pc \notin {"directory", "done"} => central_dir = <<>>
    /\ pc = "directory" => j = Len(central_dir) + 1 /\ Len(central_dir) =< Len(all_entries)
    /\ pc = "done" => Len(central_dir) = Len(all_entries)
    /\ \A k \in 1..Len(central_dir) :
          /\ central_dir[k].entry = all_entries[k]
          /\ central_dir[k].lfh = entries[all_entries[k]].lfh

DirectoryInv == PlacingInv /\ LookupExact /\ UsedExact /\ RecordsInOrder

\* What the directory lists in any case: all files of the patches, the removed
\* ones too, and the files of the apk that are neither replaced nor removed.
Held ==
    PatchFiles \cup
    {p \in FilesOf(0) : Rec(p).name \notin removed_files \cup NamesOf(PatchFiles)}
ListsHeld == pc = "done" => Listed = Held

-----------------------------------------------------------------------------
(***************************************************************************)
(* Pointers of patch files, and what a step leaves of these definitions.   *)
(***************************************************************************)
LEMMA PatchFilesFacts ==
    ASSUME TypeOK
    PROVE  \A p : p \in PatchFiles <=> p \in Pointers /\ p[1] >= 2 /\ ~Rec(p).dir
<1>1. last_file \in Nat /\ \A p \in Pointers : p[1] \in 0..last_file
  BY PointerFacts DEF TypeOK
<1>2. ASSUME NEW p, p \in PatchFiles PROVE p \in Pointers /\ p[1] >= 2 /\ ~Rec(p).dir
  BY <1>1, <1>2 DEF PatchFiles, FilesOf
<1>3. ASSUME NEW p, p \in Pointers, p[1] >= 2, ~Rec(p).dir PROVE p \in PatchFiles
  BY <1>1, <1>3 DEF PatchFiles, FilesOf
<1> QED BY <1>2, <1>3

\* The order of entries: one entry further, and from one file to the next.
LEMMA BeforeFacts ==
    ASSUME TypeOK, NEW p \in Pointers, NEW I \in Nat, NEW J \in Nat
    PROVE  /\ Before(p, I, J + 1) <=> Before(p, I, J) \/ p = <<I, J>>
           /\ Before(p, I, 1) <=> p[1] < I
           /\ I =< last_file /\ J > Count(I) => (Before(p, I, J) <=> p[1] < I + 1)
           /\ I > last_file => p[1] < I /\ Before(p, I, J)
<1>1. /\ p[1] \in 0..last_file /\ p[2] \in 1..Count(p[1]) /\ p = <<p[1], p[2]>>
      /\ last_file \in Nat /\ Count(p[1]) \in Nat
  BY PointerFacts DEF TypeOK
<1>2. p = <<I, J>> <=> p[1] = I /\ p[2] = J
  BY <1>1
<1>3. Before(p, I, J + 1) <=> Before(p, I, J) \/ p = <<I, J>>
  BY <1>1, <1>2 DEF Before
<1>4. Before(p, I, 1) <=> p[1] < I
  BY <1>1 DEF Before
<1>5. ASSUME I =< last_file, J > Count(I) PROVE Before(p, I, J) <=> p[1] < I + 1
  <2>1. CASE p[1] = I
    BY <1>1, <1>5, <2>1 DEF Before
  <2>2. CASE p[1] # I
    BY <1>1, <2>2 DEF Before
  <2> QED BY <2>1, <2>2
<1>6. I > last_file => p[1] < I /\ Before(p, I, J)
  BY <1>1 DEF Before
<1> QED BY <1>3, <1>4, <1>5, <1>6

LEMMA DirectoryFrame ==
    ASSUME UNCHANGED input
    PROVE  /\ PatchFiles' = PatchFiles /\ Kept' = Kept
           /\ removed_files' = removed_files /\ Pointers' = Pointers
           /\ last_file' = last_file
           /\ \A f : Count(f)' = Count(f)
           /\ \A p : Rec(p)' = Rec(p)
<1>1. /\ last_file' = last_file /\ removed_files' = removed_files /\ Pointers' = Pointers
      /\ \A f : Count(f)' = Count(f)
      /\ \A p : Rec(p)' = Rec(p)
  BY InputStep
<1>2. \A f : FilesOf(f)' = FilesOf(f)
  BY <1>1 DEF FilesOf
<1>3. PatchFiles' = PatchFiles
  BY <1>1, <1>2 DEF PatchFiles
<1>4. Kept' = Kept
  BY <1>1 DEF Kept
<1> QED BY <1>1, <1>3, <1>4

LEMMA ChosenFrame ==
    ASSUME UNCHANGED input, filename_2_entry' = filename_2_entry
    PROVE  \A p, J : ChosenBefore(p, J)' <=> ChosenBefore(p, J)
<1>1. Kept' = Kept /\ \A p : Rec(p)' = Rec(p)
  BY DirectoryFrame
<1>2. \A k : ChosenFor(k)' = ChosenFor(k)
  BY <1>1 DEF ChosenFor
<1> QED BY <1>1, <1>2 DEF ChosenBefore

\* init never changes what it was started on.
LEMMA InputKept == ASSUME [Next]_vars PROVE UNCHANGED input
BY DEF Next, vars, NoPatches, ParsePatch, ParseFails, DupPatchFile, SkipPatchFile,
       RecordPatchFile, NextPatch, ParseApk, SkipApkEntry, PlaceApkEntry, ApkPlaced,
       SkipUsedEntry, AppendPatchEntry, NextPatchAppended, AllAppended, WriteCDE,
       Finish, Terminated, Fail, HeaderWriteFails

-----------------------------------------------------------------------------
(***************************************************************************)
(* filename_2_entry has the files of the patches.                          *)
(***************************************************************************)
\* A step that records nothing and looks at no file that is to be recorded.
LEMMA LookupSame ==
    ASSUME TypeOK, PlacedOnce, LookupExact, UNCHANGED <<input, filename_2_entry>>,
           pc \notin {"failed", "exited"},
           \A p \in PatchFiles : Rec(p).name \notin removed_files =>
               (p \in Scanned <=> p \in Scanned')
    PROVE  LookupExact'
<1>1. /\ PatchFiles' = PatchFiles /\ removed_files' = removed_files
      /\ filename_2_entry' = filename_2_entry
      /\ \A p : Rec(p)' = Rec(p)
  BY DirectoryFrame DEF input
<1>2. Scanned \subseteq PatchFiles /\ Scanned' \subseteq PatchFiles
  BY <1>1 DEF Scanned
<1>3. ASSUME NEW p \in Scanned', Rec(p).name \notin removed_files
      PROVE  Rec(p).name \in DOMAIN filename_2_entry /\ filename_2_entry[Rec(p).name] = p
  BY <1>2, <1>3 DEF LookupExact
<1>4. ASSUME NEW n \in DOMAIN filename_2_entry
      PROVE  n \notin removed_files /\ filename_2_entry[n] \in Scanned
  BY DEF LookupExact
<1>5. ASSUME NEW n \in DOMAIN filename_2_entry
      PROVE  filename_2_entry[n] \in Scanned'
  <2>1. Rec(filename_2_entry[n]).name = n
    BY DEF PlacedOnce
  <2> QED BY <1>2, <1>4, <2>1
<1> QED BY <1>1, <1>3, <1>4, <1>5 DEF LookupExact

\* The step that records entry j of patch file i.
LEMMA RecordLookup ==
    ASSUME TypeOK, LookupExact, RecordPatchFile
    PROVE  LookupExact'
<1> DEFINE new == <<i, j>>
           n == Rec(new).name
<1>1. /\ PatchFiles' = PatchFiles /\ removed_files' = removed_files
      /\ \A p : Rec(p)' = Rec(p)
  BY DirectoryFrame DEF RecordPatchFile
<1>2. /\ pc = "scan" /\ pc' = "scan" /\ i' = i /\ j' = j + 1
      /\ n \notin DOMAIN filename_2_entry /\ n \notin removed_files
      /\ DOMAIN filename_2_entry' = DOMAIN filename_2_entry \cup {n}
      /\ filename_2_entry'[n] = new
      /\ \A m \in DOMAIN filename_2_entry : filename_2_entry'[m] = filename_2_entry[m]
  BY DEF RecordPatchFile
<1>3. new \in PatchFiles
  <2>1. new \in Pointers /\ new[1] >= 2
    BY CursorTyped DEF RecordPatchFile, TypeOK
  <2> QED BY <2>1, PatchFilesFacts DEF RecordPatchFile
<1>4. Scanned' = Scanned \cup {new}
  <2>1. \A p \in PatchFiles : Before(p, i, j + 1) <=> Before(p, i, j) \/ p = new
    BY PatchFilesFacts, BeforeFacts DEF TypeOK
  <2>2. \A p : p \in Scanned <=> p \in PatchFiles /\ Before(p, i, j)
    BY <1>2 DEF Scanned
  <2>3. \A p : p \in Scanned' <=> p \in PatchFiles /\ Before(p, i, j + 1)
    BY <1>1, <1>2 DEF Scanned, Before
  <2> QED BY <1>3, <2>1, <2>2, <2>3
<1>5. /\ \A p \in Scanned : Rec(p).name \notin removed_files =>
            Rec(p).name \in DOMAIN filename_2_entry /\ filename_2_entry[Rec(p).name] = p
      /\ \A m \in DOMAIN filename_2_entry :
            m \notin removed_files /\ filename_2_entry[m] \in Scanned
  BY <1>2 DEF LookupExact
<1> HIDE DEF new
<1>6. ASSUME NEW p \in Scanned', Rec(p).name \notin removed_files
      PROVE  Rec(p).name \in DOMAIN filename_2_entry' /\ filename_2_entry'[Rec(p).name] = p
  BY <1>2, <1>4, <1>5, <1>6
<1>7. ASSUME NEW m \in DOMAIN filename_2_entry'
      PROVE  m \notin removed_files /\ filename_2_entry'[m] \in Scanned'
  BY <1>2, <1>4, <1>5
<1> QED BY <1>1, <1>6, <1>7 DEF LookupExact

LEMMA NextLookup ==
    ASSUME PlacingInv, LookupExact, [Next]_vars
    PROVE  LookupExact'
<1>1. TypeOK /\ PlacedOnce /\ i \in Nat /\ j \in Nat /\ last_file \in Nat
  BY DEF PlacingInv, TypeInv, TypeOK
<1>2. UNCHANGED input
  BY InputKept
<1>3. PatchFiles' = PatchFiles /\ \A p \in PatchFiles : p \in Pointers /\ ~Rec(p).dir
  BY <1>1, <1>2, DirectoryFrame, PatchFilesFacts
<1>4. CASE pc' \in {"failed", "exited"}
  BY <1>4 DEF LookupExact
<1>5. CASE /\ pc \in {"place", "append", "directory", "done"}
           /\ pc' \in {"place", "append", "directory", "done"}
           /\ filename_2_entry' = filename_2_entry
  <2>1. Scanned = PatchFiles /\ Scanned' = PatchFiles
    BY <1>3, <1>5 DEF Scanned
  <2> QED BY <1>1, <1>2, <1>5, <2>1, LookupSame
<1>6. CASE UNCHANGED <<pc, i, j, input, filename_2_entry>>
  <2>1. Scanned' = Scanned
    BY <1>3, <1>6 DEF Scanned, Before
  <2>2. CASE pc \in {"failed", "exited"}
    BY <1>6, <2>2 DEF LookupExact
  <2> QED BY <1>1, <1>6, <2>1, <2>2, LookupSame
<1>7. CASE ParsePatch
  <2>1. ASSUME NEW p \in PatchFiles PROVE p \in Scanned <=> p \in Scanned'
    <3>1. Before(p, i, 1) <=> p[1] < i
      BY <1>1, <1>3, BeforeFacts
    <3>2. p \in Scanned <=> p[1] < i
      BY <1>7 DEF ParsePatch, Scanned
    <3>3. p \in Scanned' <=> Before(p, i, 1)
      BY <1>3, <1>7 DEF ParsePatch, Scanned, Before
    <3> QED BY <3>1, <3>2, <3>3
  <2> QED BY <1>1, <1>2, <1>7, <2>1, LookupSame DEF ParsePatch
<1>8. CASE SkipPatchFile
  <2>1. ASSUME NEW p \in PatchFiles, Rec(p).name \notin removed_files
        PROVE  p \in Scanned <=> p \in Scanned'
    <3>1. p # <<i, j>>
      BY <1>3, <1>8, <2>1 DEF SkipPatchFile
    <3>2. Before(p, i, j + 1) <=> Before(p, i, j)
      BY <1>1, <1>3, <3>1, BeforeFacts
    <3>3. p \in Scanned <=> Before(p, i, j)
      BY <1>8 DEF SkipPatchFile, Scanned
    <3>4. p \in Scanned' <=> Before(p, i, j + 1)
      BY <1>3, <1>8 DEF SkipPatchFile, Scanned, Before
    <3> QED BY <3>2, <3>3, <3>4
  <2> QED BY <1>1, <1>2, <1>8, <2>1, LookupSame DEF SkipPatchFile
<1>9. CASE RecordPatchFile
  BY <1>1, <1>9, RecordLookup
<1>10. CASE NextPatch
  <2>1. ASSUME NEW p \in PatchFiles PROVE p \in Scanned <=> p \in Scanned'
    <3>1. i =< last_file /\ j > Count(i)
      BY <1>1, <1>10 DEF NextPatch, TypeOK
    <3>2. Before(p, i, j) <=> p[1] < i + 1
      BY <1>1, <1>3, <3>1, BeforeFacts
    <3>3. p \in Scanned <=> Before(p, i, j)
      BY <1>10 DEF NextPatch, Scanned
    <3>4. p \in Scanned' <=> p[1] < i + 1
      BY <1>3, <1>10 DEF NextPatch, Scanned
    <3> QED BY <3>2, <3>3, <3>4
  <2> QED BY <1>1, <1>2, <1>10, <2>1, LookupSame DEF NextPatch
<1>11. CASE ParseApk
  <2>1. ASSUME NEW p \in PatchFiles PROVE p \in Scanned <=> p \in Scanned'
    <3>1. p[1] < i
      BY <1>1, <1>3, <1>11, BeforeFacts DEF ParseApk
    <3> QED BY <1>3, <1>11, <3>1 DEF ParseApk, Scanned
  <2> QED BY <1>1, <1>2, <1>11, <2>1, LookupSame DEF ParseApk
<1>12. CASE NoPatches \/ ParseFails \/ DupPatchFile
  BY <1>4, <1>12 DEF NoPatches, ParseFails, DupPatchFile, Fail
<1>13. CASE SkipApkEntry \/ PlaceApkEntry \/ ApkPlaced
  BY <1>4, <1>5, <1>13 DEF SkipApkEntry, PlaceApkEntry, ApkPlaced, HeaderWriteFails
<1>14. CASE SkipUsedEntry \/ AppendPatchEntry \/ NextPatchAppended \/ AllAppended
  BY <1>4, <1>5, <1>14 DEF SkipUsedEntry, AppendPatchEntry, NextPatchAppended,
     AllAppended, HeaderWriteFails
<1>15. CASE WriteCDE \/ Finish
  BY <1>5, <1>15 DEF WriteCDE, Finish
<1>16. CASE Terminated \/ UNCHANGED vars
  BY <1>6, <1>16 DEF Terminated, vars
<1> QED BY <1>7, <1>8, <1>9, <1>10, <1>11, <1>12, <1>13, <1>14, <1>15, <1>16 DEF Next

-----------------------------------------------------------------------------
(***************************************************************************)
(* Each entry is placed once, and the right ones are.                      *)
(***************************************************************************)
\* How far the loops are with entry p: what UsedExact says of mUserData2.
DueNow(p) ==
    /\ pc = "place" => ChosenBefore(p, j)
    /\ pc = "append" => ChosenBefore(p, Count(0) + 1) \/ (p \in PatchFiles /\ Before(p, i, j))
    /\ pc \in {"directory", "done"} => ChosenBefore(p, Count(0) + 1) \/ p \in PatchFiles
Laying == pc \in {"place", "append", "directory", "done"}

\* UsedExact, with one conjunct for what the loops have done.
UsedParts ==
    /\ \A q \in Pointers : entries[q].used => \E k \in 1..Len(all_entries) : all_entries[k] = q
    /\ \A k, m \in 1..Len(all_entries) : all_entries[k] = all_entries[m] => k = m
    /\ pc = "append" => i >= 1
    /\ Laying => \A q \in Pointers : entries[q].used <=> DueNow(q)

LEMMA UsedIsDue == UsedExact <=> UsedParts
<1>1. pc = "place" => \A p : DueNow(p) <=> ChosenBefore(p, j)
  BY DEF DueNow
<1>2. pc = "append" => \A p : DueNow(p) <=>
          ChosenBefore(p, Count(0) + 1) \/ (p \in PatchFiles /\ Before(p, i, j))
  BY DEF DueNow
<1>3. pc \in {"directory", "done"} => \A p : DueNow(p) <=>
          ChosenBefore(p, Count(0) + 1) \/ p \in PatchFiles
  BY DEF DueNow
<1> QED BY <1>1, <1>2, <1>3 DEF UsedExact, UsedParts, Laying

\* The loop over the apk: one entry further, its beginning and its end.
LEMMA ChosenFacts ==
    ASSUME TypeOK, NEW p
    PROVE  /\ ChosenBefore(p, j + 1) <=>
                 ChosenBefore(p, j) \/ (j \in Kept /\ p = ChosenFor(j))
           /\ ~ChosenBefore(p, 1)
           /\ j > Count(0) => (ChosenBefore(p, j) <=> ChosenBefore(p, Count(0) + 1))
<1>1. j \in Nat /\ Count(0) \in Nat
  <2>1. j \in Nat
    BY DEF TypeOK
  <2>2. 0 \in 0..last_file
    BY DEF TypeOK
  <2>3. \A f \in 0..last_file : Count(f) \in Nat
    BY PointerFacts
  <2> QED BY <2>1, <2>2, <2>3
<1>2. Kept \subseteq 1..Count(0)
  BY DEF Kept
<1>3. \A k \in Kept : k \in Nat /\ k >= 1 /\ k =< Count(0)
  BY <1>1, <1>2
<1> QED BY <1>1, <1>3 DEF ChosenBefore

\* A step that places nothing.
LEMMA UsedSame ==
    ASSUME TypeOK, UsedExact, UNCHANGED <<input, layout>>,
           pc' = "append" => i' >= 1,
           Laying' => Laying /\ \A p \in Pointers : DueNow(p) <=> DueNow(p)'
    PROVE  UsedExact'
<1>1. entries' = entries /\ all_entries' = all_entries /\ Pointers' = Pointers
  BY DirectoryFrame DEF input, layout
<1>2. /\ \A p \in Pointers : entries[p].used => \E k \in 1..Len(all_entries) : all_entries[k] = p
      /\ \A k, m \in 1..Len(all_entries) : all_entries[k] = all_entries[m] => k = m
      /\ Laying => \A p \in Pointers : entries[p].used <=> DueNow(p)
  BY UsedIsDue DEF UsedParts
<1>3. Laying' => \A p \in Pointers' : entries'[p].used <=> DueNow(p)'
  BY <1>1, <1>2
<1>4. (/\ \A p \in Pointers : entries[p].used => \E k \in 1..Len(all_entries) : all_entries[k] = p
       /\ \A k, m \in 1..Len(all_entries) : all_entries[k] = all_entries[m] => k = m)'
  BY <1>1, <1>2
<1>5. UsedExact' <=> UsedParts'
  BY UsedIsDue, PTL
<1> QED BY <1>3, <1>4, <1>5 DEF UsedParts

\* A step that places p, the next entry of its loop.
LEMMA UsedAdds ==
    ASSUME PlacingInv, UsedExact, NEW p \in Pointers, Adds(p),
           \A q \in Pointers : DueNow(q)' <=> DueNow(q) \/ q = p
    PROVE  UsedExact'
<1>1. /\ entries \in [Pointers -> ZipEntry] /\ all_entries \in Seq(Pointers)
      /\ ~entries[p].used
  BY DEF PlacingInv, TypeInv, TypeOK, Adds
<1>2. /\ entries' = [entries EXCEPT ![p] = PlacedEntry(p)]
      /\ all_entries' = Append(all_entries, p)
      /\ pc' = pc /\ i' = i /\ pc \in {"place", "append"}
      /\ UNCHANGED input
  BY DEF Adds, Add
<1>3. Pointers' = Pointers
  BY <1>2, DirectoryFrame
<1>4. entries'[p].used /\ \A q \in Pointers : q # p => entries'[q] = entries[q]
  BY <1>1, <1>2 DEF PlacedEntry
<1>5. /\ Len(all_entries') = Len(all_entries) + 1 /\ Len(all_entries) \in Nat
      /\ \A m \in 1..Len(all_entries) : all_entries'[m] = all_entries[m]
      /\ all_entries'[Len(all_entries) + 1] = p
  BY <1>1, <1>2, AppendProperties, LenProperties
<1>6. /\ \A q \in Pointers : entries[q].used => \E k \in 1..Len(all_entries) : all_entries[k] = q
      /\ \A k, m \in 1..Len(all_entries) : all_entries[k] = all_entries[m] => k = m
      /\ pc = "append" => i >= 1
      /\ \A q \in Pointers : entries[q].used <=> DueNow(q)
  BY <1>2, UsedIsDue DEF UsedParts, Laying
<1>7. \A k \in 1..Len(all_entries) : all_entries[k] # p
  BY <1>1 DEF PlacingInv, PlacedOnce
<1>8. ASSUME NEW q \in Pointers, entries'[q].used
      PROVE  \E k \in 1..Len(all_entries') : all_entries'[k] = q
  <2>1. CASE q = p
    BY <1>5, <2>1
  <2>2. CASE q # p
    <3>1. PICK k \in 1..Len(all_entries) : all_entries[k] = q
      BY <1>4, <1>6, <1>8, <2>2
    <3> QED BY <1>5, <3>1
  <2> QED BY <2>1, <2>2
<1>9. \A k, m \in 1..Len(all_entries') : all_entries'[k] = all_entries'[m] => k = m
  BY <1>5, <1>6, <1>7
<1>10. \A q \in Pointers : entries'[q].used <=> DueNow(q)'
  BY <1>4, <1>6
<1>11. UsedExact' <=> UsedParts'
  BY UsedIsDue, PTL
<1> QED BY <1>2, <1>3, <1>6, <1>8, <1>9, <1>10, <1>11 DEF UsedParts

LEMMA NextUsed ==
    ASSUME PlacingInv, UsedExact, [Next]_vars
    PROVE  UsedExact'
<1>1. TypeOK /\ PlacedOnce /\ DiskOK /\ i \in Nat /\ j \in Nat \ {0} /\ last_file \in Nat
  BY DEF PlacingInv, TypeInv, TypeOK
<1>2. UNCHANGED input
  BY InputKept
<1>3. /\ PatchFiles' = PatchFiles /\ Count(0)' = Count(0)
      /\ \A p : p \in PatchFiles <=> p \in Pointers /\ p[1] >= 2 /\ ~Rec(p).dir
  BY <1>1, <1>2, DirectoryFrame, PatchFilesFacts
<1>4. /\ Laying => \A p \in Pointers : entries[p].used <=> DueNow(p)
      /\ pc = "append" => i >= 1
  BY UsedIsDue DEF UsedParts
<1>5. ASSUME filename_2_entry' = filename_2_entry, NEW p
      PROVE  DueNow(p)' <=>
               /\ pc' = "place" => ChosenBefore(p, j')
               /\ pc' = "append" =>
                     ChosenBefore(p, Count(0) + 1) \/ (p \in PatchFiles /\ Before(p, i', j'))
               /\ pc' \in {"directory", "done"} =>
                     ChosenBefore(p, Count(0) + 1) \/ p \in PatchFiles
  <2>1. Kept' = Kept /\ \A k : ChosenFor(k)' = ChosenFor(k)
    BY <1>2, <1>5, DirectoryFrame DEF ChosenFor
  <2> QED BY <1>3, <2>1 DEF DueNow, ChosenBefore, Before
<1>6. CASE pc' \notin {"place", "append", "directory", "done"} /\ UNCHANGED layout
  BY <1>1, <1>2, <1>6, UsedSame DEF Laying
<1>7. CASE UNCHANGED <<i, filename_2_entry, layout>> /\ pc' = pc /\ (pc = "done" \/ j' = j)
  <2>1. \A p : DueNow(p) <=> DueNow(p)'
    BY <1>5, <1>7 DEF DueNow
  <2> QED BY <1>1, <1>2, <1>4, <1>7, <2>1, UsedSame DEF Laying
<1>8. CASE ParseApk
  <2>1. /\ pc' = "place" /\ j' = 1 /\ filename_2_entry' = filename_2_entry
        /\ UNCHANGED layout /\ pc = "parse_patch"
    BY <1>8 DEF ParseApk
  <2>2. \A p : ~DueNow(p)'
    BY <1>1, <1>5, <2>1, ChosenFacts
  <2>3. \A p \in Pointers : ~entries[p].used
    BY <1>1, <2>1 DEF PlacedOnce
  <2>4. entries' = entries /\ all_entries' = all_entries /\ Pointers' = Pointers
    BY <1>2, <2>1, DirectoryFrame DEF layout
  <2>5. \A k, m \in 1..Len(all_entries) : all_entries[k] = all_entries[m] => k = m
    BY UsedIsDue DEF UsedParts
  <2>6. UsedExact' <=> UsedParts'
    BY UsedIsDue, PTL
  <2> QED BY <2>1, <2>2, <2>3, <2>4, <2>5, <2>6 DEF UsedParts
<1>9. CASE SkipApkEntry
  <2>1. /\ pc = "place" /\ pc' = pc /\ j' = j + 1 /\ UNCHANGED <<filename_2_entry, layout>>
        /\ j \notin Kept
    BY <1>9 DEF SkipApkEntry, Kept
  <2>2. \A p : DueNow(p) <=> DueNow(p)'
    BY <1>1, <1>5, <2>1, ChosenFacts DEF DueNow
  <2> QED BY <1>1, <1>2, <2>1, <2>2, UsedSame DEF Laying
<1>10. CASE PlaceApkEntry
  <2>1. j \in Kept
    <3>1. j \in 1..Count(0)
      BY <1>1, <1>10, PointerFacts DEF PlaceApkEntry
    <3> QED BY <1>10, <3>1 DEF PlaceApkEntry, Kept
  <2>2. /\ ApkEntry \in Pointers /\ ~entries[ApkEntry].used
        /\ Rec(ApkEntry).name = Rec(<<0, j>>).name
    BY <1>10, ApkEntryFresh DEF PlaceApkEntry
  <2>3. ApkEntry = ChosenFor(j)
    BY DEF ApkEntry, ChosenFor
  <2>4. CASE HeaderWriteFails(ApkEntry)
    BY <1>6, <2>4 DEF HeaderWriteFails
  <2>5. CASE ~HeaderWriteFails(ApkEntry)
    <3>1. Adds(ApkEntry)
      BY <1>10, <2>2, <2>5 DEF PlaceApkEntry, Adds
    <3>2. pc = "place" /\ pc' = pc /\ j' = j + 1 /\ filename_2_entry' = filename_2_entry
      BY <1>10, <3>1 DEF PlaceApkEntry, Adds
    <3>3. \A q : DueNow(q)' <=> DueNow(q) \/ q = ApkEntry
      BY <1>1, <1>5, <2>1, <2>3, <3>2, ChosenFacts DEF DueNow
    <3> QED BY <2>2, <3>1, <3>3, UsedAdds
  <2> QED BY <2>4, <2>5
<1>11. CASE ApkPlaced
  <2>1. /\ pc = "place" /\ pc' = "append" /\ i' = 1 /\ j' = 1 /\ j > Count(0)
        /\ UNCHANGED <<filename_2_entry, layout>>
    BY <1>11 DEF ApkPlaced
  <2>2. ASSUME NEW p \in Pointers PROVE DueNow(p) <=> DueNow(p)'
    <3>1. DueNow(p) <=> ChosenBefore(p, Count(0) + 1)
      BY <1>1, <2>1, ChosenFacts DEF DueNow
    <3>2. ~(p \in PatchFiles /\ Before(p, 1, 1))
      BY <1>1, <1>3, BeforeFacts, PointerFacts
    <3> QED BY <1>5, <2>1, <3>1, <3>2
  <2> QED BY <1>1, <1>2, <2>1, <2>2, UsedSame DEF Laying
<1>12. CASE SkipUsedEntry
  <2>1. /\ pc = "append" /\ pc' = pc /\ i' = i /\ j' = j + 1
        /\ UNCHANGED <<filename_2_entry, layout>>
    BY <1>12 DEF SkipUsedEntry
  <2>2. ASSUME NEW p \in Pointers PROVE DueNow(p) <=> DueNow(p)'
    <3>1. Before(p, i, j + 1) <=> Before(p, i, j) \/ p = <<i, j>>
      BY <1>1, BeforeFacts
    <3>2. p = <<i, j>> /\ p \in PatchFiles => DueNow(p)
      BY <1>3, <1>4, <1>12 DEF SkipUsedEntry, Laying
    <3> QED BY <1>5, <2>1, <3>1, <3>2 DEF DueNow
  <2> QED BY <1>1, <1>2, <1>4, <2>1, <2>2, UsedSame DEF Laying
<1>13. CASE AppendPatchEntry
  <2>1. <<i, j>> \in Pointers
    BY <1>1, <1>13, CursorTyped DEF AppendPatchEntry
  <2>2. <<i, j>> \in PatchFiles
    <3>1. i # 1
      BY <1>1, <1>13 DEF AppendPatchEntry, DiskOK, Count
    <3> QED BY <1>1, <1>3, <1>4, <1>13, <2>1, <3>1 DEF AppendPatchEntry
  <2>3. CASE HeaderWriteFails(<<i, j>>)
    BY <1>6, <2>3 DEF HeaderWriteFails
  <2>4. CASE ~HeaderWriteFails(<<i, j>>)
    <3>1. Adds(<<i, j>>)
      BY <1>13, <2>4 DEF AppendPatchEntry, Adds
    <3>2. /\ pc = "append" /\ pc' = pc /\ i' = i /\ j' = j + 1
          /\ filename_2_entry' = filename_2_entry
      BY <1>13, <3>1 DEF AppendPatchEntry, Adds
    <3>3. ASSUME NEW p \in Pointers PROVE DueNow(p)' <=> DueNow(p) \/ p = <<i, j>>
      <4>1. Before(p, i, j + 1) <=> Before(p, i, j) \/ p = <<i, j>>
        BY <1>1, BeforeFacts
      <4> QED BY <1>5, <2>2, <3>2, <4>1 DEF DueNow
    <3> QED BY <2>1, <3>1, <3>3, UsedAdds
  <2> QED BY <2>3, <2>4
<1>14. CASE NextPatchAppended
  <2>1. /\ pc = "append" /\ pc' = pc /\ i' = i + 1 /\ j' = 1
        /\ i =< last_file /\ j > Count(i) /\ UNCHANGED <<filename_2_entry, layout>>
    BY <1>14 DEF NextPatchAppended
  <2>2. ASSUME NEW p \in Pointers PROVE DueNow(p) <=> DueNow(p)'
    <3>1. (Before(p, i, j) <=> p[1] < i + 1) /\ (Before(p, i + 1, 1) <=> p[1] < i + 1)
      BY <1>1, <2>1, BeforeFacts
    <3> QED BY <1>5, <2>1, <3>1 DEF DueNow
  <2> QED BY <1>1, <1>2, <1>4, <2>1, <2>2, UsedSame DEF Laying
<1>15. CASE AllAppended
  <2>1. /\ pc = "append" /\ pc' = "directory" /\ i > last_file
        /\ UNCHANGED <<filename_2_entry, layout>>
    BY <1>15 DEF AllAppended
  <2>2. ASSUME NEW p \in Pointers PROVE DueNow(p) <=> DueNow(p)'
    <3>1. Before(p, i, j)
      BY <1>1, <2>1, BeforeFacts
    <3> QED BY <1>5, <2>1, <3>1 DEF DueNow
  <2> QED BY <1>1, <1>2, <2>1, <2>2, UsedSame DEF Laying
<1>16. CASE WriteCDE
  <2>1. pc = "directory" /\ pc' = pc /\ UNCHANGED <<filename_2_entry, layout>>
    BY <1>16 DEF WriteCDE
  <2>2. \A p : DueNow(p) <=> DueNow(p)'
    BY <1>5, <2>1 DEF DueNow
  <2> QED BY <1>1, <1>2, <2>1, <2>2, UsedSame DEF Laying
<1>17. CASE Finish
  <2>1. /\ pc = "directory" /\ pc' = "done" /\ filename_2_entry' = filename_2_entry
        /\ entries' = entries /\ all_entries' = all_entries
    BY <1>17 DEF Finish
  <2>2. Pointers' = Pointers
    BY <1>2, DirectoryFrame
  <2>3. \A p : DueNow(p) <=> DueNow(p)'
    BY <1>5, <2>1 DEF DueNow
  <2>4. /\ \A q \in Pointers : entries[q].used => \E k \in 1..Len(all_entries) : all_entries[k] = q
        /\ \A k, m \in 1..Len(all_entries) : all_entries[k] = all_entries[m] => k = m
        /\ \A q \in Pointers : entries[q].used <=> DueNow(q)
    BY <2>1, UsedIsDue DEF UsedParts, Laying
  <2>5. UsedExact' <=> UsedParts'
    BY UsedIsDue, PTL
  <2> QED BY <2>1, <2>2, <2>3, <2>4, <2>5 DEF UsedParts
<1>18. CASE NoPatches \/ ParsePatch \/ ParseFails \/ DupPatchFile
  BY <1>6, <1>18 DEF NoPatches, ParsePatch, ParseFails, DupPatchFile, Fail
<1>19. CASE SkipPatchFile \/ RecordPatchFile \/ NextPatch
  BY <1>6, <1>19 DEF SkipPatchFile, RecordPatchFile, NextPatch
<1>20. CASE Terminated \/ UNCHANGED vars
  BY <1>7, <1>20 DEF Terminated, vars
<1> QED BY <1>8, <1>9, <1>10, <1>11, <1>12, <1>13, <1>14, <1>15, <1>16, <1>17, <1>18, <1>19, <1>20 DEF Next

-----------------------------------------------------------------------------
(***************************************************************************)
(* The records of the central directory.                                   *)
(***************************************************************************)
LEMMA NextRecords ==
    ASSUME PlacingInv, RecordsInOrder, [Next]_vars
    PROVE  RecordsInOrder'
<1>1. /\ TypeOK /\ j \in Nat /\ Len(central_dir) \in Nat /\ Len(all_entries) \in Nat
      /\ central_dir \in Seq([entry : Pointers, lfh : Nat])
      /\ all_entries \in Seq(Pointers)
  BY LenProperties DEF PlacingInv, TypeInv, TypeOK
<1>2. CASE pc' \notin {"directory", "done"} /\ central_dir' = <<>>
  BY <1>2 DEF RecordsInOrder
<1>3. CASE pc \notin {"directory", "done"} /\ pc' \notin {"directory", "done"}
           /\ central_dir' = central_dir
  BY <1>2, <1>3 DEF RecordsInOrder
<1>4. CASE AllAppended
  <2>1. pc' = "directory" /\ j' = 1 /\ central_dir' = <<>> /\ all_entries' = all_entries
    BY <1>4 DEF AllAppended, directory, layout, RecordsInOrder
  <2> QED BY <1>1, <2>1 DEF RecordsInOrder
<1>5. CASE WriteCDE
  <2> DEFINE record == [entry |-> all_entries[j], lfh |-> entries[all_entries[j]].lfh]
  <2>1. /\ pc = "directory" /\ pc' = "directory" /\ j' = j + 1 /\ j =< Len(all_entries)
        /\ central_dir' = Append(central_dir, record)
        /\ all_entries' = all_entries /\ entries' = entries
    BY <1>5 DEF WriteCDE, layout
  <2>2. j = Len(central_dir) + 1
    BY <2>1 DEF RecordsInOrder
  <2>3. record \in [entry : Pointers, lfh : Nat]
    <3>1. all_entries[j] \in Pointers
      BY <1>1, <2>1, <2>2, ElementOfSeq
    <3> QED BY <1>1, <3>1, EntryFacts
  <2>4. record.entry = all_entries[j] /\ record.lfh = entries[all_entries[j]].lfh
    OBVIOUS
  <2> HIDE DEF record
  <2>5. /\ Len(central_dir') = Len(central_dir) + 1
        /\ \A k \in 1..Len(central_dir) : central_dir'[k] = central_dir[k]
        /\ central_dir'[Len(central_dir) + 1] = record
    BY <1>1, <2>1, <2>3, AppendProperties
  <2>6. ASSUME NEW k \in 1..Len(central_dir')
        PROVE  /\ central_dir'[k].entry = all_entries[k]
               /\ central_dir'[k].lfh = entries[all_entries[k]].lfh
    <3>1. CASE k = j
      BY <2>2, <2>4, <2>5, <3>1
    <3>2. CASE k # j
      BY <1>1, <2>2, <2>5, <3>2 DEF RecordsInOrder
    <3> QED BY <3>1, <3>2
  <2> QED BY <1>1, <2>1, <2>2, <2>5, <2>6 DEF RecordsInOrder
<1>6. CASE Finish
  <2>1. /\ pc = "directory" /\ pc' = "done" /\ j > Len(all_entries)
        /\ central_dir' = central_dir /\ all_entries' = all_entries /\ entries' = entries
    BY <1>6 DEF Finish
  <2>2. Len(central_dir) = Len(all_entries)
    BY <1>1, <2>1 DEF RecordsInOrder
  <2> QED BY <2>1, <2>2 DEF RecordsInOrder
<1>7. CASE Terminated \/ UNCHANGED vars
  <2>1. UNCHANGED <<pc, j, central_dir, all_entries, entries>>
    BY <1>7 DEF Terminated, vars, directory, layout
  <2> QED BY <2>1 DEF RecordsInOrder
<1>8. CASE NoPatches \/ ParsePatch \/ ParseFails \/ DupPatchFile
  BY <1>3, <1>8 DEF NoPatches, ParsePatch, ParseFails, DupPatchFile, Fail, directory
<1>9. CASE SkipPatchFile \/ RecordPatchFile \/ NextPatch \/ ParseApk
  BY <1>3, <1>9 DEF SkipPatchFile, RecordPatchFile, NextPatch, ParseApk, directory
<1>10. CASE SkipApkEntry \/ PlaceApkEntry \/ ApkPlaced
  BY <1>3, <1>10 DEF SkipApkEntry, PlaceApkEntry, ApkPlaced, HeaderWriteFails, directory
<1>11. CASE SkipUsedEntry \/ AppendPatchEntry \/ NextPatchAppended
  BY <1>3, <1>11 DEF SkipUsedEntry, AppendPatchEntry, NextPatchAppended, HeaderWriteFails,
     directory
<1> QED BY <1>4, <1>5, <1>6, <1>7, <1>8, <1>9, <1>10, <1>11 DEF Next

LEMMA InitDirectory == Init => DirectoryInv
<1> SUFFICES ASSUME Init PROVE DirectoryInv
  OBVIOUS
<1>1. PlacingInv /\ TypeOK
  BY InitPlacing DEF PlacingInv, TypeInv
<1>2. /\ pc = "parse_patch" /\ i = 2 /\ filename_2_entry = << >>
      /\ all_entries = <<>> /\ central_dir = <<>>
  BY DEF Init
<1>3. LookupExact
  <2>1. Scanned = {}
    BY <1>1, <1>2, PatchFilesFacts, PointerFacts DEF Scanned
  <2>2. DOMAIN filename_2_entry = {}
    BY <1>2
  <2> QED BY <2>1, <2>2 DEF LookupExact
<1>4. UsedExact
  <2>1. \A p \in Pointers : ~entries[p].used
    BY <1>1, <1>2 DEF PlacingInv, PlacedOnce
  <2>2. Len(all_entries) = 0
    BY <1>2
  <2> QED BY <1>2, <2>1, <2>2 DEF UsedExact
<1>5. RecordsInOrder
  BY <1>2 DEF RecordsInOrder
<1> QED BY <1>1, <1>3, <1>4, <1>5 DEF DirectoryInv

LEMMA NextDirectory == DirectoryInv /\ [Next]_vars => DirectoryInv'
<1> SUFFICES ASSUME DirectoryInv, [Next]_vars PROVE DirectoryInv'
  OBVIOUS
<1>1. PlacingInv'
  BY NextPlacing DEF DirectoryInv
<1>2. LookupExact'
  BY NextLookup DEF DirectoryInv
<1>3. UsedExact'
  BY NextUsed DEF DirectoryInv
<1>4. RecordsInOrder'
  BY NextRecords DEF DirectoryInv
<1> QED BY <1>1, <1>2, <1>3, <1>4 DEF DirectoryInv

\* The directory gives each entry of the shadow apk, in its order, the offset
\* the entry was placed at: what mCDE.write of init writes is what
\* add_entry_to_partition decided, whatever was replaced or padded.
THEOREM OffsetsWritten == Spec => []DirectoryOffsets
<1>1. DirectoryInv => DirectoryOffsets
  BY DEF DirectoryInv, RecordsInOrder, DirectoryOffsets
<1> QED BY InitDirectory, NextDirectory, <1>1, PTL DEF Spec

-----------------------------------------------------------------------------
(***************************************************************************)
(* What the finished directory lists.                                      *)
(***************************************************************************)
\* The records are those of the entries whose mUserData2 is set.
LEMMA ListedUsed ==
    ASSUME DirectoryInv, pc = "done"
    PROVE  \A p : p \in Listed <=> p \in Pointers /\ entries[p].used
<1>1. /\ all_entries \in Seq(Pointers)
      /\ \A k \in 1..Len(all_entries) : all_entries[k] \in Pointers
  BY ElementOfSeq DEF DirectoryInv, PlacingInv, TypeInv, TypeOK
<1>2. /\ Len(central_dir) = Len(all_entries)
      /\ \A k \in 1..Len(central_dir) : central_dir[k].entry = all_entries[k]
  BY DEF DirectoryInv, RecordsInOrder
<1>3. \A p : p \in Listed <=> \E k \in 1..Len(all_entries) : all_entries[k] = p
  BY <1>2 DEF Listed
<1>4. \A k \in 1..Len(all_entries) : entries[all_entries[k]].used
  BY DEF DirectoryInv, PlacingInv, PlacedOnce
<1>5. \A p \in Pointers : entries[p].used => \E k \in 1..Len(all_entries) : all_entries[k] = p
  BY DEF DirectoryInv, UsedExact
<1> QED BY <1>1, <1>3, <1>4, <1>5

\* filename_2_entry, once all patches are parsed.
LEMMA LookupComplete ==
    ASSUME DirectoryInv, pc = "done"
    PROVE  /\ \A p \in PatchFiles : Rec(p).name \notin removed_files =>
                 /\ Rec(p).name \in DOMAIN filename_2_entry
                 /\ filename_2_entry[Rec(p).name] = p
           /\ \A n \in DOMAIN filename_2_entry :
                 /\ n \notin removed_files
                 /\ filename_2_entry[n] \in PatchFiles /\ Rec(filename_2_entry[n]).name = n
<1>1. Scanned = PatchFiles
  BY DEF Scanned
<1> QED BY <1>1 DEF DirectoryInv, LookupExact, PlacingInv, PlacedOnce

LEMMA DirectoryLists ==
    ASSUME DirectoryInv, pc = "done"
    PROVE  Listed = Held
<1>1. /\ TypeOK /\ 0 \in 0..last_file
      /\ \A p : p \in PatchFiles <=> p \in Pointers /\ p[1] >= 2 /\ ~Rec(p).dir
  BY PatchFilesFacts DEF DirectoryInv, PlacingInv, TypeInv, TypeOK
<1>2. \A p : p \in Listed <=>
          p \in Pointers /\ (ChosenBefore(p, Count(0) + 1) \/ p \in PatchFiles)
  BY ListedUsed DEF DirectoryInv, UsedExact
<1>3. \A k \in Kept : k \in 1..Count(0) /\ k < Count(0) + 1 /\ <<0, k>> \in FilesOf(0)
  BY <1>1, PointerFacts DEF Kept, FilesOf
<1>4. ASSUME NEW p, p \in Listed PROVE p \in Held
  <2>1. CASE p \in PatchFiles
    BY <2>1 DEF Held
  <2>2. CASE p \notin PatchFiles
    <3>1. PICK k \in Kept : p = ChosenFor(k)
      BY <1>2, <1>4, <2>2 DEF ChosenBefore
    <3>2. Rec(<<0, k>>).name \notin DOMAIN filename_2_entry /\ p = <<0, k>>
      BY <2>2, <3>1, LookupComplete DEF ChosenFor
    <3>3. Rec(p).name \notin removed_files
      BY <3>2 DEF Kept
    <3>4. Rec(p).name \notin NamesOf(PatchFiles)
      BY <3>2, <3>3, LookupComplete DEF NamesOf
    <3> QED BY <1>3, <3>2, <3>3, <3>4 DEF Held
  <2> QED BY <2>1, <2>2
<1>5. ASSUME NEW p, p \in Held PROVE p \in Listed
  <2>1. CASE p \in PatchFiles
    BY <1>1, <1>2, <2>1
  <2>2. CASE p \notin PatchFiles
    <3>1. /\ p \in Pointers /\ p[1] = 0 /\ ~Rec(p).dir
          /\ Rec(p).name \notin removed_files /\ Rec(p).name \notin NamesOf(PatchFiles)
      BY <1>5, <2>2 DEF Held, FilesOf
    <3>2. p[2] \in Kept /\ p = <<0, p[2]>>
      BY <1>1, <3>1, PointerFacts DEF Kept
    <3>3. Rec(p).name \notin DOMAIN filename_2_entry
      BY <3>1, LookupComplete DEF NamesOf
    <3>4. p = ChosenFor(p[2])
      BY <3>2, <3>3 DEF ChosenFor
    <3>5. ChosenBefore(p, Count(0) + 1)
      BY <1>3, <3>2, <3>4 DEF ChosenBefore
    <3> QED BY <1>2, <3>1, <3>5
  <2> QED BY <2>1, <2>2
<1> QED BY <1>4, <1>5

\* Whatever the package, the directory of the shadow apk lists every file of
\* the patches and every file of the apk that is neither replaced nor removed;
\* so a removed file is in it exactly if a patch brings it.
THEOREM DirectoryListsHeld == Spec => []ListsHeld
<1>1. DirectoryInv => ListsHeld
  BY DirectoryLists DEF ListsHeld
<1> QED BY InitDirectory, NextDirectory, <1>1, PTL DEF Spec

\* Two listed entries of one name are one entry.
LEMMA ListedNames ==
    ASSUME DirectoryInv, pc = "done", NamesOf(PatchFiles) \cap removed_files = {},
           NEW p \in Held, NEW q \in Held, Rec(p).name = Rec(q).name
    PROVE  p = q
<1>1. /\ TypeOK /\ 0 \in 0..last_file
      /\ \A k, m \in 1..Count(0) : Rec(<<0, k>>).name = Rec(<<0, m>>).name => k = m
  BY DEF DirectoryInv, PlacingInv, TypeInv, TypeOK, DiskOK
<1>2. \A x \in PatchFiles : Rec(x).name \in NamesOf(PatchFiles)
  BY DEF NamesOf
<1>3. CASE p \in PatchFiles /\ q \in PatchFiles
  BY <1>2, <1>3, LookupComplete
<1>4. CASE p \in PatchFiles /\ q \notin PatchFiles
  BY <1>2, <1>4 DEF Held
<1>5. CASE p \notin PatchFiles /\ q \in PatchFiles
  BY <1>2, <1>5 DEF Held
<1>6. CASE p \notin PatchFiles /\ q \notin PatchFiles
  <2>1. p \in Pointers /\ p[1] = 0 /\ q \in Pointers /\ q[1] = 0
    BY <1>6 DEF Held, FilesOf
  <2>2. /\ p = <<0, p[2]>> /\ p[2] \in 1..Count(0)
        /\ q = <<0, q[2]>> /\ q[2] \in 1..Count(0)
    BY <1>1, <2>1, PointerFacts
  <2> QED BY <1>1, <2>2
<1> QED BY <1>3, <1>4, <1>5, <1>6

\* If no patch brings a removed file, the directory of the shadow apk lists the
\* files it is meant to hold, none missing, none stale, and no name twice.
THEOREM DirectoryIsIntended == Spec => []DirectoryExact
<1>1. ASSUME DirectoryInv PROVE DirectoryExact
  <2> SUFFICES ASSUME pc = "done", NamesOf(PatchFiles) \cap removed_files = {}
               PROVE  /\ Listed = Intended
                      /\ \A k, m \in 1..Len(central_dir) :
                            Rec(central_dir[k].entry).name = Rec(central_dir[m].entry).name
                                => k = m
    BY DEF DirectoryExact
  <2>1. Listed = Held
    BY <1>1, DirectoryLists
  <2>2. Held = Intended
    <3>1. \A p \in PatchFiles : Rec(p).name \notin removed_files
      BY DEF NamesOf
    <3> QED BY <3>1 DEF Held, Intended
  <2>3. ASSUME NEW k \in 1..Len(central_dir), NEW m \in 1..Len(central_dir),
               Rec(central_dir[k].entry).name = Rec(central_dir[m].entry).name
        PROVE  k = m
    <3>1. central_dir[k].entry \in Held /\ central_dir[m].entry \in Held
      BY <2>1 DEF Listed
    <3>2. central_dir[k].entry = central_dir[m].entry
      BY <1>1, <2>3, <3>1, ListedNames
    <3>3. all_entries[k] = all_entries[m] /\ k \in 1..Len(all_entries) /\ m \in 1..Len(all_entries)
      BY <1>1, <3>2 DEF DirectoryInv, RecordsInOrder
    <3> QED BY <1>1, <3>3 DEF DirectoryInv, UsedExact
  <2> QED BY <2>1, <2>2, <2>3
<1> QED BY InitDirectory, NextDirectory, <1>1, PTL DEF Spec
=============================================================================
