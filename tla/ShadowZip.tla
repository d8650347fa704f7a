------------------------------ MODULE ShadowZip ------------------------------
(***************************************************************************)
(* ShadowZip::init (zip/shadow_zip.cpp:305-455): from the installed apk,   *)
(* the zips of a patch and the list of removed files it computes the       *)
(* partition table and the central directory of the shadow apk.            *)
(*                                                                         *)
(* An action is one iteration of a loop of init, with the whole of         *)
(* add_entry_to_partition inside it.  Files are numbered as in all_files_: *)
(* 0 the apk, 1 the rewritten local headers (.entries_header.data), 2 .. n *)
(* the patch zips, n + 1 the new central directory (.patch.data).          *)
(***************************************************************************)
EXTENDS ShadowLayout, FiniteSets

CONSTANTS
    Names,   \* entry names
    Inputs   \* the packages init may be started on (see Input)

\* zip/ZipEntry.h:278, 94-98, zip/shadow_zip.cpp:224 and zip/ZipFile.h.
kLFHLen == 30
kDataDescriptorLen == 16
Alignment == 4
kEOCDLen == 22

\* What parse_apk keeps of a central directory record and its local header.
\* dir is TRUE of a name that ends in '/', cde the size of the record.
EntryType ==
    [name : Names, dir : BOOLEAN, stored : BOOLEAN, dd : BOOLEAN, lfh : Nat,
     name_len : Nat, extra : Nat, compressed_size : Nat, cde : Nat]

\* An archive on disk; intact means that parse_apk gets to its end.
\* size is the length of its part that holds entries.
Archive == [intact : BOOLEAN, entries : Seq(EntryType), size : Nat]

\* A package: the archives by file index (index 1 is the header file, which
\* init has just truncated) and the names in removed_files.txt.
IsInput(inp) ==
    /\ inp.last \in Nat \ {0}
    /\ inp.files \in [0..inp.last -> Archive]
    /\ inp.files[1].entries = <<>>
    /\ inp.removed \subseteq Names

\* Length of a local header with the given extra field, of the file data with
\* its data descriptor, and of the whole entry as it is in its archive.
HeaderLen(e, extra) == kLFHLen + e.name_len + extra
DataLen(e) == e.compressed_size + (IF e.dd THEN kDataDescriptorLen ELSE 0)
EntrySize(e) == HeaderLen(e, e.extra) + DataLen(e)

\* Entries lie inside their archive, and the apk has no name twice (the
\* package manager rejects such an apk; for the patches init checks it).
WellFormed(inp) ==
    /\ \A f \in 0..inp.last : \A k \in 1..Len(inp.files[f].entries) :
          inp.files[f].entries[k].lfh + EntrySize(inp.files[f].entries[k])
              =< inp.files[f].size
    /\ \A k, m \in 1..Len(inp.files[0].entries) :
          inp.files[0].entries[k].name = inp.files[0].entries[m].name => k = m

ASSUME InputsAssumption == \A inp \in Inputs : IsInput(inp) /\ WellFormed(inp)

VARIABLES
    pc,                \* where init is
    i, j,              \* the loop indexes: file and entry (from 1)
    disk,              \* the archives, which init only reads
    last_file,         \* the index of the last patch zip
    removed_files,
    entries,           \* the ZipEntry objects: the fields init changes
    filename_2_entry,  \* name -> the patch's ZipEntry
    pre_file_index, pre_file_stop, pre_shadow_stop,
    patch_partitions,
    header_file,       \* local headers written to .entries_header.data
    all_entries,       \* ZipEntry objects in the order of the shadow apk
    central_dir,       \* records written to .patch.data
    end_size,          \* ftell of .patch.data
    end_of_file

input == <<disk, last_file, removed_files>>
layout == <<pre_file_index, pre_file_stop, pre_shadow_stop, patch_partitions,
            header_file, entries, all_entries>>
directory == <<central_dir, end_size, end_of_file>>
vars == <<pc, i, j, input, filename_2_entry, layout, directory>>

Count(f) == Len(disk[f].entries)

\* A ZipEntry* is named by the file and the index it was parsed from.
Pointers == UNION {{f} \X (1..Count(f)) : f \in 0..last_file}
Rec(p) == disk[p[1]].entries[p[2]]

\* The fields of a ZipEntry init assigns: setLFHOffset, addPadding, mUserData2.
ZipEntry == [lfh : Nat, extra : Nat, used : BOOLEAN]
initFromCDE(p) == [lfh |-> Rec(p).lfh, extra |-> Rec(p).extra, used |-> FALSE]

getEntryBegin(p) == entries[p].lfh
getFileOffset(p) == entries[p].lfh + HeaderLen(Rec(p), entries[p].extra)
getEntryEnd(p) == getFileOffset(p) + DataLen(Rec(p))

HeaderFileLen ==
    IF header_file = <<>> THEN 0 ELSE header_file[Len(header_file)].stop

\* Mutant: the extra field the header already has is forgotten.
PaddingNoExtra(p) ==
    IF Rec(p).stored
    THEN LET offset == pre_shadow_stop + HeaderLen(Rec(p), 0)
         IN  (Alignment - (offset % Alignment)) % Alignment
    ELSE 0

\* The bytes the local header has to grow by for stored data to be aligned.
Padding(p) ==
    IF Rec(p).stored
    THEN LET offset == pre_shadow_stop + HeaderLen(Rec(p), entries[p].extra)
         IN  (Alignment - (offset % Alignment)) % Alignment
    ELSE 0

-----------------------------------------------------------------------------
Init ==
    /\ pc = "parse_patch" /\ i = 2 /\ j = 1
    /\ \E inp \in Inputs :
          disk = inp.files /\ last_file = inp.last /\ removed_files = inp.removed
    /\ entries = [p \in Pointers |-> initFromCDE(p)]
    /\ filename_2_entry = << >>
    /\ pre_file_index = -1 /\ pre_file_stop = 0 /\ pre_shadow_stop = 0
    /\ patch_partitions = <<>> /\ header_file = <<>> /\ all_entries = <<>>
    /\ central_dir = <<>> /\ end_size = 0 /\ end_of_file = 0

\* return -1
Fail == pc' = "failed" /\ UNCHANGED <<i, j, input, filename_2_entry, layout, directory>>

\* "no apk patches": get_files added nothing to all_files_.
NoPatches == pc = "parse_patch" /\ i = 2 /\ last_file = 1 /\ Fail

ParsePatch ==
    /\ pc = "parse_patch" /\ i =< last_file
    /\ disk[i].intact
    /\ pc' = "scan" /\ j' = 1
    /\ UNCHANGED <<i, input, filename_2_entry, layout, directory>>

\* parse_apk fails on a patch or, after the last one, on the apk.
ParseFails ==
    /\ pc = "parse_patch" /\ last_file > 1
    /\ ~disk[IF i =< last_file THEN i ELSE 0].intact
    /\ Fail

\* Lines 363-378 on one entry of patch i; parse_apk has dropped directories.
DupPatchFile ==
    /\ pc = "scan" /\ j =< Count(i)
    /\ ~Rec(<<i, j>>).dir /\ Rec(<<i, j>>).name \in DOMAIN filename_2_entry
    /\ Fail

\* A directory, or a name in removed_files.txt: not recorded.
SkipPatchFile ==
    /\ pc = "scan" /\ j =< Count(i)
    /\ \/ Rec(<<i, j>>).dir
       \/ /\ Rec(<<i, j>>).name \notin DOMAIN filename_2_entry
          /\ Rec(<<i, j>>).name \in removed_files
    /\ j' = j + 1
    /\ UNCHANGED <<pc, i, input, filename_2_entry, layout, directory>>

\* Mutant: the index of the entry is off by one.
RecordPatchFileOffByOne ==
    /\ pc = "scan" /\ j =< Count(i)
    /\ ~Rec(<<i, j>>).dir
    /\ Rec(<<i, j>>).name \notin DOMAIN filename_2_entry \cup removed_files
    /\ filename_2_entry' =
          [m \in DOMAIN filename_2_entry \cup {Rec(<<i, j>>).name} |->
              IF m = Rec(<<i, j>>).name THEN <<i, j + 1>> ELSE filename_2_entry[m]]
    /\ j' = j + 1
    /\ UNCHANGED <<pc, i, input, layout, directory>>

RecordPatchFile ==
    /\ pc = "scan" /\ j =< Count(i)
    /\ LET n == Rec(<<i, j>>).name IN
          /\ ~Rec(<<i, j>>).dir
          /\ n \notin DOMAIN filename_2_entry /\ n \notin removed_files
          /\ filename_2_entry' =
                [m \in DOMAIN filename_2_entry \cup {n} |->
                    IF m = n THEN <<i, j>> ELSE filename_2_entry[m]]
    /\ j' = j + 1
    /\ UNCHANGED <<pc, i, input, layout, directory>>

\* Mutant: the file index is not advanced.
NextPatchStuck ==
    /\ pc = "scan" /\ j > Count(i)
    /\ pc' = "parse_patch"
    /\ UNCHANGED <<i, j, input, filename_2_entry, layout, directory>>

NextPatch ==
    /\ pc = "scan" /\ j > Count(i)
    /\ pc' = "parse_patch" /\ i' = i + 1
    /\ UNCHANGED <<j, input, filename_2_entry, layout, directory>>

ParseApk ==
    /\ pc = "parse_patch" /\ last_file > 1 /\ i > last_file
    /\ disk[0].intact
    /\ pc' = "place" /\ i' = 0 /\ j' = 1
    /\ UNCHANGED <<input, filename_2_entry, layout, directory>>

-----------------------------------------------------------------------------
(***************************************************************************)
(* add_entry_to_partition (208-276): the three ways an entry gets its      *)
(* place, then setLFHOffset and all_entries.push_back of the caller.       *)
(***************************************************************************)
\* Mutant: the merged partition grows in the shadow file only.
GrownShadowOnly(part, size) == [part EXCEPT !.shadow_stop = @ + size]

\* The partition with size more bytes at its end.
Grown(part, size) ==
    Partition(part.shadow_start, part.shadow_stop + size, part.file_index,
              part.start_in_file, part.stop_in_file + size)

\* Mutant: entries of one file are merged across what lies between them.
MergeAnywhere(p) ==
    LET size == getEntryEnd(p) - getEntryBegin(p) IN
    /\ pre_file_index = p[1] /\ Padding(p) = 0
    /\ patch_partitions' = [patch_partitions EXCEPT ![Len(patch_partitions)] = Grown(@, size)]
    /\ pre_shadow_stop' = pre_shadow_stop + size
    /\ UNCHANGED header_file

\* The entry follows the last one in the same file and needs no padding: the
\* last partition grows.
Merge(p) ==
    LET size == getEntryEnd(p) - getEntryBegin(p) IN
    /\ pre_file_index = p[1] /\ pre_file_stop = getEntryBegin(p)
    /\ Padding(p) = 0
    /\ patch_partitions' = [patch_partitions EXCEPT ![Len(patch_partitions)] = Grown(@, size)]
    /\ pre_shadow_stop' = pre_shadow_stop + size
    /\ UNCHANGED header_file

\* A partition of its own, as the entry is in its archive.
NewPartition(p) ==
    LET size == getEntryEnd(p) - getEntryBegin(p)
    IN  /\ ~(pre_file_index = p[1] /\ pre_file_stop = getEntryBegin(p))
        /\ Padding(p) = 0
        /\ patch_partitions' =
              Append(patch_partitions,
                     Partition(pre_shadow_stop, pre_shadow_stop + size,
                               p[1], getEntryBegin(p), getEntryEnd(p)))
        /\ pre_shadow_stop' = pre_shadow_stop + size
        /\ UNCHANGED header_file

\* Mutant: the end of the entry is read after addPadding.
PadHeaderLateEnd(p) ==
    LET start == HeaderFileLen
        len == HeaderLen(Rec(p), entries[p].extra + Padding(p))
        data == pre_shadow_stop + len
        end == getEntryEnd(p) + Padding(p)
        stop == data + (end - getFileOffset(p))
    IN  /\ Padding(p) # 0
        /\ header_file' = Append(header_file,
                                 [entry |-> p, start |-> start, stop |-> start + len])
        /\ patch_partitions' =
              Append(Append(patch_partitions,
                            Partition(pre_shadow_stop, data, 1, start, start + len)),
                     Partition(data, stop, p[1], getFileOffset(p), end))
        /\ pre_shadow_stop' = stop

\* Padding: the local header is written anew, longer, to the header file, and
\* the data keeps its place in the archive.  Two partitions.
PadHeader(p) ==
    LET start == HeaderFileLen
        len == HeaderLen(Rec(p), entries[p].extra + Padding(p))
        data == pre_shadow_stop + len
        stop == data + (getEntryEnd(p) - getFileOffset(p))
    IN  /\ Padding(p) # 0
        /\ header_file' = Append(header_file,
                                 [entry |-> p, start |-> start, stop |-> start + len])
        /\ patch_partitions' =
              Append(Append(patch_partitions,
                            Partition(pre_shadow_stop, data, 1, start, start + len)),
                     Partition(data, stop, p[1], getFileOffset(p), getEntryEnd(p)))
        /\ pre_shadow_stop' = stop

\* Mutant: the offset is read after the entry was added.
PlacedEntryAfter(p) ==
    [lfh |-> pre_shadow_stop', extra |-> entries[p].extra + Padding(p), used |-> TRUE]

\* Mutant: mUserData2 is not set.
PlacedEntryUnused(p) ==
    [lfh |-> pre_shadow_stop, extra |-> entries[p].extra + Padding(p), used |-> FALSE]

\* setLFHOffset of the caller, with addPadding and mUserData2.
PlacedEntry(p) ==
    [lfh |-> pre_shadow_stop, extra |-> entries[p].extra + Padding(p), used |-> TRUE]

Add(p) ==
    /\ Merge(p) \/ NewPartition(p) \/ PadHeader(p)
    /\ pre_file_index' = p[1] /\ pre_file_stop' = getEntryEnd(p)
    /\ entries' = [entries EXCEPT ![p] = PlacedEntry(p)]
    /\ all_entries' = Append(all_entries, p)

\* The write of a rewritten header fails (a full disk): exit(-1).
HeaderWriteFails(p) ==
    /\ Padding(p) # 0
    /\ pc' = "exited"
    /\ UNCHANGED <<i, j, input, filename_2_entry, layout, directory>>

\* Lines 399-406: the apk's entry, or the patch's entry of that name.
ApkEntry ==
    LET n == Rec(<<0, j>>).name
    IN  IF n \in DOMAIN filename_2_entry THEN filename_2_entry[n] ELSE <<0, j>>

SkipApkEntry ==
    /\ pc = "place" /\ j =< Count(0)
    /\ Rec(<<0, j>>).dir \/ Rec(<<0, j>>).name \in removed_files
    /\ j' = j + 1
    /\ UNCHANGED <<pc, i, input, filename_2_entry, layout, directory>>

PlaceApkEntry ==
    /\ pc = "place" /\ j =< Count(0)
    /\ ~Rec(<<0, j>>).dir /\ Rec(<<0, j>>).name \notin removed_files
    /\ \/ /\ Add(ApkEntry)
          /\ j' = j + 1
          /\ UNCHANGED <<pc, i, input, filename_2_entry, directory>>
       \/ HeaderWriteFails(ApkEntry)

ApkPlaced ==
    /\ pc = "place" /\ j > Count(0)
    /\ pc' = "append" /\ i' = 1 /\ j' = 1
    /\ UNCHANGED <<input, filename_2_entry, layout, directory>>

\* Lines 413-424: every patch entry that has replaced nothing comes after.
SkipUsedEntry ==
    /\ pc = "append" /\ i =< last_file /\ j =< Count(i)
    /\ Rec(<<i, j>>).dir \/ entries[<<i, j>>].used
    /\ j' = j + 1
    /\ UNCHANGED <<pc, i, input, filename_2_entry, layout, directory>>

AppendPatchEntry ==
    /\ pc = "append" /\ i =< last_file /\ j =< Count(i)
    /\ ~Rec(<<i, j>>).dir /\ ~entries[<<i, j>>].used
    /\ \/ /\ Add(<<i, j>>)
          /\ j' = j + 1
          /\ UNCHANGED <<pc, i, input, filename_2_entry, directory>>
       \/ HeaderWriteFails(<<i, j>>)

NextPatchAppended ==
    /\ pc = "append" /\ i =< last_file /\ j > Count(i)
    /\ i' = i + 1 /\ j' = 1
    /\ UNCHANGED <<pc, input, filename_2_entry, layout, directory>>

AllAppended ==
    /\ pc = "append" /\ i > last_file
    /\ pc' = "directory" /\ j' = 1
    /\ UNCHANGED <<i, input, filename_2_entry, layout, directory>>

\* Mutant: the offset the entry has in its own archive is written.
WriteCDEOldOffset ==
    /\ pc = "directory" /\ j =< Len(all_entries)
    /\ LET p == all_entries[j] IN
          /\ central_dir' = Append(central_dir, [entry |-> p, lfh |-> Rec(p).lfh])
          /\ end_size' = end_size + Rec(p).cde
    /\ j' = j + 1
    /\ UNCHANGED <<pc, i, input, filename_2_entry, layout, end_of_file>>

\* Lines 431-436: mCDE.write, with the offset the entry now has.
WriteCDE ==
    /\ pc = "directory" /\ j =< Len(all_entries)
    /\ LET p == all_entries[j] IN
          /\ central_dir' = Append(central_dir, [entry |-> p, lfh |-> entries[p].lfh])
          /\ end_size' = end_size + Rec(p).cde
    /\ j' = j + 1
    /\ UNCHANGED <<pc, i, input, filename_2_entry, layout, end_of_file>>

\* Lines 437-448: the end record, its partition and the end of the file.
Finish ==
    /\ pc = "directory" /\ j > Len(all_entries)
    /\ end_size' = end_size + kEOCDLen
    /\ end_of_file' = pre_shadow_stop + end_size'
    /\ patch_partitions' =
          Append(patch_partitions,
                 Partition(pre_shadow_stop, end_of_file', last_file + 1, 0, end_size'))
    /\ pc' = "done"
    /\ UNCHANGED <<i, j, input, filename_2_entry, pre_file_index, pre_file_stop,
                   pre_shadow_stop, header_file, entries, all_entries, central_dir>>

\* return 0, return -1 or exit(-1): nothing more happens.
Terminated == pc \in {"done", "failed", "exited"} /\ UNCHANGED vars

Next ==
    \/ NoPatches \/ ParsePatch \/ ParseFails
    \/ DupPatchFile \/ SkipPatchFile \/ RecordPatchFile \/ NextPatch \/ ParseApk
    \/ SkipApkEntry \/ PlaceApkEntry \/ ApkPlaced
    \/ SkipUsedEntry \/ AppendPatchEntry \/ NextPatchAppended \/ AllAppended
    \/ WriteCDE \/ Finish \/ Terminated

Spec == Init /\ [][Next]_vars /\ WF_vars(Next)

-----------------------------------------------------------------------------
(***************************************************************************)
(* Properties.                                                             *)
(***************************************************************************)
HeaderRecord == [entry : Pointers, start : Nat, stop : Nat]

\* Every variable keeps its type; in particular every ZipEntry* that init
\* stores points to an entry of a parsed archive.
TypeOK ==
    /\ pc \in {"parse_patch", "scan", "place", "append", "directory",
               "done", "failed", "exited"}
    /\ i \in Nat /\ j \in Nat \ {0}
    /\ pc \in {"parse_patch", "scan"} => i >= 2
    /\ pc = "scan" => i =< last_file
    /\ last_file \in Nat \ {0} /\ disk \in [0..last_file -> Archive]
    /\ removed_files \subseteq Names
    /\ entries \in [Pointers -> ZipEntry]
    /\ DOMAIN filename_2_entry \subseteq Names
    /\ \A n \in DOMAIN filename_2_entry : filename_2_entry[n] \in Pointers
    /\ pre_file_index \in -1..last_file
    /\ pre_file_stop \in Nat /\ pre_shadow_stop \in Nat
    /\ patch_partitions \in Seq(FilePartitionInfo)
    /\ header_file \in Seq(HeaderRecord)
    /\ all_entries \in Seq(Pointers)
    /\ central_dir \in Seq([entry : Pointers, lfh : Nat])
    /\ end_size \in Nat /\ end_of_file \in Nat

\* What init may rely on: IsInput and WellFormed of the package it runs on.
DiskOK ==
    /\ disk[1].entries = <<>>
    /\ \A p \in Pointers : Rec(p).lfh + EntrySize(Rec(p)) =< disk[p[1]].size
    /\ \A k, m \in 1..Count(0) : Rec(<<0, k>>).name = Rec(<<0, m>>).name => k = m

\* No entry is placed twice: an entry not yet in the shadow apk still has the
\* offset and the extra field of its archive, and the entry the apk loop is
\* about to place is such a one because names are looked up once each.
PlacedOnce ==
    /\ \A p \in Pointers : ~entries[p].used => entries[p] = initFromCDE(p)
    /\ \A k \in 1..Len(all_entries) : entries[all_entries[k]].used
    /\ \A n \in DOMAIN filename_2_entry : Rec(filename_2_entry[n]).name = n
    /\ pc \in {"parse_patch", "scan"} => \A p \in Pointers : ~entries[p].used
    /\ pc = "place" =>
          \A p \in Pointers : entries[p].used =>
              \E k \in 1..Count(0) : k < j /\ Rec(p).name = Rec(<<0, k>>).name

\* pre_file_index and pre_file_stop describe the last partition, the one that
\* add_entry_to_partition extends when it merges.
LastPartition ==
    (pre_file_index # -1 /\ pc # "done") =>
        /\ Len(patch_partitions) > 0
        /\ patch_partitions[Len(patch_partitions)].file_index = pre_file_index
        /\ patch_partitions[Len(patch_partitions)].stop_in_file = pre_file_stop

\* The partitions tile the shadow apk without gap or overlap, up to the bytes
\* placed so far and at the end up to end_of_file_: what the loop of
\* ShadowZip::fread (assert(begin >= info.shadow_start_)) relies on.
Tiling ==
    Tiles(patch_partitions, IF pc = "done" THEN end_of_file ELSE pre_shadow_stop)

\* No partition reaches past the end of its file, so a read never falls short.
InBounds ==
    \A k \in 1..Len(patch_partitions) :
        LET part == patch_partitions[k] IN
        \/ part.file_index \in 0..last_file /\ part.file_index # 1
           /\ part.stop_in_file =< disk[part.file_index].size
        \/ part.file_index = 1 /\ part.stop_in_file =< HeaderFileLen
        \/ part.file_index = last_file + 1 /\ part.stop_in_file =< end_size

\* The entries of the shadow apk, as far as it is laid out.
Placed == {all_entries[k] : k \in 1..Len(all_entries)}

\* The data of every stored entry begins at a multiple of four in the shadow
\* apk, whatever was replaced before it (Unity maps such data directly).
Aligned ==
    \A p \in Placed : Rec(p).stored => getFileOffset(p) % Alignment = 0

\* The local header of p at its new offset is the one of its archive or, when
\* padded, the one written to the header file.
HeaderMapped(p) ==
    \/ /\ entries[p].extra = Rec(p).extra
       /\ Maps(patch_partitions, entries[p].lfh, HeaderLen(Rec(p), Rec(p).extra),
               p[1], Rec(p).lfh)
    \/ \E h \in 1..Len(header_file) :
          /\ header_file[h].entry = p
          /\ header_file[h].stop - header_file[h].start
               = HeaderLen(Rec(p), entries[p].extra)
          /\ Maps(patch_partitions, entries[p].lfh,
                  HeaderLen(Rec(p), entries[p].extra), 1, header_file[h].start)

\* Its data (and data descriptor) follow, from the archive it came from.
DataMapped(p) ==
    Maps(patch_partitions, getFileOffset(p), DataLen(Rec(p)),
         p[1], Rec(p).lfh + HeaderLen(Rec(p), Rec(p).extra))

\* Every entry of the shadow apk reads as a local header for that entry and
\* then the data of that entry, through merging, padding and replacement.
ContentMapped == \A p \in Placed : HeaderMapped(p) /\ DataMapped(p)

\* The entries lie end to end: no byte belongs to two entries, and the central
\* directory begins where the last one stops.
EndToEnd ==
    \A k \in 1..Len(all_entries) :
        getEntryEnd(all_entries[k]) =
            IF k = Len(all_entries) THEN pre_shadow_stop
            ELSE entries[all_entries[k + 1]].lfh

\* The central directory, once written, lists the entries in their order with
\* the offsets they were given.
DirectoryOffsets ==
    pc = "done" =>
        /\ Len(central_dir) = Len(all_entries)
        /\ \A k \in 1..Len(central_dir) :
              /\ central_dir[k].entry = all_entries[k]
              /\ central_dir[k].lfh = entries[all_entries[k]].lfh

FilesOf(f) == {p \in Pointers : p[1] = f /\ ~Rec(p).dir}
PatchFiles == UNION {FilesOf(f) : f \in 2..last_file}
NamesOf(S) == {Rec(p).name : p \in S}
Listed == {central_dir[k].entry : k \in 1..Len(central_dir)}

\* What the shadow apk is meant to hold: the patches' files and the apk's files
\* they do not replace, without the removed ones.
Intended ==
    {p \in PatchFiles : Rec(p).name \notin removed_files}
    \cup {p \in FilesOf(0) : Rec(p).name \notin removed_files \cup NamesOf(PatchFiles)}

\* If no patch zip carries a removed file, the central directory lists exactly
\* the intended entries, and no name twice.
DirectoryExact ==
    (pc = "done" /\ NamesOf(PatchFiles) \cap removed_files = {}) =>
        /\ Listed = Intended
        /\ \A k, m \in 1..Len(central_dir) :
              Rec(central_dir[k].entry).name = Rec(central_dir[m].entry).name => k = m

\* Readme.md:34 of deleted files: they are left where they are, since they
\* cannot be accessed; the code drops them from the directory to that end.
RemovedUnlisted == pc = "done" => NamesOf(Listed) \cap removed_files = {}

\* init returns, or the process exits.
Terminates == <>(pc \in {"done", "failed", "exited"})
=============================================================================
