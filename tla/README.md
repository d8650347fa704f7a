# A verification of libbootstrap

libbootstrap is loaded by an Android Unity game before the engine. It lets the
game run with a patch: a new `libil2cpp.so`, and a *shadow apk*, a virtual zip
file put together from the installed apk and the zips of the patch, served to
the engine through hooks on `open`, `read`, `fopen` and their like. This
directory holds TLA+ models of the library, checked with TLC, and theorems about
them, proved with TLAPS. Source lines are given as `file:line` under `src/`.

## The system

| component | code | state it keeps | operations | talks to |
|---|---|---|---|---|
| layout of the shadow apk | `zip/shadow_zip.cpp` `init`, `add_entry_to_partition`, `parse_apk` | the partition table, the list of files and the end of the file (`ShadowZipGlobalData`); `.entries_header.data` and `.patch.data` in the patch directory | `ShadowZip::init` | called by `use_data_dir`; its result goes to `user.db` |
| reading handle | `zip/shadow_zip.cpp:508-682` | a copy of the table, `pos_`, one `FILE*` per real file | `fopen fread fgets fseek ftell rewind fclose prepare_file` | called by the hooks |
| patch life cycle | `bootstrap.cpp:67-362`, `serial_utils.h` | `user.db`, `user.db.tmp`, `data/files/*.new`, the libraries in the patch directories | `use_data_dir` (from the game), `extract_patch_info` (at start) | `ShadowZip::init`, then the next process |
| hooks and handle table | `bootstrap.cpp:487-826`, `file_mapping.h` | `FileExtraData` behind each descriptor (shared memory or a file), `use_shared_mem` | `my_fopen .. my_close`, `save_mapping`, `get_mapping`, `clean_mapping_data`, `init_mapping_data` | the engine; handles |
| xhook core | `xhook/xh_core.c` | hook and ignore lists, the tree of mapped ELFs, a refresh thread and its flags | `register ignore refresh clear` | `/proc/self/maps`, xhook ELF |
| xhook ELF | `xhook/xh_elf.c`, `xh_util.c` | the parsed dynamic section of an ELF | symbol lookup (two hashes), relocation iterators, replacing a slot | process memory |
| zip records | `zip/ZipEntry.*`, `zip/ZipFile.cpp:1200-1290` | local header, central directory record, end record | reading, writing, padding | `init` |
| memory-pool map | `map/` | a tree in a pool | insert, find, erase | unused by the rest |
| locks, singletons, logging, versions, BSD containers, declarations | `pthread_*`, `singleton.hpp`, `log.h`, `xhook/tree.h`, ... | - | - | - |

What is hard in it:

* **Arithmetic over the whole archive.** Every entry of the shadow apk is placed
  relative to all entries before it. Entries are merged with their neighbours,
  padded to keep stored data aligned (which moves their header to another file),
  replaced, removed and added. One slip and the engine reads another asset.
* **Reads that walk the table**, over empty partitions, over more files than may
  be open at once, with a position that the caller moves at will.
* **Decisions that outlive the process.** A patch is set up in one process and
  taken up in a later one; the process may be killed between any two calls, a
  call may fail, the game may change its mind, the package may be updated.
* **Hooks installed from another thread** while the start goes on, and
  descriptors shared by threads.

`PROJECT.json` lists each hazard at its line with the properties that cover it
or the reason why none does.

## Modules

| module | what it is | EXTENDS |
|---|---|---|
| `ShadowLayout` | the partition table; `Tiles` and `Maps`, what a table means | |
| `ShadowZip` | `ShadowZip::init` as a state machine | `ShadowLayout` |
| `MCShadowZip` | packages for TLC | `ShadowZip` |
| `ShadowZipProofs` | type correctness and the arithmetic of one placement | `ShadowZip` |
| `ShadowZipContentProofs` | the theorems about the layout and the central directory | `ShadowZipProofs` |
| `FlatFile` | abstract: one read-only file and its calls, a step each | |
| `ShadowReader` | one reading handle, a partition per step; implements `FlatFile` | `ShadowLayout` |
| `MCShadowReader` | tables for TLC | `ShadowReader` |
| `ShadowReaderProofs` | the theorems about a handle, and that it is one flat file | `ShadowReader` |
| `PlainFiles` | abstract: descriptors, a step per call | |
| `FileMapping` | hooks, handle table and their set-up, in several threads; implements `PlainFiles` | |
| `MCFileMapping` | two threads for TLC | `FileMapping` |
| `FileMappingProofs` | the theorems about lookups and handles, and that the hooks are plain files | `FileMapping` |
| `PatchLifecycle` | the files of a patch over many processes | |
| `MCPatchLifecycle` | two patches for TLC | `PatchLifecycle` |
| `PatchLifecycleProofs` | the theorems about `user.db` and the library | `PatchLifecycle` |
| `XhCore` | xhook's registrations, refreshes and clear, in several threads | |
| `MCXhCore` | two threads and two libraries for TLC | `XhCore` |
| `XhCoreProofs` | the theorems about refreshes, the ignore list and clear | `XhCore` |
| `XhElf` | hooking symbols in one mapped ELF | |
| `MCXhElf` | a small linker: images for TLC | `XhElf` |
| `XhElfProofs` | the theorems about pages, lookups, the packed table and slots | `XhElf` |
| `ParseApk` | reading the directory of a zip, field by field | |
| `MCParseApk` | archives for TLC, whole and cut short | `ParseApk` |
| `ParseApkProofs` | the theorem about what is read of an archive | `ParseApk` |

Three modules stop where another begins. `ShadowZip` takes the list of entries
that `parse_apk` hands it as a record; `ParseApk` shows which list that is.
`XhCore` takes the parsing of one ELF and the replacement of the slots of one
symbol as a step each; `XhElf` shows which slots that writes, and in which order.
`FileMapping` takes the slots of one library as what `InstallHook` sets.

### FileMapping and PlainFiles

`FileMapping` composes three parties: `bootstrap`, which sets `use_shared_mem`
and `rt_fd_mappings` (`InitAshmem InitDir InitUnlink`), the thread of xhook,
which writes one slot after the other (`InstallHook`), and the threads of the
engine. `th[t]` is where a thread is in its call; a step is one system call or
one access to what threads share.

| code | actions |
|---|---|
| `my_open`, `my_fopen`, `save_mapping` | `OpenReal`, `OpenApk` and then `SaveMem`, `SaveFile` (whole or short) or `SaveFails` |
| `get_mapping` | `Begin`, then `LookupMem`, or `LookupFile LookupPos LookupRead LookupRewind` |
| `my_read my_fread`, `my_lseek my_fseek`, `my_close my_fclose` | `ReadReal ReadShadow`, `SeekReal SeekShadow`, `CloseReal` |
| `clean_mapping_data` | `CleanMapping CleanClose CleanDelete` |

`fd_table` is the kernel's: the descriptor of a shadow apk has kind `shm` (an
ashmem region), `map` (a file) or `short` (a file that was not written whole), and
holds the address of its `FileExtraData`;
`mem` says which addresses are allocated, with the position of the handle. Few
numbers and addresses make reuse frequent. `MayCall` says what the engine is
taken to do: it uses open descriptors, one call at a time, save that several
threads may use a *real* file when the lookup goes by ashmem and leaves it alone.

System calls fail at any time. A save whose `fopen` or `mmap` fails ends the
process (`SaveFails`). The results of the `fwrite` and `fflush` at
file_mapping.h:146-147 are not looked at, and the file may stay short. A lookup
whose `fstat` (174), `mmap` (181) or `read` (206) fails finds nothing, and neither
does any lookup of a short file: the hook then takes the descriptor for one of a
real file, reads the `FileExtraData` to the engine, or closes the descriptor and
leaves handle, record and file behind. `lost` is a history variable, the handles
this has happened to; the properties say that it happens to no others. What the
model does take for granted: `lseek` on an open file and the `unlink` at 241
succeed, and a `fstat` of the ashmem device at the start is part of whether there
is one (`ashmem`).

`PlainFiles` is what the engine believes: a descriptor is one file with one
position, unless a failing system call has lost it (`Lose`); from then on it tells
nothing certain (`UseLost`), and all others are as they were. `FileMapping`
implements it; `Visible` puts back the position that a lookup by file has moved
for a moment.

### ShadowZip

A step is one iteration of one of `init`'s loops, with all of
`add_entry_to_partition` in it. `pc` names the loop and `i`, `j` its indexes:

| `pc` | code | actions |
|---|---|---|
| `parse_patch`, `scan` | 322-389 | `NoPatches ParsePatch ParseFails DupPatchFile SkipPatchFile RecordPatchFile NextPatch ParseApk` |
| `place` | 397-412 | `SkipApkEntry PlaceApkEntry ApkPlaced` |
| `append` | 413-424 | `SkipUsedEntry AppendPatchEntry NextPatchAppended AllAppended` |
| `directory` | 426-448 | `WriteCDE Finish` |

A `ZipEntry*` is a pair of file and index. `entries` holds the three fields that
`init` assigns (offset, length of the extra field, `mUserData2`); `Rec` gives
those it only reads. `Merge`, `NewPartition` and `PadHeader` are the three
branches of `add_entry_to_partition`, told apart by the code's own conditions.
Contents are abstract: an entry is known by its lengths, and `Maps` says that a
range of the shadow apk *is* a range of a real file. A directory, which
`parse_apk` drops, stays in its archive's list and is stepped over, so that it
still separates its neighbours. A parse that fails, a full disk when a header is
written and a duplicate name end `init` as in the code. The writes of
`.patch.data` are not checked by the code and do not fail in the model. The
headers go through a buffer, too, whose last part is written when
`~FileHandleReleaser` closes the file (shadow_zip.cpp:19), unchecked: a disk that
gets full only then is not modelled either.

### ShadowReader and FlatFile

The variables are those of class `ShadowZip`, with the locals of a running
`fread` (`begin end i ret`, and `got`, the bytes in the caller's buffer). A byte
is named by its real file and offset. A read begins (`Read`), skips partitions,
reads one partition per step, and ends in one of three places, as in the code.
`prepare_file` is `Prepared`, or `CannotOpen` when `::fopen` returns NULL.
Sizes of requests are taken modulo `2^IntWidth` where the code casts to `int`.
`fread` is modelled with `size = 1`, the call `my_read` makes.

`FlatFile` is what the callers believe they have. `ShadowReader` implements it
under the mapping `content[x]` = the byte the table gives for `x`, `pos` =
`pos_ - ret` (a read that is going on has not happened yet for the caller).

### PatchLifecycle

One step per call that changes a file. `pc` is where the process is:
`boot_*` in `extract_patch_info`, `use_*` in `use_data_dir`, `idle` in the game,
`off` when there is none. A library is known by its patch and by whether it was
copied whole, `user.db` by its patch, the apk its table is for, whether it is
whole, and whether the apk is newer than it. Around the process are `Crash`,
`Quit`, `UpdateApk` (same path or another), and the game's `ProvideNew` and
`DeleteDir`.

`setting`, chosen at the start and never changed, says what a device, a player
and a game do to each other: which calls fail, `"disk"` (and report it) or
`"flush"` (data is lost in `fclose`, whose result is ignored at
bootstrap.cpp:218), how many updates and kills there are, and whether the game
is `careful`, that is, keeps to the comment at bootstrap.cpp:142: one
`use_data_dir` per start, on a directory whose library has its `.new` name.
`unlink` and `rename` themselves do not fail.

### XhCore

Threads of the program (`Callers`, one of which is the `Clearer`) call
`xh_core_register`, `ignore`, `refresh` and `clear`; `Refreshers` are what
`pthread_create` returns. A step is a critical section or an access to shared
state outside of one: a flag, the lists, the memory of an ELF, its slots; `pc`
says where each thread is. The dynamic loader (`Load`, `Unload`) is a party of
its own that maps and unmaps libraries between any two steps.

| code | actions |
|---|---|
| `xh_core_register`, `xh_core_ignore` | `Register RegisterInsert`, `Ignore IgnoreInsert` |
| `xh_core_refresh`, `xh_core_init_once`, `xh_core_init_async_once` | `Refresh`, `InitOnce InitLocked InitSet InitCheck`, `InitAsyncOnce InitAsyncLocked InitAsyncSet InitAsyncCheck`, `Request` |
| `xh_core_refresh_thread_func` | `While TakeTask SpuriousWake` |
| `xh_core_refresh_impl` | `BeginScan ReadLine CheckPath`, `NotElf KnownElf NewElf` or `Fault`, `EndScan Scanned` |
| `xh_core_hook`, `xh_core_hook_impl` | `InitElf`, then `NextHook WriteSlots` in turn, or `Fault` |
| `xh_core_clear` | `Clear ClearBegin ClearStop ClearJoin ClearFlags ClearLock ClearLists` |

A refresh goes through the lists without `xh_core_mutex`, under which `register`
and `ignore` insert, so an entry may come between any two of these steps. To go
through one list is a single access all the same: lists grow at their end only
while a refresh runs (`NothingFreedInScan`), so a walk that stops at an entry or at
the end finds what it would have found at the moment it stopped. (The insertion is
a plain write that the walk may race with; the model takes it as one write, after
the entry itself has been written, as the order of the code has it.) What is
ignored is decided hook by hook from the path of the *line* (`CheckPath`,
`NextHook`); an ignore that comes after a hook was judged and before its slots are
written (xh_core.c:284) is too late. `IgnoredNotHooked` therefore speaks of what
was ignored when the line was read, for which `scan.ignores` keeps the length of the list (history). The
loader may replace the ELF between the reading of its line, of its tables and the
writing of its slots: what the tables of another ELF lead to (`Stale`) is any slot
or a fault.

A regex is the set of paths it matches. `hooked` is what the slots of what is
mapped now hold; an ELF mapped anew has its own slots again. Three things that
the code does limit what can be promised, and the properties say so by name:
what is registered when ELFs have a record already is not hooked in those
(`late`); an ELF that goes and comes back at the same address keeps its record
and is not hooked again (`again`); and the first hook of a path that an entry of
the ignore list forbids makes xhook skip the ELF (`Untouched`). The handler for
the signal of a line whose memory has gone is commented out in the code, so
`Fault` ends the process.

### XhElf

One ELF, one step per turn of a loop. `pc` goes `init dynamic check`, then for
each symbol `next`, through one of the tables (`sysv`, or `bloom gnu undef`),
and through the relocations (`plt leaveplt dyn packed0 packed`). A relocation
that matches leaves the loop for `compare unlock save write restore`, where each
access to the slot and to the protection of its page is a step of its own, since
other threads may call through the slot at any time.

An image is a record: its header tests, program headers, dynamic section, what
lies at each address, and the protection of each page. Beside these it has
`names` and `linked`, what the linker was *asked* to put in. The code never sees
them; the properties compare with them. `MCXhElf` is that linker: it lays out
the symbols for either hash table, and the relocations into plain tables and
into groups of a packed one, by every flag. Hash functions are a constant, with
collisions in the bucket and in all but the lowest bit. The values of the packed
table are LEB128 in words of `WordSize` values, and the deltas are negative in
some images. A relocation is one unit: that the stride of a plain table
(xh_elf.c:92) hangs on `is_use_rela`, which only DT_PLTREL sets (823-826), so that
a `.rela.dyn` in an image without DT_PLTREL is walked in steps of the wrong size,
cannot be seen here. `mprotect` and the reading of a protection fail in any step if
`Fails`; a slot that is in no page of the ELF ends the process (`Faults`). What
it means that an image is laid out as the formats say is defined in `XhElf`
independently of the linker and of the code: `HashesSound`, `RelocsSound`,
`PackedSound`. TLC evaluates all three on every image (`SoundAssumption`). For
the packed table `linked.packed` says how the linker wrote it: the group of each
relocation, and the byte where what is for it begins. `PackedBytes` then says of
the bytes that each of these numbers is there, by `Encodes`, which goes from the
number to its bytes, as a writer does; the decoder of the code (`Signed`,
`Decoded`) goes from the bytes to the number. The dumps of `xh_elf.c` (551-755)
are compiled with `XH_ELF_DEBUG` only.

### ParseApk

A file is a sequence of cells: a record's header is two (signature and fields),
a name one, extra fields, comments and data as many as their length. Positions,
lengths and the search for the end record are in cells. The writers
`LocalFileHeader`, `CentralDirEntry` and `EndOfCentralDir` are those of the code
(`ZipEntry::...::write`); the readers are the actions
`Open Search ReadEocd ReadCDE ReadLFH CheckEocd`, with every error path of theirs
but a failing `fseek`. Entries have a name, and a comment or extra field does
not contain a signature; the data of an entry may (a stored zip).

A file says of itself whether it is a whole archive (`sound`), what it was made
of (`entries`), and where each of its records lies (`layout`). The reader sees
none of this. `IsWhole` says what a whole archive has to have there: at each
place of the directory a record, at the place that it names a local header, and
behind the end record nothing but the comment, in which no other end record
begins. `IsNone` says of any other file that no signature of an end record in it
leads to a directory. TLC evaluates both on every file (`FilesAssumption`). The
data of the entries and what lies between the records are free. An archive that
is damaged in another way, with a directory that can be found and a record in it
that cannot, is neither and is left out.

## What the runs check

| run | bounds | checks |
|---|---|---|
| `shadow_zip` | apk of 0-3 entries of 3 kinds; one patch zip of up to 2 entries or two of one; at most one removed name; a broken archive and one with a directory on either side | `TypeOK Tiling InBounds Aligned ContentMapped EndToEnd DirectoryOffsets DirectoryExact`, `Terminates` |
| `shadow_zip_removed` | the same with apks of 0-1 entries | **violated**: `RemovedUnlisted` |
| `shadow_reader` | 4 partitions of 0 or 2 bytes in 4 orders of files; requests of 0, 1, 3, 7, 8; seeks by -1, 0, 3; ints of 4 bits | `TypeOK NoGap OneFileOpen`, `ReadsAsOneFile` (refinement), `ReadReturns` |
| `shadow_reader_lines` | the same without newlines | **violated**: `LineMapped` |
| `patch_faults` | 2 patches; all faults, 1 update and 1 kill; `"disk"` and 1 kill; 3 kills; a careful game undisturbed | `TypeOK DbNeverTorn TableMatchesApk SoMatchesPatch CopyMade`, `BootEnds`, `PatchTakesEffect` |
| `patch_leftover` | 2 patches, a careful game, 1 update | **violated**: `LibraryCopied` |
| `file_mapping` | 2 threads, 2 descriptors, 2 addresses, files of 1 unit, with and without ashmem and directory, saves and lookups that fail; the engine starts when the hooks are in | `TypeOK LookupsFindHandle NothingLeft`, `HooksAreFiles` (refinement) |
| `file_mapping_early` | the same, the engine running from the start | **violated**: `ApkReadsMapped` |
| `xh_core` | 2 threads of the program with 2-3 calls each, 2 library threads, 2 libraries, 2 symbols, 2 addresses; one load; with and without failing calls, ignore entries, late registration, overlapping clear | `TypeOK RecordedHooked NoThreadAfterClear`, `NothingFreedInScan IgnoredNotHooked` (actions), `ClearEnds RequestTakesEffect` |
| `xh_elf` | about 1,600 images: both hash tables, up to 3 symbols of 4 names, plain and packed tables by every flag of a group, two pages; words of 16 bits | `TypeOK LookupExact PackedExact SlotsReplaced OldBeforeNew ProtRestored` |
| `xh_elf_first` | one image: a symbol whose only slot is in the first relocation of `.rel.plt` | **violated**: `EveryRelocation` |
| `parse_apk` | up to 3 entries of 5 kinds, comments of 0-2 cells; each archive whole and cut at every length; several volumes | `ParseExact` |

Why the bounds are enough: the layout of an entry depends on the entry before it
and on the sums of the lengths, so three entries from an archive, with one that
is replaced, removed or added between two others, meet every pair of branches;
the lengths of the kinds differ modulo 4, so each padding occurs. (The layout
invariants are also proved, without bounds.) A read meets at most: begin inside
a partition, cross whole ones and empty ones, end inside one or at the end; four
partitions of which two may be empty give all of these, and 7 and 8 are the
largest and smallest count on the two sides of the cast. Two patches let each
replace the other and be rolled back to; one update is enough to make a table
stale, two to bring back a path. Two threads, descriptors and addresses let
every pair of steps of an open, a call and a close meet, on the same number or
another, and a number or address be used again while its last user is still
closing it; a file of one unit has the two positions that a lookup tells apart,
at the start and not (the theorems are about files of any length). In xhook, two
libraries and two symbols with a hook that matches one of them and one that
matches both give every case of the ignore list, which looks at the first hook
of a path and at each; two threads beside the library's own let each flag be
read by one between two writes of another. A value of the packed table takes one
to three bytes in words of 16 bits, with the last byte inside the word and
across its end (with more, the code would shift by more than the width of a
word, which C leaves undefined; `PackedSound` leaves that out). An archive that
is cut anywhere loses the end record, part of it, or all behind some entry of a
stored zip, whose own end record is then the last of the file.

### Findings

* `RemovedUnlisted`: a name in `removed_files.txt` that is also in a patch zip is
  left out of the lookup (shadow_zip.cpp:373) but appended by the last loop, and
  so stays visible. `Readme.md:34` says deleted files cannot be accessed.
* `LineMapped`: `fgets` reads on past its partition (shadow_zip.cpp:625). With
  newlines at the end of every partition it is equal to a flat file's, which
  `shadow_reader` shows.
* `EveryRelocation`: `xh_elf_plain_reloc_iterator_next` steps on before it
  returns a relocation (xh_elf.c:92), so the first of each plain table is never
  examined and the memory behind the last one is. A symbol used only there is
  not hooked, and the hook reports success; in the run the symbol's one slot is
  that of the first relocation of `.rel.plt`. `SlotsReplaced` is what does hold:
  all slots but those.
* `LibraryCopied`: `copy_file` refuses an existing `data/files/*.new`
  (bootstrap.cpp:82), its caller ignores this and goes on, so a file left over
  from an abandoned or half copied patch is what the next start loads.
* `ApkReadsMapped`: the hooks go in from another thread, one by one, opening
  before reading, and nothing holds the engine back (bootstrap.cpp:760). An apk
  opened in between is read without a hook: the caller gets the bytes of the
  `FileExtraData`. Whether the engine is that early depends on when the game
  calls `Boostrap.init`, which is not in this repository; the constant `Early`
  tells the two cases apart.

One more came up with the proof of `LookupExact` and has no run: `xh_elf_init`
reads DT_HASH and DT_GNU_HASH into the same `bucket` and `chain`
(xh_elf.c:856-881). If DT_HASH comes later, the lookup is the GNU one, for
`is_use_gnu_hash` stays 1, over the chains of the other table; a symbol that is
there is not found, and the hook returns 0. `HashesSound` says so in its last
line, and `LookupExact` is about images with the tables in the other order, or
with one of them.

### Fairness

`ShadowZip` is one sequential call: `WF_vars(Next)`. In `ShadowReader` only the
steps of a read that has begun are fair; nobody has to call. In
`PatchLifecycle` a start is fair (`BootStep`, which includes the player's
starting the game: `PatchTakesEffect` and `BootEnds` say what starts lead to);
what the game does, kills, faults and updates are not. Kills are bounded by
the setting, so from some time on a start is let to its end. `BootEnds` is
checked without `"flush"`: a torn `user.db` does make every start exit.
In `XhCore` a thread inside a call, and the library's own thread, go on if they
can: the scheduler runs them, and a mutex is not kept from one for ever since
the calls of the others are bounded. Nobody has to make a call, the loader has to
do nothing, and a spurious wake-up need not happen. `ClearEnds` is checked where
clear is alone, as its join requires (two of them would join one thread).
`FileMapping`, `XhElf` and `ParseApk` state safety only.

## What is proved

All theorems hold for every value of the constants that the named assumptions
allow, which TLC evaluates in the runs.

**ShadowZip**, from `InputsAssumption` (entries lie in their archives; the apk
has no name twice, as the package manager ensures):

| theorem | states |
|---|---|
| `TypeCorrect` | `Spec => []TypeOK` |
| `TableTiles` | `Spec => []Tiling` |
| `PartitionsInBounds` | `Spec => []InBounds` |
| `EntriesReadBack` | `Spec => []ContentMapped` |
| `StoredDataAligned` | `Spec => []Aligned` |
| `EntriesEndToEnd` | `Spec => []EndToEnd` |
| `OffsetsWritten` | `Spec => []DirectoryOffsets` |
| `DirectoryIsIntended` | `Spec => []DirectoryExact` |
| `DirectoryListsHeld` | `Spec => []ListsHeld`: what the directory lists for any package, removed files that a patch brings included |

None of these is inductive by itself. `Tiling` needs `LastPartition` (a merge
grows the partition that `pre_file_index` and `pre_file_stop` describe).
`ContentMapped`, `Aligned` and `EndToEnd` also need `PlacedOnce`: an entry that
is not placed yet still has the offset and extra field of its archive, and an
entry is never placed twice, which rests in turn on the uniqueness of names in
the apk and on `filename_2_entry` being keyed by the name of its entry. The
proofs split a placement into its three branches once, as lemmas about the table
before and after, and each invariant then cites those. The directory needs
`DirectoryInv`: which entries the three loops have been through, in the order
`Before` of files and indexes (`PlacingInv`), that the lookup has just the
patches' names that are not removed, that `mUserData2` marks the entries the
second loop took, and that the records written so far are those of
`all_entries`, in order.

**ShadowReader**, from `ShadowsAssumption` (a table that tiles, as `TableTiles`
has it), `RequestsAssumption` and `WidthAssumption`:

| theorem | states |
|---|---|
| `Typed` | `Spec => []TypeOK` |
| `ReadsInPartition` | `Spec => []NoGap` |
| `HandleOpensOne` | `Spec => []OneFileOpen` |
| `CallsAreFlat` | every step is one of `FlatFile`, a stutter, or an `fgets` |
| `HandleIsOneFile` | `Spec /\ LinesEnd => ReadsAsOneFile` |

The invariant has `Progress` (a read is at `begin`, which is the position, and
what is before partition `i` is before it), `OneOpen`, and for the refinement
`Delivered` (the bytes in `got` are those of the flat file between where the
read began and where it is). `LinesEnd` says that every partition with bytes
ends with a newline; without it `fgets` is wrong, as `shadow_reader_lines` shows,
which is why `CallsAreFlat` leaves it out.

**FileMapping**, from `LengthAssumption`, `EarlyAssumption`, `NoneAssumption`
and `NoFileAssumption` (`None` is none of the values), for any number of threads,
descriptors and addresses:

| theorem | states |
|---|---|
| `Typed` | `Spec => []TypeOK` |
| `HandlesLive` | `Spec => []FoundHandleLives`: a handle that was found is not freed while it is used |
| `LookupsRight` | `Spec /\ ~Early => []LookupsFindHandle` |
| `LeavesNothing` | `Spec /\ ~Early => []NothingLeft` |
| `Implementation` | `Spec /\ ~Early => HooksAreFiles` |

`~Early` means that the engine opens no file before the bootstrap is through,
the hazard `file_mapping_early` shows. `SafeInv` holds either way: types, who may
use which descriptor at a time (`UsedOpen`, `Exclusive`), what a call has found
is what is behind its descriptor (`Maps`), and every allocated `FileExtraData`
has one owner, a descriptor or a call that opens or closes (`Live`, `OneOwner`).
`Inv` adds that every descriptor is of the kind `use_shared_mem` says or was lost
when it was saved short (`Backed`), what a call on its way through `get_mapping`
knows so far (`Knows`: it has the handle, or there is none, or it was lost), that a
file with a `FileExtraData` is at its start unless a lookup is reading it or one
has failed (`AtStart`), and that each address and name in the directory is
somebody's or lost (`Owned`, `Named`). The failing calls are part of every step;
nothing is assumed of when they fail.

**PatchLifecycle**, from `NoneAssumption` and `SettingsAssumption`, for any
number of patches, crashes and updates:

| theorem | states |
|---|---|
| `PatchTypeCorrect` | `Spec => []TypeOK` |
| `UserDbNeverTorn` | `Spec => []DbNeverTorn` (unless `fclose` loses data) |
| `TableIsOfApk` | `Spec => []TableMatchesApk`, whatever fails |
| `LibraryOfPatch` | `Spec => []SoMatchesPatch`, in settings that are `Undisturbed` |
| `LibraryCopyMade` | `Spec => []CopyMade`, in the same |

`UserDbNeverTorn` is strengthened by `TmpWhole` (from the end of the writing to
the rename, `user.db.tmp` is whole). `TableIsOfApk` is strengthened by
`FreshInv`: the table in `user.db.tmp` is of the installed apk while
`use_data_dir` runs, the one in `user.db` is unless the apk is the later file,
and a start that goes past the comparison at bootstrap.cpp:331 has one that is.
It rests on the model's assumption that an update is *later* than any `user.db`
before it: the code compares whole seconds. The two about the library need
`CareInv`: between two uses no `.new` file waits but the one `user.db` is about,
whole, and a start moves it before it opens the library. Their hypothesis is
part of the properties; what happens without it is the finding `LibraryCopied`.

**XhCore**, from `ThreadsAssumption`, `ClearerAssumption`, `HooksAssumption`,
`NoneAssumption`, `MaxBaseAssumption` and `SettingsAssumption`, for any number of
threads, calls, libraries, hooks and loads:

| theorem | states |
|---|---|
| `XhCoreTypeCorrect` | `Spec => []TypeOK` |
| `RecordedElfHooked` | `Spec => []RecordedHooked` |
| `NothingFreedUnderRefresh` | `Spec => NothingFreedInScan` |
| `IgnoredStaysUnhooked` | `Spec => IgnoredNotHooked` |
| `ClearLeavesNoThread` | `Spec => []NoThreadAfterClear` |

Types rest on `UnderRefreshMutex` (a thread in a refresh holds that mutex), from
which `NothingFreedInScan` follows at once. `RecordedHooked` looks at one moment,
between refreshes; it needs both trees at every moment (`AllReplaced`), the new one
without the ELF that is being worked on (`Left`), of which the hooks up to the one
that `xh_core_hook_impl` has reached are in (`Progress`), that the trees and the
line at work name only what was mapped there (`Seen`: what the loader maps later
at such an address is marked `again`), and that the new tree is empty when no
refresh runs (`Quiet`: otherwise a registration then could not go unmarked). `NoThreadAfterClear` needs `ThreadInv`: one thread at most, whose
id is `tid`, the two flags about it true unless its starter is about to set
them, and clear alone. `IgnoredNotHooked` needs `IgnoreInv`: what was ignored when
the line was read is still in the list at the same places, and the hook that is
about to be made was judged with at least that list; that its verdict is right needs
that the first entry of a non-empty set of entries exists, which is the
well-foundedness of `<`.

**XhElf**, from `ImagesAssumption` (what a record must have to be an image),
`NamesAssumption` and `HashAssumption`, for any images, symbols and hash
functions, any sequence of hooks, and `mprotect` failing at any step:

| theorem | states |
|---|---|
| `PagesGetBack` | `Spec => []ProtRestored` |
| `LookupIsExact` | `AllHashesSound => (Spec => []LookupExact)` |
| `TypeCorrect` | `AllHashesSound /\ AllPackedSound => (Spec => []TypeOK)` |
| `PackedIsExact` | `AllHashesSound /\ AllPackedSound => (Spec => []PackedExact)` |
| `HookReplacesSlots` | `AllHashesSound /\ AllRelocsSound /\ AllPackedSound => (Spec => []SlotsReplaced)` |
| `OldIsSetFirst` | the same for `OldBeforeNew` |

`AllHashesSound`, `AllRelocsSound` and `AllPackedSound` say of every image that,
if it is accepted at all, its tables are what the formats ask for: each symbol
is reachable in the chain of its bucket (`SysvSound`), or is in the filter and
between the first symbol of its bucket and the end of its chain, or else before
`symoffset` (`GnuSound`); DT_HASH is not behind DT_GNU_HASH; the plain tables
are where the dynamic section says; the packed one has a number in its bytes for
each field the flags of its groups ask for; no two symbols share a slot; and
what lies *behind* a plain table, which the code examines too, is not of a type
the code replaces. The last two are about the linker, not the code: without them
a hook does write to other slots.

* `ProtRestored` needs that `slot.was` is the protection the page had, unless it
  was left open by an earlier failure, and that all other pages rest (`PagesInv`).
* `LookupExact` needs what `self` holds after each entry of the dynamic section
  (`SelfRead`) and, in a chain, that the symbol of the name is still *ahead*
  (`Ahead`): in a SysV chain every closed set of indices that has the current one
  has the symbol; in a GNU chain no earlier hash ends the chain. A step that
  passes a symbol by has compared its name.
* `PackedExact` needs where the packed table is and whether the image has addends
  (`AndroidRead`, as the dynamic section says) and that the iterator is where the
  linker began what comes next: `PackedAt(it, n)` has the byte it is at, the
  offset so far, the group and what is left of it, after `n` relocations
  (`PackedGo`, in the table and while a slot is replaced). One number is read
  right because what the code adds up from the last byte on and what is left of
  the number from the first byte on agree at each byte (`Decodes`); offsets and
  deltas are added in words, so that negative ones come out right (`StepModulo`).
  A table may announce more than it has, if the group that would follow is one
  the code refuses (`StopIs`).
* `TypeOK` needs the lookups' bounds from `Ahead`, and that all fields of the
  iterator are words (`OfWords`).
* The slots need where the plain tables lie (`TablesRead`), what each table has
  had so far (`WalkInv`: up to `i` in a plain one, up to `Len(given)` in the
  packed one, every slot of the symbol is written, but for the one in hand), and
  what memory holds (`MemInv`: a slot has its original, or the function of the
  one symbol it is a slot of, whose `old` is set). That `old` never becomes the
  new function follows from the comparison that precedes it and from no two
  symbols sharing a slot.

The decoder and its inverse are recursive functions, and induction over them is
out of reach as such: the theorems of the library take an operator as parameter.
Their equations are found to have a solution for every number of bytes from there
being a least number for which they would have none (`LeastNat`, from the
well-foundedness of `<`), as `SignedExists` and `RestExists` do, and that the two
agree in the same way.

**ParseApk**, from `MaxAssumption` and `FilesAssumption`, for any files:

| theorem | states |
|---|---|
| `ParsesWhole` | `Spec => []ParseExact`: whole archives are read exactly, files without a directory that can be found refused |

For a whole archive the invariant (`WholeInv`) says that the search has not gone
past the end record, where the `FILE*` is in each state (at the next record of
the directory, or at the local header it names, with the place to come back to in
`posn`), and that what was handed out so far are the entries of the records read
so far that are no directories (`HandedOut`). For any other file `NoneInv` says
that an end record that was found leads to no directory. That an archive stored
in another does no harm rests on the search going backwards and on the comment
having no end record in it.

**Only model-checked.** Liveness (`Terminates`, `ReadReturns`, `BootEnds`,
`PatchTakesEffect`, `ClearEnds`, `RequestTakesEffect`), which is beyond TLAPS
with fairness and `ENABLED`. Every other property of the passing runs is stated
by a theorem.

## What is not modelled, and the plan

Not modelled: logging, version strings, generated headers, the vendored BSD
containers, `zip/main.cpp` (not built), the unit tests (experiments without
assertions about the library). Of `ZipEntry`, what nothing calls: `initNew`,
`initFromExternal`, `setDataInfo`, the conversions of times and the data
descriptor; of `ZipFile.cpp`, all but the end record is commented out. Of the
hooks, `my_stat` and `my_dlopen` (a path is replaced, nothing is kept), and
`my_ftell` and `my_fgets` in `FileMapping`, whose lookup is that of the others;
what they do to a handle is in `ShadowReader`. Of xhook, two calls of clear at a
time, the dumps, and `xhook.c` and `xh_jni.c`, which forward.

Next, in this order:

1. Two threads on one handle; `ShadowZip` and `ShadowReader` over shared files,
   for `init` into the directory of the running patch.
2. Two clears at a time in `XhCore`.
3. The memory-pool map and the spin lock, which no built source uses.
