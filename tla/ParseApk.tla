------------------------------ MODULE ParseApk ------------------------------
(***************************************************************************)
(* Reading the directory of a zip (parse_apk of src/zip/shadow_zip.cpp,    *)
(* with EndOfCentralDir of ZipFile.cpp and ZipEntry.cpp): the end record   *)
(* is looked for from the end of the file, the central directory is read   *)
(* from where it says, and for each entry the header in front of its data. *)
(*                                                                         *)
(* A file is a sequence of cells.  A header takes two: its signature, and  *)
(* its fields; a name takes one, extra fields and comments as many as      *)
(* their length.  Calls and positions of stdio are in cells.               *)
(***************************************************************************)
EXTENDS Integers, Sequences

CONSTANTS
    Files,        \* what may be found at the path, see Init
    Directories,  \* the names that end with '/'
    None,
    kMaxCommentLen

ASSUME MaxAssumption == kMaxCommentLen \in Nat

kLFHLen == 2
kCDELen == 2
kEOCDLen == 2
kDDLen == 1
kMaxEOCDSearch == kMaxCommentLen + kEOCDLen

VARIABLES
    file,     \* [cells, sound, entries, layout]: all but the first for the properties
    fp,       \* position of the FILE*, None while it is closed
    pc,
    i,        \* of the search for the end record
    eocd,     \* fields of the end record, None until read
    entry,    \* of the loop over the directory
    cde,      \* of the ZipEntry being read
    posn,     \* in initFromCDE
    entries,  \* _all_entries
    result

vars == <<file, fp, pc, i, eocd, entry, cde, posn, entries, result>>

-----------------------------------------------------------------------------
(***************************************************************************)
(* The records, as LocalFileHeader::write, CentralDirEntry::write and      *)
(* EndOfCentralDir::write lay them out.  An entry has a name, its own      *)
(* extra fields in either header (extra, cextra), a comment, the offset of *)
(* its local header, its data, and may have a data descriptor.             *)
(***************************************************************************)
Signature(kind) == [is |-> "signature", kind |-> kind]
Fields(of) == [is |-> "fields", of |-> of]
Text(text) == [is |-> "text", text |-> text]
Filler(n) == [k \in 1..n |-> Text("filler")]

LocalFileHeader(e) ==
    <<Signature("LFH"), Fields([extra |-> e.extra, dd |-> e.dd]), Text(e.name)>> \o Filler(e.extra)
CentralDirEntry(e) ==
    <<Signature("CDE"), Fields([extra |-> e.cextra, comment |-> e.comment,
                                size |-> Len(e.data), offset |-> e.offset]), Text(e.name)>>
    \o Filler(e.cextra) \o Filler(e.comment)
EndOfCentralDir(num, total, disk, offset, comment) ==
    <<Signature("EOCD"), Fields([num |-> num, total |-> total, disk |-> disk,
                                 offset |-> offset, comment |-> comment])>>
    \o Filler(comment)

\* ZipEntry.h 94-98: where an entry ends in its file.
EntryEnd(e) ==
    e.offset + kLFHLen + 1 + e.extra + e.size + (IF e.dd THEN kDDLen ELSE 0)

-----------------------------------------------------------------------------
FileLength == Len(file.cells)
IsAt(pos, kind) == file.cells[pos + 1] = Signature(kind)
FieldsAt(pos) == file.cells[pos + 2].of
CanRead(n) == fp + n <= FileLength

Init ==
    /\ file \in Files
    /\ fp = None /\ pc = "open" /\ i = 0 /\ eocd = None /\ entry = 0
    /\ cde = None /\ posn = 0 /\ entries = <<>> /\ result = None

Goto(step) == pc' = step /\ UNCHANGED result
Fail == pc' = "done" /\ result' = -1

\* Lines 53-92: opened, or not, and long enough; the buffer is the end of the
\* file.
Open ==
    /\ pc = "open"
    /\ \/ Fail /\ UNCHANGED <<fp, i>>
       \/ FileLength < kEOCDLen /\ fp' = 0 /\ Fail /\ UNCHANGED i
       \/ FileLength >= kEOCDLen /\ fp' = FileLength /\ i' = FileLength - 1 /\ Goto("search")
    /\ UNCHANGED <<file, eocd, entry, cde, posn, entries>>

SeekStart == IF FileLength > kMaxEOCDSearch THEN FileLength - kMaxEOCDSearch ELSE 0

\* Lines 95-106
Search ==
    /\ pc = "search"
    /\ \/ i < SeekStart /\ Fail /\ UNCHANGED i
       \/ i >= SeekStart /\ IsAt(i, "EOCD") /\ Goto("eocd") /\ UNCHANGED i
       \/ i >= SeekStart /\ ~IsAt(i, "EOCD") /\ i' = i - 1 /\ Goto("search")
    /\ UNCHANGED <<file, fp, eocd, entry, cde, posn, entries>>

\* EndOfCentralDir::readBuf (ZipFile.cpp, 1213-1250): nothing is cut off.
ReadBufFails ==
    \/ FileLength - i < kEOCDLen
    \/ kEOCDLen + FieldsAt(i).comment > FileLength - i

\* Lines 108-145
ReadEocd ==
    /\ pc = "eocd"
    /\ IF ReadBufFails \/ FieldsAt(i).disk # 0 \/ FieldsAt(i).num # FieldsAt(i).total
       THEN Fail /\ UNCHANGED <<fp, eocd>>
       ELSE eocd' = FieldsAt(i) /\ fp' = eocd'.offset /\ Goto("entry")
    /\ UNCHANGED <<file, i, entry, cde, posn, entries>>

\* CentralDirEntry::read and LocalFileHeader::read: the header with its signature,
\* and the name, extra field and comment behind it. The cells they take, 0 if the
\* read fails.
CDECells ==
    IF ~CanRead(kCDELen) \/ ~IsAt(fp, "CDE") THEN 0
    ELSE LET cells == kCDELen + 1 + FieldsAt(fp).extra + FieldsAt(fp).comment
         IN  IF CanRead(cells) THEN cells ELSE 0
LFHCells ==
    IF ~CanRead(kLFHLen) \/ ~IsAt(fp, "LFH") THEN 0
    ELSE LET cells == kLFHLen + 1 + FieldsAt(fp).extra
         IN  IF CanRead(cells) THEN cells ELSE 0

\* ZipEntry::initFromCDE (37-60) for the next entry: on to its local header.
ReadCDE ==
    /\ pc = "entry" /\ entry < eocd.total
    /\ IF CDECells = 0
       THEN Fail /\ UNCHANGED <<cde, posn, fp>>
       ELSE /\ cde' = [name |-> file.cells[fp + 3].text, offset |-> FieldsAt(fp).offset,
                       size |-> FieldsAt(fp).size]
            /\ posn' = fp + CDECells /\ fp' = cde'.offset
            /\ Goto("local")
    /\ UNCHANGED <<file, i, eocd, entry, entries>>

\* The entry, with what its local header adds.
WithLFH(fields) ==
    [name |-> cde.name, offset |-> cde.offset, size |-> cde.size,
     extra |-> fields.extra, dd |-> fields.dd]

\* Lines 160-171: a directory is left out.
PushBack(e) ==
    entries' = IF e.name \in Directories THEN entries ELSE Append(entries, e)

\* Mutant: the FILE* is not put back to the directory.
ReadLFHStays ==
    /\ pc = "local"
    /\ IF LFHCells = 0
       THEN Fail /\ UNCHANGED <<fp, entry, entries>>
       ELSE /\ PushBack(WithLFH(FieldsAt(fp)))
            /\ fp' = fp + LFHCells /\ entry' = entry + 1
            /\ Goto("entry")
    /\ UNCHANGED <<file, i, eocd, cde, posn>>

\* initFromCDE (62-103), which puts the FILE* back; that the two headers differ is
\* only logged.
ReadLFH ==
    /\ pc = "local"
    /\ IF LFHCells = 0
       THEN Fail /\ UNCHANGED <<fp, entry, entries>>
       ELSE /\ PushBack(WithLFH(FieldsAt(fp)))
            /\ fp' = posn /\ entry' = entry + 1
            /\ Goto("entry")
    /\ UNCHANGED <<file, i, eocd, cde, posn>>

\* Lines 174-191: behind the directory there is the end record.
CheckEocd ==
    /\ pc = "entry" /\ entry = eocd.total
    /\ IF CanRead(1) /\ IsAt(fp, "EOCD")
       THEN pc' = "done" /\ result' = 0
       ELSE Fail
    /\ UNCHANGED <<file, fp, i, eocd, entry, cde, posn, entries>>

Idle == pc = "done" /\ UNCHANGED vars

Next == Open \/ Search \/ ReadEocd \/ ReadCDE \/ ReadLFH \/ CheckEocd \/ Idle

Spec == Init /\ [][Next]_vars

-----------------------------------------------------------------------------
(***************************************************************************)
(* What the files are, independently of how they are read.  layout says    *)
(* where the end record and the entries of a whole archive are, in the     *)
(* order of the directory: the position of the record there (at), the ends *)
(* of the stored entry (begin, end), and how many entries that are not     *)
(* directories there are up to this one (nth).                             *)
(***************************************************************************)
Holds(f, pos, kind, len) ==
    pos \in 0..(Len(f.cells) - len) /\ f.cells[pos + 1] = Signature(kind)
FieldsOf(f, pos) == f.cells[pos + 2].of

At(f, k) == IF k <= Len(f.layout.made) THEN f.layout.made[k].at ELSE f.layout.eocd
Nth(f, k) == IF k = 0 THEN 0 ELSE f.layout.made[k].nth

\* The k-th record of the directory, the local header it names, and its entry
\* among those that are no directories.
EntryIsWhole(f, k) ==
    LET e == f.layout.made[k]
        fields == FieldsOf(f, e.at)
        local == FieldsOf(f, e.begin)
    IN  /\ Holds(f, e.at, "CDE", kCDELen) /\ Holds(f, e.begin, "LFH", kLFHLen)
        /\ {fields.extra, fields.comment, fields.size, local.extra} \subseteq Nat
        /\ f.cells[e.at + 3] = Text(e.name) /\ fields.offset = e.begin
        /\ At(f, k + 1) = e.at + kCDELen + 1 + fields.extra + fields.comment
        /\ e.begin + kLFHLen + 1 + local.extra <= Len(f.cells)
        /\ e.end = e.begin + kLFHLen + 1 + local.extra + fields.size
                   + (IF local.dd THEN kDDLen ELSE 0)
        /\ e.nth = Nth(f, k - 1) + (IF e.name \in Directories THEN 0 ELSE 1)
        /\ e.name \notin Directories =>
              f.entries[e.nth] = [name |-> e.name, begin |-> e.begin, end |-> e.end]

\* A whole archive: what is behind its end record is the comment, in which
\* there is no other end record.
IsWhole(f) ==
    LET n == Len(f.layout.made)
        end == f.layout.eocd
    IN  /\ Holds(f, end, "EOCD", kEOCDLen) /\ n \in Nat
        /\ FieldsOf(f, end) = [num |-> n, total |-> n, disk |-> 0, offset |-> At(f, 1),
                               comment |-> Len(f.cells) - end - kEOCDLen]
        /\ Len(f.cells) - end - kEOCDLen <= kMaxCommentLen
        /\ \A p \in (end + 1)..(Len(f.cells) - 1) : f.cells[p + 1] # Signature("EOCD")
        /\ \A k \in 1..n : EntryIsWhole(f, k)
        /\ Len(f.entries) = Nth(f, n)

\* A file without a directory that can be found: wherever there is the signature of
\* an end record, the record is not all there, is one of several volumes, or there
\* is no directory where it says.
IsNone(f) ==
    \A p \in 0..(Len(f.cells) - 1) :
        LET fields == FieldsOf(f, p)
        IN  \/ ~Holds(f, p, "EOCD", kEOCDLen)
            \/ kEOCDLen + fields.comment > Len(f.cells) - p
            \/ fields.disk # 0 \/ fields.num # fields.total
            \/ /\ fields.total \in Nat /\ fields.offset \in Nat
               /\ IF fields.total = 0 THEN ~Holds(f, fields.offset, "EOCD", 1)
                  ELSE ~Holds(f, fields.offset, "CDE", kCDELen)

ASSUME FilesAssumption ==
    \A f \in Files : /\ Len(f.cells) \in Nat /\ f.sound \in BOOLEAN
                     /\ IF f.sound THEN IsWhole(f) ELSE IsNone(f)

-----------------------------------------------------------------------------
\* What parse_apk hands out, and where each entry ends, is what the archive was
\* made of, for every archive that is whole; of a file cut short, with another
\* archive stored in it or of several volumes, it hands out nothing or just that
\* (parse_apk and what it calls).
ParseExact ==
    pc = "done" =>
        /\ file.sound /\ fp # None => result = 0
        /\ result = 0 =>
              /\ Len(entries) = Len(file.entries)
              /\ \A k \in DOMAIN entries :
                    /\ entries[k].name = file.entries[k].name
                    /\ entries[k].offset = file.entries[k].begin
                    /\ EntryEnd(entries[k]) = file.entries[k].end
=============================================================================
