--------------------------- MODULE ParseApkProofs ---------------------------
(***************************************************************************)
(* Proofs about ParseApk, for any files that are either whole archives or  *)
(* have no directory that can be found: of the first parse_apk hands out   *)
(* the entries, whatever is stored in them, the second it refuses.         *)
(* Archives that are damaged in another way are in neither set.            *)
(***************************************************************************)
EXTENDS ParseApk, TLAPS

Made == file.layout.made
End == file.layout.eocd
Count == Len(Made)

\* What is handed out of the k-th record of the directory.
Parsed(k) ==
    [name |-> Made[k].name, offset |-> Made[k].begin, size |-> FieldsOf(file, Made[k].at).size,
     extra |-> FieldsOf(file, Made[k].begin).extra, dd |-> FieldsOf(file, Made[k].begin).dd]
Intended(e, made) == e.name = made.name /\ e.offset = made.begin /\ EntryEnd(e) = made.end

\* The first m records have been read, and what is no directory handed out.
HandedOut(m) ==
    /\ m \in 0..Count /\ Len(entries) = Nth(file, m) /\ Len(entries) \in Nat
    /\ entries \in Seq({Parsed(k) : k \in 1..Count})
    /\ \A k \in 1..Len(entries) : Intended(entries[k], file.entries[k])

\* A whole archive: the search comes to its end record, and the FILE* is where the
\* next record is.
WholeInv ==
    /\ pc = "open" => fp = None
    /\ pc = "search" => i \in End..(FileLength - 1)
    /\ pc = "eocd" => i = End
    /\ pc \in {"open", "search", "eocd"} => entry = 0 /\ entries = <<>>
    /\ pc \in {"entry", "local"} => eocd = FieldsOf(file, End) /\ HandedOut(entry)
    /\ pc = "entry" => fp = At(file, entry + 1)
    /\ pc = "local" =>
          /\ entry < Count /\ fp = Made[entry + 1].begin /\ posn = At(file, entry + 2)
          /\ cde = [name |-> Made[entry + 1].name, offset |-> Made[entry + 1].begin,
                    size |-> FieldsOf(file, Made[entry + 1].at).size]
    /\ pc = "done" => \/ result = -1 /\ fp = None
                      \/ result = 0 /\ HandedOut(Count)

\* A file that is none: no end record leads to a directory.
NoneInv ==
    /\ pc = "search" => i \in Int /\ i < FileLength
    /\ pc = "eocd" => i \in 0..(FileLength - 1) /\ IsAt(i, "EOCD")
    /\ pc = "entry" =>
          /\ entry = 0 /\ eocd.total \in Nat /\ fp = eocd.offset /\ fp \in Nat
          /\ IF eocd.total = 0 THEN ~Holds(file, fp, "EOCD", 1) ELSE ~Holds(file, fp, "CDE", kCDELen)
    /\ pc = "open" => entry = 0
    /\ pc \in {"search", "eocd"} => entry = 0
    /\ pc # "local" /\ (pc = "done" => result = -1)

Inv == file \in Files /\ (IF file.sound THEN WholeInv ELSE NoneInv)

-----------------------------------------------------------------------------
LEMMA CellFacts ==
    ASSUME NEW kind \in {"LFH", "CDE", "EOCD"}, NEW pos
    PROVE  /\ IsAt(pos, kind) <=> file.cells[pos + 1] = Signature(kind)
           /\ FieldsAt(pos) = FieldsOf(file, pos)
BY DEF IsAt, FieldsAt, FieldsOf

\* What FilesAssumption says of a whole archive.
LEMMA WholeFacts ==
    ASSUME file \in Files, file.sound
    PROVE  /\ FileLength \in Nat /\ Count \in Nat /\ End \in 0..(FileLength - 2)
           /\ IsAt(End, "EOCD") /\ FieldsAt(End) = FieldsOf(file, End)
           /\ FieldsOf(file, End) = [num |-> Count, total |-> Count, disk |-> 0,
                                     offset |-> At(file, 1), comment |-> FileLength - End - 2]
           /\ FileLength - End - 2 <= kMaxCommentLen
           /\ \A p \in (End + 1)..(FileLength - 1) : ~IsAt(p, "EOCD")
           /\ \A k \in 1..Count : EntryIsWhole(file, k)
           /\ Len(file.entries) = Nth(file, Count)
<1>1. IsWhole(file) /\ FileLength \in Nat
  BY FilesAssumption DEF FileLength
<1> QED BY <1>1, CellFacts
        DEF IsWhole, Holds, IsAt, FieldsAt, FieldsOf, FileLength, Count, Made, End, kEOCDLen

LEMMA NoneFacts ==
    ASSUME file \in Files, ~file.sound, NEW p \in 0..(FileLength - 1), IsAt(p, "EOCD"),
           FileLength - p >= kEOCDLen
    PROVE  \/ kEOCDLen + FieldsAt(p).comment > FileLength - p
           \/ FieldsAt(p).disk # 0 \/ FieldsAt(p).num # FieldsAt(p).total
           \/ /\ FieldsAt(p).total \in Nat /\ FieldsAt(p).offset \in Nat
              /\ IF FieldsAt(p).total = 0 THEN ~Holds(file, FieldsAt(p).offset, "EOCD", 1)
                 ELSE ~Holds(file, FieldsAt(p).offset, "CDE", kCDELen)
<1>1. IsNone(file) /\ FileLength \in Nat
  BY FilesAssumption DEF FileLength
<1>2. Holds(file, p, "EOCD", kEOCDLen)
  BY <1>1 DEF Holds, IsAt, FileLength, kEOCDLen
<1> QED BY <1>1, <1>2 DEF IsNone, FieldsOf, FieldsAt, FileLength

LEMMA InitInv == Init => Inv
BY FilesAssumption DEF Init, Inv, WholeInv, NoneInv

-----------------------------------------------------------------------------
(***************************************************************************)
(* A whole archive.                                                        *)
(***************************************************************************)
\* Reading the k-th record of the directory, from where it is.
LEMMA RecordFacts ==
    ASSUME file \in Files, file.sound, NEW k \in 1..Count
    PROVE  LET fields == FieldsOf(file, Made[k].at)
               local == FieldsOf(file, Made[k].begin)
           IN  /\ Made[k].at \in Nat /\ Made[k].at + 2 <= FileLength
               /\ Made[k].begin \in Nat /\ Made[k].begin + 2 <= FileLength
               /\ fields.extra \in Nat /\ fields.comment \in Nat /\ local.extra \in Nat
               /\ fields.size \in Nat
               /\ At(file, k) = Made[k].at
               /\ At(file, k + 1) = Made[k].at + 3 + fields.extra + fields.comment
               /\ At(file, k + 1) <= FileLength
               /\ Made[k].begin + 3 + local.extra <= FileLength
               /\ file.cells[Made[k].at + 1] = Signature("CDE")
               /\ file.cells[Made[k].begin + 1] = Signature("LFH")
               /\ file.cells[Made[k].at + 3] = Text(Made[k].name)
               /\ fields.offset = Made[k].begin
<1>1. EntryIsWhole(file, k) /\ FileLength \in Nat /\ Count \in Nat
  BY WholeFacts
<1>2. At(file, k) = Made[k].at
  BY <1>1 DEF At, Count, Made
<1>3. /\ Holds(file, Made[k].at, "CDE", 2) /\ Holds(file, Made[k].begin, "LFH", 2)
  BY <1>1 DEF EntryIsWhole, Made, kCDELen, kLFHLen
<1>4. At(file, k + 1) <= FileLength
  <2>1. CASE k < Count
    <3>1. EntryIsWhole(file, k + 1) /\ k + 1 \in 1..Count
      BY <1>1, <2>1, WholeFacts
    <3>2. Holds(file, Made[k + 1].at, "CDE", 2)
      BY <3>1 DEF EntryIsWhole, Made, kCDELen
    <3>3. At(file, k + 1) = Made[k + 1].at
      BY <3>1, <1>1 DEF At, Made, Count
    <3> QED BY <1>1, <3>2, <3>3 DEF Holds, FileLength
  <2>2. CASE k = Count
    <3>1. At(file, k + 1) = End
      BY <1>1, <2>2 DEF At, Count, Made, End
    <3> QED BY <1>1, <3>1, WholeFacts
  <2> QED BY <1>1, <2>1, <2>2
<1>5. /\ Made[k].at \in Nat /\ Made[k].at + 2 <= FileLength
      /\ Made[k].begin \in Nat /\ Made[k].begin + 2 <= FileLength
      /\ file.cells[Made[k].at + 1] = Signature("CDE")
      /\ file.cells[Made[k].begin + 1] = Signature("LFH")
  <2>1. ASSUME NEW pos, NEW kind, Holds(file, pos, kind, 2)
        PROVE  /\ pos \in Nat /\ pos + 2 <= FileLength
               /\ file.cells[pos + 1] = Signature(kind)
    BY <1>1, <2>1 DEF Holds, FileLength
  <2> QED BY <1>3, <2>1, Zenon
<1>6. LET fields == FieldsOf(file, Made[k].at)
          local == FieldsOf(file, Made[k].begin)
      IN  /\ fields.extra \in Nat /\ fields.comment \in Nat /\ local.extra \in Nat
          /\ fields.size \in Nat /\ fields.offset = Made[k].begin
          /\ file.cells[Made[k].at + 3] = Text(Made[k].name)
  BY <1>1 DEF EntryIsWhole, Made
<1>7. /\ At(file, k + 1) = Made[k].at + 3 + FieldsOf(file, Made[k].at).extra
                           + FieldsOf(file, Made[k].at).comment
      /\ Made[k].begin + 3 + FieldsOf(file, Made[k].begin).extra <= FileLength
  <2>1. /\ At(file, k + 1) = Made[k].at + kCDELen + 1 + FieldsOf(file, Made[k].at).extra
                             + FieldsOf(file, Made[k].at).comment
        /\ Made[k].begin + kLFHLen + 1 + FieldsOf(file, Made[k].begin).extra <= FileLength
    BY <1>1, Zenon DEF EntryIsWhole, Made, FileLength
  <2> QED BY <1>5, <1>6, <2>1 DEF kCDELen, kLFHLen
<1> QED BY <1>2, <1>4, <1>5, <1>6, <1>7

\* What WithLFH makes of the local header the FILE* is at.
LEMMA ParsedIs ==
    ASSUME file \in Files, file.sound, WholeInv, pc = "local"
    PROVE  WithLFH(FieldsAt(fp)) = Parsed(entry + 1)
BY CellFacts DEF WholeInv, WithLFH, Parsed, FieldsAt, FieldsOf

\* What Parsed has is what was archived.
LEMMA ParsedIntended ==
    ASSUME file \in Files, file.sound, NEW k \in 1..Count, Made[k].name \notin Directories
    PROVE  Intended(Parsed(k), file.entries[Made[k].nth])
<1>1. /\ Made[k].end = Made[k].begin + kLFHLen + 1 + FieldsOf(file, Made[k].begin).extra
                        + FieldsOf(file, Made[k].at).size
                        + (IF FieldsOf(file, Made[k].begin).dd THEN kDDLen ELSE 0)
      /\ file.entries[Made[k].nth] =
            [name |-> Made[k].name, begin |-> Made[k].begin, end |-> Made[k].end]
  BY WholeFacts, Zenon DEF EntryIsWhole, Made
<1>2. EntryEnd(Parsed(k)) = Made[k].end
  BY <1>1 DEF EntryEnd, Parsed
<1> QED BY <1>1, <1>2 DEF Intended, Parsed

LEMMA WholeOpen ==
    ASSUME file \in Files, file.sound, WholeInv, Open
    PROVE  WholeInv'
<1>1. /\ file' = file /\ pc = "open" /\ entry' = 0 /\ entries' = <<>> /\ fp = None
  BY DEF Open, WholeInv
<1>2. FileLength \in Nat /\ End \in 0..(FileLength - 2)
  BY WholeFacts
<1>3. CASE pc' = "done" /\ result' = -1 /\ fp' = fp
  BY <1>1, <1>3 DEF WholeInv
<1>4. CASE pc' = "search" /\ i' = FileLength - 1
  BY <1>1, <1>2, <1>4 DEF WholeInv, End, FileLength
<1> QED BY <1>2, <1>3, <1>4 DEF Open, Goto, Fail, kEOCDLen

LEMMA WholeSearch ==
    ASSUME file \in Files, file.sound, WholeInv, Search
    PROVE  WholeInv'
<1>1. /\ UNCHANGED <<file, fp, eocd, entry, cde, posn, entries>> /\ pc = "search"
      /\ i \in End..(FileLength - 1) /\ entry = 0 /\ entries = <<>>
  BY DEF Search, WholeInv
<1>2. /\ FileLength \in Nat /\ End \in 0..(FileLength - 2) /\ IsAt(End, "EOCD")
      /\ FileLength - End - 2 <= kMaxCommentLen
      /\ \A p \in (End + 1)..(FileLength - 1) : ~IsAt(p, "EOCD")
  BY WholeFacts
<1>3. SeekStart <= End
  BY <1>2, MaxAssumption DEF SeekStart, kMaxEOCDSearch, kEOCDLen
<1>4. ~(i < SeekStart)
  BY <1>1, <1>2, <1>3, MaxAssumption DEF SeekStart, kMaxEOCDSearch, kEOCDLen
<1>5. CASE IsAt(i, "EOCD") /\ pc' = "eocd" /\ i' = i
  <2>1. i = End
    BY <1>1, <1>2, <1>5
  <2> QED BY <1>1, <1>5, <2>1 DEF WholeInv, End
<1>6. CASE ~IsAt(i, "EOCD") /\ pc' = "search" /\ i' = i - 1
  <2>1. i' \in End..(FileLength - 1)
    BY <1>1, <1>2, <1>6
  <2> QED BY <1>1, <1>6, <2>1 DEF WholeInv, End, FileLength
<1> QED BY <1>4, <1>5, <1>6 DEF Search, Goto

LEMMA WholeReadEocd ==
    ASSUME file \in Files, file.sound, WholeInv, ReadEocd
    PROVE  WholeInv'
<1>1. /\ UNCHANGED <<file, i, entry, cde, posn, entries>> /\ pc = "eocd" /\ i = End
      /\ entry = 0 /\ entries = <<>>
  BY DEF ReadEocd, WholeInv
<1>2. /\ FileLength \in Nat /\ Count \in Nat /\ End \in 0..(FileLength - 2)
      /\ FieldsAt(End) = FieldsOf(file, End)
      /\ FieldsOf(file, End) = [num |-> Count, total |-> Count, disk |-> 0,
                                offset |-> At(file, 1), comment |-> FileLength - End - 2]
  BY WholeFacts
<1>3. ~(ReadBufFails \/ FieldsAt(i).disk # 0 \/ FieldsAt(i).num # FieldsAt(i).total)
  <2>1. /\ FieldsAt(i).comment = FileLength - End - 2 /\ FieldsAt(i).disk = 0
        /\ FieldsAt(i).num = FieldsAt(i).total
    BY <1>1, <1>2
  <2> QED BY <1>1, <1>2, <2>1 DEF ReadBufFails, kEOCDLen
<1>4. eocd' = FieldsOf(file, End) /\ fp' = At(file, 1) /\ pc' = "entry"
  BY <1>1, <1>2, <1>3 DEF ReadEocd, Goto
<1>5. HandedOut(0)
  <2>1. entries \in Seq({Parsed(k) : k \in 1..Count}) /\ Len(entries) = 0
    BY <1>1
  <2> QED BY <1>2, <2>1 DEF HandedOut, Nth
<1>6. (HandedOut(0))'
  BY <1>1, <1>5 DEF HandedOut, Nth, Parsed, Count, Made, Intended, EntryEnd
<1> QED BY <1>1, <1>4, <1>6 DEF WholeInv, End

LEMMA WholeReadCDE ==
    ASSUME file \in Files, file.sound, WholeInv, ReadCDE
    PROVE  WholeInv'
<1> DEFINE k == entry + 1
           fields == FieldsOf(file, Made[k].at)
<1>1. /\ UNCHANGED <<file, i, eocd, entry, entries>> /\ pc = "entry"
      /\ fp = At(file, k) /\ eocd = FieldsOf(file, End) /\ HandedOut(entry)
      /\ entry < eocd.total
  BY DEF ReadCDE, WholeInv
<1>2. Count \in Nat /\ eocd.total = Count /\ FileLength \in Nat
  BY <1>1, WholeFacts
<1>3. entry \in 0..Count /\ k \in 1..Count /\ entry < Count /\ k + 1 = entry + 2
  BY <1>1, <1>2 DEF HandedOut
<1>4. /\ Made[k].at \in Nat /\ Made[k].at + 2 <= FileLength
      /\ fields.extra \in Nat /\ fields.comment \in Nat
      /\ At(file, k) = Made[k].at
      /\ At(file, k + 1) = Made[k].at + 3 + fields.extra + fields.comment
      /\ At(file, k + 1) <= FileLength
      /\ file.cells[Made[k].at + 1] = Signature("CDE")
      /\ file.cells[Made[k].at + 3] = Text(Made[k].name)
      /\ fields.offset = Made[k].begin
  BY <1>3, RecordFacts
<1>5. fp = Made[k].at /\ FieldsAt(fp) = fields /\ IsAt(fp, "CDE")
  BY <1>1, <1>4, CellFacts
<1> HIDE DEF k, fields
<1>6. CDECells = 3 + fields.extra + fields.comment
  BY <1>2, <1>4, <1>5 DEF CDECells, CanRead, kCDELen
<1>7. /\ CDECells # 0 /\ fp + CDECells = At(file, k + 1)
  BY <1>4, <1>5, <1>6
<1>8. file.cells[fp + 3].text = Made[k].name
  BY <1>4, <1>5 DEF Text
<1>9. /\ cde' = [name |-> Made[k].name, offset |-> Made[k].begin, size |-> fields.size]
      /\ posn' = At(file, k + 1) /\ fp' = Made[k].begin /\ pc' = "local"
  BY <1>4, <1>5, <1>7, <1>8 DEF ReadCDE, Goto
<1>10. (HandedOut(entry))'
  BY <1>1 DEF HandedOut, Nth, Parsed, Count, Made, Intended, EntryEnd
<1>11. posn' = At(file, entry + 2)
  BY <1>3, <1>9
<1> QED BY <1>1, <1>3, <1>9, <1>10, <1>11 DEF WholeInv, End, Count, Made, k, fields

LEMMA WholeReadLFH ==
    ASSUME file \in Files, file.sound, WholeInv, ReadLFH
    PROVE  WholeInv'
<1> DEFINE k == entry + 1
           local == FieldsOf(file, Made[k].begin)
           S == {Parsed(m) : m \in 1..Count}
<1>1. /\ UNCHANGED <<file, i, eocd, cde, posn>> /\ pc = "local" /\ entry < Count
      /\ fp = Made[k].begin /\ posn = At(file, entry + 2) /\ cde.name = Made[k].name
      /\ eocd = FieldsOf(file, End) /\ HandedOut(entry)
  BY DEF ReadLFH, WholeInv
<1>2. Count \in Nat /\ FileLength \in Nat
  BY WholeFacts
<1>3. entry \in 0..Count /\ k \in 1..Count /\ k # 0 /\ k - 1 = entry /\ k + 1 = entry + 2
  BY <1>1, <1>2 DEF HandedOut
<1>4. /\ Made[k].begin \in Nat /\ Made[k].begin + 2 <= FileLength /\ local.extra \in Nat
      /\ Made[k].begin + 3 + local.extra <= FileLength
      /\ file.cells[Made[k].begin + 1] = Signature("LFH")
  BY <1>3, RecordFacts
<1>5. FieldsAt(fp) = local /\ IsAt(fp, "LFH")
  BY <1>1, <1>4, CellFacts
<1>6. WithLFH(FieldsAt(fp)) = Parsed(k)
  BY <1>1, ParsedIs
<1>7. Made[k].nth = Nth(file, entry) + (IF Made[k].name \in Directories THEN 0 ELSE 1)
  <2>1. EntryIsWhole(file, k)
    BY <1>3, WholeFacts
  <2> QED BY <1>3, <2>1, Zenon DEF EntryIsWhole, Made
<1>8. Made[k].name \notin Directories => Intended(Parsed(k), file.entries[Made[k].nth])
  BY <1>3, ParsedIntended
<1>9. Parsed(k) \in S
  BY <1>3
<1>10. /\ entries \in Seq(S) /\ Len(entries) = Nth(file, entry) /\ Len(entries) \in Nat
       /\ \A j \in 1..Len(entries) : Intended(entries[j], file.entries[j])
  BY <1>1 DEF HandedOut
<1>11. Nth(file, k) = Made[k].nth
  BY <1>3 DEF Nth, Made
<1> HIDE DEF k, local, S
<1>12. LFHCells = 3 + local.extra /\ LFHCells # 0
  BY <1>1, <1>2, <1>4, <1>5 DEF LFHCells, CanRead, kLFHLen
<1>13. /\ fp' = At(file, k + 1) /\ entry' = k /\ pc' = "entry"
       /\ entries' = IF Made[k].name \in Directories THEN entries ELSE Append(entries, Parsed(k))
  <2>1. /\ fp' = posn /\ entry' = entry + 1 /\ pc' = "entry" /\ PushBack(Parsed(k))
    BY <1>6, <1>12 DEF ReadLFH, Goto
  <2>2. Parsed(k).name = Made[k].name
    BY DEF Parsed
  <2> QED BY <1>1, <1>3, <2>1, <2>2 DEF PushBack, k
<1>14. /\ entries' \in Seq(S) /\ Len(entries') = Nth(file, k) /\ Len(entries') \in Nat
       /\ \A j \in 1..Len(entries') : Intended(entries'[j], file.entries[j])
  <2>1. CASE Made[k].name \in Directories
    <3>1. Nth(file, k) = Nth(file, entry)
      BY <1>7, <1>10, <1>11, <2>1
    <3> QED BY <1>10, <1>13, <2>1, <3>1
  <2>2. CASE Made[k].name \notin Directories
    <3>1. entries' = Append(entries, Parsed(k)) /\ Made[k].nth = Len(entries) + 1
      BY <1>7, <1>10, <1>13, <2>2
    <3>2. /\ Append(entries, Parsed(k)) \in Seq(S)
          /\ Len(Append(entries, Parsed(k))) = Len(entries) + 1
          /\ \A j \in 1..Len(entries) : Append(entries, Parsed(k))[j] = entries[j]
          /\ Append(entries, Parsed(k))[Len(entries) + 1] = Parsed(k)
      BY <1>9, <1>10
    <3>3. Intended(Parsed(k), file.entries[Len(entries) + 1])
      BY <1>8, <2>2, <3>1
    <3>4. ASSUME NEW j \in 1..(Len(entries) + 1)
          PROVE  Intended(Append(entries, Parsed(k))[j], file.entries[j])
      <4>1. CASE j = Len(entries) + 1
        BY <3>2, <3>3, <4>1
      <4>2. CASE j \in 1..Len(entries)
        BY <1>10, <3>2, <4>2
      <4> QED BY <1>10, <4>1, <4>2
    <3> QED BY <1>10, <1>11, <3>1, <3>2, <3>4
  <2> QED BY <2>1, <2>2
<1>15. (HandedOut(entry))'
  <2>1. file' = file /\ Count' = Count /\ S' = S /\ entry' = k
    BY <1>1, <1>13 DEF Count, Made, S, Parsed, FieldsOf
  <2>2. /\ entry' \in 0..Count' /\ Len(entries') = Nth(file', entry') /\ Len(entries') \in Nat
        /\ entries' \in Seq(S')
        /\ \A j \in 1..Len(entries') : Intended(entries'[j], file'.entries[j])
    <3>1. k \in 0..Count
      BY <1>2, <1>3
    <3> QED BY <1>14, <2>1, <3>1, Zenon
  <2> QED BY <2>2, Zenon DEF HandedOut, S
<1>16. fp' = At(file, k + 1) /\ entry' + 1 = k + 1
  BY <1>13
<1> QED BY <1>1, <1>13, <1>15, <1>16 DEF WholeInv, End

LEMMA WholeCheckEocd ==
    ASSUME file \in Files, file.sound, WholeInv, CheckEocd
    PROVE  WholeInv'
<1>1. /\ UNCHANGED <<file, fp, i, eocd, entry, cde, posn, entries>> /\ pc = "entry"
      /\ fp = At(file, entry + 1) /\ eocd = FieldsOf(file, End) /\ HandedOut(entry)
      /\ entry = eocd.total
  BY DEF CheckEocd, WholeInv
<1>2. /\ Count \in Nat /\ eocd.total = Count /\ FileLength \in Nat /\ IsAt(End, "EOCD")
      /\ End \in 0..(FileLength - 2)
  BY <1>1, WholeFacts
<1>3. fp = End
  BY <1>1, <1>2 DEF At, Count, Made, End
<1>4. pc' = "done" /\ result' = 0
  BY <1>2, <1>3 DEF CheckEocd, CanRead
<1>5. (HandedOut(Count))'
  BY <1>1, <1>2 DEF HandedOut, Nth, Parsed, Count, Made, Intended, EntryEnd
<1> QED BY <1>1, <1>4, <1>5 DEF WholeInv, End

LEMMA WholeNext ==
    ASSUME file \in Files, file.sound, WholeInv, [Next]_vars
    PROVE  WholeInv'
<1>1. CASE UNCHANGED vars
  BY <1>1 DEF vars, WholeInv, HandedOut, Nth, Parsed, Count, Made, End, Intended, EntryEnd, FileLength
<1> QED BY <1>1, WholeOpen, WholeSearch, WholeReadEocd, WholeReadCDE, WholeReadLFH,
           WholeCheckEocd DEF Next, Idle

-----------------------------------------------------------------------------
(***************************************************************************)
(* A file that is none.                                                    *)
(***************************************************************************)
LEMMA NoneNext ==
    ASSUME file \in Files, ~file.sound, NoneInv, [Next]_vars
    PROVE  NoneInv'
<1>0. FileLength \in Nat
  BY FilesAssumption DEF FileLength
<1>1. CASE Open
  BY <1>0, <1>1 DEF Open, Goto, Fail, NoneInv, FileLength, kEOCDLen
<1>2. CASE Search
  <2>1. i \in Int /\ i < FileLength /\ file' = file /\ entry' = entry /\ entry = 0
        /\ pc = "search"
    BY <1>2 DEF Search, NoneInv
  <2>2. CASE pc' = "done" /\ result' = -1
    BY <2>1, <2>2 DEF NoneInv
  <2>3. CASE i >= SeekStart /\ IsAt(i, "EOCD") /\ pc' = "eocd" /\ i' = i
    <3>1. i \in 0..(FileLength - 1)
      BY <1>0, <2>1, <2>3, MaxAssumption DEF SeekStart, kMaxEOCDSearch, kEOCDLen
    <3> QED BY <2>1, <2>3, <3>1 DEF NoneInv, FileLength, IsAt
  <2>4. CASE pc' = "search" /\ i' = i - 1
    BY <1>0, <2>1, <2>4 DEF NoneInv, FileLength
  <2> QED BY <1>2, <2>2, <2>3, <2>4 DEF Search, Goto, Fail
<1>3. CASE ReadEocd
  <2>1. /\ file' = file /\ entry' = entry /\ entry = 0 /\ pc = "eocd"
        /\ i \in 0..(FileLength - 1) /\ IsAt(i, "EOCD")
    BY <1>3 DEF ReadEocd, NoneInv
  <2>2. CASE pc' = "done" /\ result' = -1
    BY <2>1, <2>2 DEF NoneInv
  <2>3. CASE /\ ~(ReadBufFails \/ FieldsAt(i).disk # 0 \/ FieldsAt(i).num # FieldsAt(i).total)
             /\ eocd' = FieldsAt(i) /\ fp' = eocd'.offset /\ pc' = "entry"
    <3>1. FileLength - i >= kEOCDLen
      BY <1>0, <2>1, <2>3 DEF ReadBufFails, kEOCDLen
    <3>2. /\ FieldsAt(i).total \in Nat /\ FieldsAt(i).offset \in Nat
          /\ IF FieldsAt(i).total = 0 THEN ~Holds(file, FieldsAt(i).offset, "EOCD", 1)
             ELSE ~Holds(file, FieldsAt(i).offset, "CDE", kCDELen)
      BY <2>1, <2>3, <3>1, NoneFacts DEF ReadBufFails
    <3> QED BY <2>1, <2>3, <3>2 DEF NoneInv, Holds
  <2> QED BY <1>3, <2>2, <2>3 DEF ReadEocd, Fail, Goto
<1>4. CASE ReadCDE
  <2>1. /\ pc = "entry" /\ entry < eocd.total /\ entry = 0 /\ eocd.total \in Nat /\ fp \in Nat
        /\ IF eocd.total = 0 THEN ~Holds(file, fp, "EOCD", 1) ELSE ~Holds(file, fp, "CDE", kCDELen)
    BY <1>4 DEF ReadCDE, NoneInv
  <2>2. ~Holds(file, fp, "CDE", kCDELen)
    BY <2>1
  <2>3. CDECells = 0
    BY <1>0, <2>1, <2>2 DEF CDECells, CanRead, IsAt, Holds, FileLength, kCDELen
  <2> QED BY <1>4, <2>3 DEF ReadCDE, Fail, NoneInv
<1>5. CASE CheckEocd
  <2>1. /\ pc = "entry" /\ entry = eocd.total /\ entry = 0 /\ fp \in Nat
        /\ IF eocd.total = 0 THEN ~Holds(file, fp, "EOCD", 1) ELSE ~Holds(file, fp, "CDE", kCDELen)
    BY <1>5 DEF CheckEocd, NoneInv
  <2>2. ~(CanRead(1) /\ IsAt(fp, "EOCD"))
    BY <1>0, <2>1 DEF CanRead, IsAt, Holds, FileLength
  <2> QED BY <1>5, <2>2 DEF CheckEocd, Fail, NoneInv
<1>6. CASE UNCHANGED vars
  BY <1>6 DEF vars, NoneInv, FileLength, IsAt, Holds
<1> QED BY <1>1, <1>2, <1>3, <1>4, <1>5, <1>6 DEF Next, Idle, ReadLFH, NoneInv

-----------------------------------------------------------------------------
LEMMA NextInv == Inv /\ [Next]_vars => Inv'
<1> SUFFICES ASSUME Inv, [Next]_vars PROVE Inv'
  OBVIOUS
<1>1. file' = file
  BY DEF Next, vars, Open, Search, ReadEocd, ReadCDE, ReadLFH, CheckEocd, Idle
<1> QED BY <1>1, WholeNext, NoneNext DEF Inv

LEMMA InvExact == Inv => ParseExact
<1> SUFFICES ASSUME Inv, pc = "done" PROVE ParseExact
  BY DEF ParseExact
<1>1. CASE ~file.sound
  BY <1>1 DEF Inv, NoneInv, ParseExact
<1>2. CASE file.sound
  <2>1. WholeInv /\ file \in Files
    BY <1>2 DEF Inv
  <2>2. CASE result = -1 /\ fp = None
    BY <2>2 DEF ParseExact
  <2>3. CASE result = 0 /\ HandedOut(Count)
    <3>1. Len(file.entries) = Nth(file, Count)
      BY <1>2, <2>1, WholeFacts
    <3>2. Len(entries) = Len(file.entries) /\ DOMAIN entries = 1..Len(entries)
      BY <2>3, <3>1 DEF HandedOut
    <3>3. \A k \in DOMAIN entries : Intended(entries[k], file.entries[k])
      BY <2>3, <3>2 DEF HandedOut
    <3> QED BY <1>2, <2>3, <3>2, <3>3 DEF Intended, ParseExact
  <2> QED BY <2>1, <2>2, <2>3 DEF WholeInv
<1> QED BY <1>1, <1>2

\* Of every whole archive parse_apk hands out the entries that are no directories,
\* in order, with where each ends; a file without a directory that can be found it
\* refuses (parse_apk, initFromCDE, readBuf).
THEOREM ParsesWhole == Spec => []ParseExact
<1> QED BY InitInv, NextInv, InvExact, PTL DEF Spec
=============================================================================
