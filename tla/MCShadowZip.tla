---------------------------- MODULE MCShadowZip ----------------------------
(***************************************************************************)
(* Packages for ShadowZip: an apk of up to three entries and up to two     *)
(* patch zips of up to two entries.  Kinds are chosen so that entries are  *)
(* merged, padded (with and without an extra field to extend, and with no  *)
(* data at all), separated by a directory, replaced, added and removed.    *)
(***************************************************************************)
EXTENDS ShadowZip

CONSTANTS a, b, c, MaxApk

MCNames == {a, b, c}

\* Sizes of an entry of each kind.  30 + 2 + extra bytes of header; the sizes
\* differ modulo 4 so that replacing one entry shifts those after it.
Stored == [stored |-> TRUE, dd |-> FALSE, dir |-> FALSE, extra |-> 0, size |-> 4]
Odd == [stored |-> TRUE, dd |-> FALSE, dir |-> FALSE, extra |-> 3, size |-> 7]
Empty == [stored |-> TRUE, dd |-> FALSE, dir |-> FALSE, extra |-> 0, size |-> 0]
Deflated == [stored |-> FALSE, dd |-> TRUE, dir |-> FALSE, extra |-> 1, size |-> 9]
Directory == [stored |-> TRUE, dd |-> FALSE, dir |-> TRUE, extra |-> 0, size |-> 0]

ApkKinds == {Stored, Empty, Deflated}
PatchKinds == {Odd, Deflated}

Contents(kinds, max) ==
    UNION {[1..n -> [name : MCNames, kind : kinds]] : n \in 0..max}

\* The archive whose entries follow each other from offset 0, as zip writes it.
Zip(contents, intact) ==
    LET Size(k) == kLFHLen + 2 + contents[k].kind.extra + contents[k].kind.size
                   + (IF contents[k].kind.dd THEN kDataDescriptorLen ELSE 0)
        start[k \in 1..(Len(contents) + 1)] ==
            IF k = 1 THEN 0 ELSE start[k - 1] + Size(k - 1)
    IN  [intact |-> intact, size |-> start[Len(contents) + 1],
         entries |->
            [k \in 1..Len(contents) |->
                [name |-> contents[k].name, dir |-> contents[k].kind.dir,
                 stored |-> contents[k].kind.stored, dd |-> contents[k].kind.dd,
                 lfh |-> start[k], name_len |-> 2, extra |-> contents[k].kind.extra,
                 compressed_size |-> contents[k].kind.size, cde |-> 48]]]

\* The names of the apk in their order: any other apk is a renaming of one of
\* these, and patches and removed files range over all names.
Apks == {Zip([k \in 1..Len(kinds) |-> [name |-> <<a, b, c>>[k], kind |-> kinds[k]]], TRUE) :
            kinds \in UNION {[1..n -> ApkKinds] : n \in 0..MaxApk}}
Patches(max) == {Zip(s, TRUE) : s \in Contents(PatchKinds, max)}
Broken == Zip(<<>>, FALSE)
WithDirectory ==
    Zip(<<[name |-> a, kind |-> Stored], [name |-> b, kind |-> Directory],
          [name |-> c, kind |-> Odd]>>, TRUE)

Package(apk, patches, removed) ==
    [last |-> 1 + Len(patches), removed |-> removed,
     files |-> [f \in 0..(1 + Len(patches)) |->
                   CASE f = 0 -> apk
                     [] f = 1 -> Zip(<<>>, TRUE)
                     [] OTHER -> patches[f - 1]]]

\* One patch zip of two entries, or two of one entry.
PatchSets == {<<>>} \cup {<<p>> : p \in Patches(2)}
             \cup {<<p, q>> : p \in Patches(1), q \in Patches(1)}

MCInputs ==
    {Package(apk, patches, removed) :
        apk \in Apks, patches \in PatchSets, removed \in {{}} \cup {{n} : n \in MCNames}}
    \cup {Package(apk, patches, {}) :
        apk \in {WithDirectory, Broken}, patches \in {<<WithDirectory>>, <<Broken>>}}
=============================================================================
