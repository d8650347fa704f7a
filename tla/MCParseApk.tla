---------------------------- MODULE MCParseApk ----------------------------
(***************************************************************************)
(* The files ParseApk is checked on: archives of up to three entries,      *)
(* whole or cut short anywhere.                                            *)
(***************************************************************************)
EXTENDS ParseApk, SequencesExt

Entry(name, extra, cextra, comment, data, dd) ==
    [name |-> name, extra |-> extra, cextra |-> cextra, comment |-> comment, data |-> data,
     dd |-> dd, offset |-> 0]

\* An entry with its data and, maybe, its data descriptor.
Stored(e) == LocalFileHeader(e) \o e.data \o (IF e.dd THEN Filler(kDDLen) ELSE <<>>)
\* The entries with the offsets they get one behind the other.
Placed(es) ==
    LET begin[k \in 1..(Len(es) + 1)] == IF k = 1 THEN 0 ELSE begin[k - 1] + Len(Stored(es[k - 1]))
    IN  [k \in DOMAIN es |-> [es[k] EXCEPT !.offset = begin[k]]]
Locals(es) == FlattenSeq([k \in DOMAIN es |-> Stored(es[k])])
\* The directory has them in the same order.
Archive(es, total, disk, comment) ==
    Locals(es) \o FlattenSeq([k \in DOMAIN es |-> CentralDirEntry(Placed(es)[k])])
    \o EndOfCentralDir(Len(es), total, disk, Len(Locals(es)), comment)

Listed(es) ==
    LET files == SelectSeq(Placed(es), LAMBDA e : e.name \notin Directories)
    IN  [k \in DOMAIN files |-> [name |-> files[k].name, begin |-> files[k].offset,
                                 end |-> files[k].offset + Len(Stored(files[k]))]]

\* Where all that is.
Layout(es) ==
    LET all == Placed(es)
        record(k) == Len(CentralDirEntry(all[k]))
        at[k \in 1..(Len(es) + 1)] ==
            IF k = 1 THEN Len(Locals(es)) ELSE at[k - 1] + record(k - 1)
        made(k) ==
            [name |-> es[k].name, at |-> at[k], begin |-> all[k].offset,
             end |-> all[k].offset + Len(Stored(es[k])),
             nth |-> Cardinality({j \in 1..k : es[j].name \notin Directories})]
    IN  [eocd |-> at[Len(es) + 1], made |-> [k \in DOMAIN es |-> made(k)]]

Inner == Archive(<<Entry("x", 0, 0, 0, Filler(1), FALSE)>>, 1, 0, 0)
Empty == Archive(<<>>, 0, 0, 0)
MCDirectories == {"dir/"}
Entries ==
    {Entry("a", 0, 0, 0, Filler(2), FALSE), Entry("b", 1, 0, 1, <<>>, TRUE),
     Entry("c", 0, 2, 0, Inner, FALSE), Entry("e", 0, 0, 0, Empty, FALSE),
     Entry("dir/", 0, 0, 0, <<>>, FALSE)}
Contents ==
    {es \in UNION {[1..n -> Entries] : n \in 0..3} :
        \A j, k \in DOMAIN es : es[j].name = es[k].name => j = k}

One == <<Entry("a", 0, 0, 0, <<>>, FALSE)>>
Whole(es, comment) == [cells |-> Archive(es, Len(es), 0, comment), sound |-> TRUE, entries |-> Listed(es),
                      layout |-> Layout(es)]
Cut(whole, length) == [whole EXCEPT !.cells = SubSeq(@, 1, length), !.sound = FALSE, !.layout = None]
MCFiles ==
    LET whole == {Whole(es, comment) : es \in Contents, comment \in 0..kMaxCommentLen}
    IN  whole
        \cup UNION {{Cut(w, n) : n \in 0..(Len(w.cells) - 1)} : w \in whole}
        \cup {[cells |-> Archive(One, n[1], n[2], 0), sound |-> FALSE, entries |-> <<>>,
             layout |-> None] :
                n \in {<<2, 0>>, <<1, 1>>}}
=============================================================================
