------------------------------ MODULE MCXhElf ------------------------------
(***************************************************************************)
(* The images XhElf is checked on, built the way a linker lays them out.   *)
(* a and b have hashes that differ in the lowest bit only, c falls into    *)
(* the bucket of a with one bucket or two, and d is in no image.           *)
(***************************************************************************)
EXTENDS XhElf

MCNames == {"a", "b", "c", "d"}
MCHash == [n \in MCNames |-> CASE n = "a" -> 4 [] n = "b" -> 5 [] n = "c" -> 10 [] n = "d" -> 11]

Base == 16
\* Where in the file things are.
SymtabAt == 21
SysvAt == 22
GnuAt == 23
AndroidAt == 24
RelocsAt == 30
Slot(k) == 100 + k
PageOfSlot == [k \in 1..8 |-> IF k <= 4 THEN 1 ELSE 2]

-----------------------------------------------------------------------------
\* Hash tables over the symbols syms, a sequence with the empty name first.
BucketOf(name, nb) == MCHash[name] % nb
SysvTable(syms, nb) ==
    LET next(k, bucket) ==
            LET later == {j \in DOMAIN syms : j > k /\ j > 1 /\ BucketOf(syms[j], nb) = bucket}
            IN  IF later = {} THEN 0 ELSE Min(later) - 1
    IN  [bucket |-> [bucket \in 1..nb |-> next(1, bucket - 1)],
         chain |-> [k \in DOMAIN syms |-> IF k = 1 THEN 0 ELSE next(k, BucketOf(syms[k], nb))]]

\* The symbols after the first off are in the table, by bucket; its filter has
\* one word or two.
GnuTable(syms, off, nb, words, shift) ==
    LET inTable == (off + 1)..Len(syms)
        bucket(k) == BucketOf(syms[k], nb)
        of(b) == {k \in inTable : bucket(k) = b}
        bits(h) == {h % BloomBits, (h \div 2^shift) % BloomBits}
        low(k) == IF k = Len(syms) \/ bucket(k + 1) # bucket(k) THEN 1 ELSE 0
    IN  [bucket |-> [b \in 1..nb |-> IF of(b - 1) = {} THEN 0 ELSE Min(of(b - 1)) - 1],
         chain |-> [j \in 1..(Len(syms) - off) |->
                      2 * (MCHash[syms[off + j]] \div 2) + low(off + j)],
         bloom |-> [w \in 1..words |->
                      UNION {bits(MCHash[syms[k]]) :
                               k \in {k \in inTable : (MCHash[syms[k]] \div BloomBits) % words = w - 1}}],
         shift |-> shift, symoffset |-> off]
ByBucket(syms, off, nb) ==
    \A j, k \in (off + 1)..Len(syms) : j < k => BucketOf(syms[j], nb) <= BucketOf(syms[k], nb)

-----------------------------------------------------------------------------
\* The packed table: a value in the fewest bytes it needs.
Sleb(value) ==
    CASE value \in -64..63 -> <<value % 128>>
      [] value \notin -64..63 /\ value \in -8192..8191 ->
            <<128 + (value % 128), (value \div 128) % 128>>
      [] OTHER ->
            <<128 + (value % 128), 128 + ((value \div 128) % 128), (value \div 16384) % 128>>

\* rels as numbers, in one group or two that meet at cut, with what the flags of
\* a group leave out of its entries; each entry has the addend 70. A table
\* without addends cannot have them by group: the iterator stops there, and
\* linked says what is before.
Packed(rels, start, cut, flags1, flags2, rela) ==
    LET delta(k) == rels[k].offset - (IF k = 1 THEN start ELSE rels[k - 1].offset)
        group(first, last, flags) ==
            [first |-> first, size |-> last - first + 1, flags |-> flags,
             delta |-> delta(first), info |-> rels[first].info]
        groups == [k \in DOMAIN rels |-> IF k <= cut THEN group(1, cut, flags1)
                                         ELSE group(cut + 1, Len(rels), flags2)]
        when(has, number) == IF has THEN Sleb(number) ELSE <<>>
        fields(g) == Sleb(g.size) \o Sleb(g.flags) \o when(ByDelta(g.flags), g.delta)
                     \o when(ByInfo(g.flags), g.info) \o when(AddendByGroup(g.flags) /\ rela, 70)
        entry(k, g) == when(~ByDelta(g.flags), delta(k)) \o when(~ByInfo(g.flags), rels[k].info)
                       \o when(AddendByEntry(g.flags) /\ rela, 70)
        parts == <<Sleb(Len(rels)) \o Sleb(start)>>
                 \o [k \in DOMAIN rels |-> (IF k = groups[k].first THEN fields(groups[k]) ELSE <<>>)
                                          \o entry(k, groups[k])]
        bad(flags) == ~rela /\ AddendByGroup(flags)
        linked == IF cut > 0 /\ bad(flags1) THEN <<>>
                  ELSE IF bad(flags2) THEN SubSeq(rels, 1, cut) ELSE rels
    IN  [magic |-> TRUE, bytes |-> FlattenSeq(parts), linked |-> linked,
         packed |-> [count |-> Len(rels), start |-> start, group |-> groups,
                     at |-> [k \in 1..(Len(rels) + 1) |-> 1 + Len(FlattenSeq(SubSeq(parts, 1, k)))],
                     stop |-> IF cut > 0 /\ bad(flags1) THEN flags1 ELSE flags2]]

\* Where a group can leave out the steps or the symbols.
Fits(rels, start, first, last, flags) ==
    LET delta(k) == rels[k].offset - (IF k = 1 THEN start ELSE rels[k - 1].offset)
    IN  /\ ByDelta(flags) => \A k \in first..last : delta(k) = delta(first)
        /\ ByInfo(flags) => \A k \in first..last : rels[k].info = rels[first].info
NoPacked == [magic |-> TRUE, bytes |-> <<>>, linked |-> <<>>, packed |-> None]

-----------------------------------------------------------------------------
\* An image with the contents and layout c asks for.
Laid(c) ==
    LET bias == Base - c.vaddr
        gnu == GnuTable(c.names, c.off, c.buckets, c.words, c.shift)
        relocs == (IF c.dynFirst THEN c.dyn \o c.plt ELSE c.plt \o c.dyn) \o <<[offset |-> 0, info |-> 0]>>
        pltAt == RelocsAt + (IF c.dynFirst THEN Len(c.dyn) ELSE 0)
        dynAt == RelocsAt + (IF c.dynFirst THEN 0 ELSE Len(c.plt))
        object(to) ==
            CASE to = SymtabAt -> c.names
              [] to = SysvAt -> SysvTable(c.names, c.buckets)
              [] to = GnuAt -> gnu
              [] to = AndroidAt -> c.android
              [] to \in RelocsAt..(RelocsAt + Len(relocs) - 1) -> relocs[to - RelocsAt + 1]
        placed == {SymtabAt, SysvAt, GnuAt, AndroidAt} \cup RelocsAt..(RelocsAt + Len(relocs) - 1)
        entry(tag, val) == IF tag \in c.without THEN <<>> ELSE <<[tag |-> tag, val |-> val]>>
    IN  [base |-> Base, header |-> c.header, phdr |-> c.phdr,
         dyn |-> entry("STRTAB", c.strtab) \o entry("SYMTAB", SymtabAt)
                 \o entry("PLTREL", IF c.rela THEN 1 ELSE 0)
                 \o (IF c.plt = <<>> THEN <<>> ELSE entry("JMPREL", pltAt) \o entry("PLTRELSZ", Len(c.plt)))
                 \o (IF c.dyn = <<>> THEN <<>> ELSE entry("REL", dynAt) \o entry("RELSZ", Len(c.dyn)))
                 \o (IF c.android = NoPacked THEN <<>> ELSE entry("ANDROID_REL", AndroidAt))
                 \o (IF c.kind \in {"sysv", "both"} THEN entry("HASH", SysvAt) ELSE <<>>)
                 \o (IF c.kind = "sysv" THEN <<>> ELSE entry("GNU_HASH", GnuAt))
                 \o (IF "NULL" \in c.without THEN <<>> ELSE entry("NULL", 0) \o entry("SYMTAB", SysvAt)),
         at |-> [addr \in {bias + to : to \in placed} |-> object(addr - bias)],
         names |-> c.names, hooks |-> c.hooks,
         linked |-> [plt |-> c.plt, dyn |-> c.dyn, android |-> c.android.linked,
                     packed |-> c.android.packed],
         page |-> [addr \in {bias + Slot(k) : k \in DOMAIN PageOfSlot} |-> PageOfSlot[addr - bias - 100]],
         prot |-> c.prot]

Rel(index, type, k) == [offset |-> Slot(k), info |-> Info(index, type)]
Phdr == <<[type |-> "phdr", offset |-> 1, vaddr |-> 1], [type |-> "load", offset |-> 0, vaddr |-> 0],
          [type |-> "load", offset |-> 9, vaddr |-> 9], [type |-> "dynamic", offset |-> 9, vaddr |-> 9]>>
\* A small library: a and b imported, c its own, no packed table.
Plain ==
    [names |-> <<None, "a", "b", "c">>, off |-> 3, kind |-> "gnu", buckets |-> 2, words |-> 1, shift |-> 1,
     plt |-> <<Rel(2, JumpSlot, 1), Rel(1, JumpSlot, 2), Rel(2, JumpSlot, 3)>>,
     dyn |-> <<Rel(0, Relative, 4), Rel(1, GlobDat, 5), Rel(2, Abs, 6)>>,
     dynFirst |-> TRUE, android |-> NoPacked, rela |-> FALSE,
     prot |-> [page \in 1..2 |-> {"r"}], hooks |-> <<"a">>,
     header |-> [class |-> TRUE, machine |-> TRUE], phdr |-> Phdr, vaddr |-> 0, strtab |-> 20, without |-> {}]

\* Images that are refused, or lack a table.
Odd ==
    {[Plain EXCEPT !.header.machine = FALSE], [Plain EXCEPT !.phdr = Tail(Tail(Phdr))],
     [Plain EXCEPT !.phdr = SubSeq(Phdr, 1, 3)],
     [Plain EXCEPT !.vaddr = Base, !.phdr[2].vaddr = Base],
     [Plain EXCEPT !.phdr[2].vaddr = Base + 1],
     [Plain EXCEPT !.vaddr = 12, !.phdr[2].vaddr = 12, !.strtab = 1],
     [Plain EXCEPT !.plt[2].offset = WordSize - 8], [Plain EXCEPT !.plt[2].offset = 300],
     [Plain EXCEPT !.android = [NoPacked EXCEPT !.magic = FALSE]]}
    \cup {[Plain EXCEPT !.without = {tag}] : tag \in {"STRTAB", "SYMTAB", "GNU_HASH", "NULL"}}

\* Symbol tables: which names, in which order, how many of them imported.
Symbols ==
    {[Plain EXCEPT !.names = <<None>> \o names, !.off = 1 + imported, !.kind = kind, !.buckets = buckets,
                   !.words = words, !.shift = shift, !.plt = <<>>, !.dyn = <<>>,
                   !.hooks = <<"a", "b", "c", "d">>] :
        names \in SetToAllKPermutations({"a", "b", "c"}), imported \in 0..3,
        kind \in {"sysv", "gnu", "both"}, buckets \in 1..3, words \in 1..2, shift \in 1..2}
SoundSymbols ==
    {c \in Symbols : /\ c.off <= Len(c.names)
                     /\ c.kind = "sysv" => c.words = 1 /\ c.shift = 1 /\ c.off = 1
                     /\ c.kind = "both" => c.words = 1 /\ c.shift = 1
                     /\ c.kind # "sysv" => ByBucket(c.names, c.off, c.buckets)}

\* Plain tables, the protection of their pages, and a symbol hooked twice.
PltTables == {<<>>, <<Rel(1, JumpSlot, 1)>>, <<Rel(2, JumpSlot, 1), Rel(1, JumpSlot, 2)>>,
              <<Rel(1, JumpSlot, 1), Rel(2, JumpSlot, 2), Rel(1, JumpSlot, 3), Rel(1, JumpSlot, 4)>>}
DynTables == {<<>>, <<Rel(1, GlobDat, 5)>>, <<Rel(2, Abs, 5), Rel(1, JumpSlot, 6)>>,
              <<Rel(0, Relative, 4), Rel(1, GlobDat, 5), Rel(2, GlobDat, 6), Rel(1, Abs, 7)>>}
PageProts == {[page \in 1..2 |-> {"r"}], [page \in 1..2 |-> ReadWrite], [page \in 1..2 |-> IF page = 1 THEN {"r"} ELSE None]}
Plains ==
    {[Plain EXCEPT !.plt = plt, !.dyn = dyn, !.dynFirst = first, !.prot = p, !.hooks = hooks] :
        plt \in PltTables, dyn \in DynTables, first \in BOOLEAN, p \in PageProts,
        hooks \in {<<"a", "b">>, <<"a", "a">>}}

\* Packed tables: three relocations, ascending, descending and mixed, from an
\* offset below or above them.
Lists == {<<Rel(1, Abs, 5), Rel(1, Abs, 6), Rel(1, Abs, 7)>>,
          <<Rel(1, GlobDat, 7), Rel(2, Abs, 6), Rel(2, Abs, 5)>>,
          <<Rel(40, Relative, 600), Rel(1, Abs, 6), Rel(1, Abs, 5)>>}
Flags == {0, 1, 2, 3, 8, 11, 12, 15}
Packs ==
    {[Plain EXCEPT !.android = Packed(o[1], o[2], o[3], o[4], o[5], o[6]), !.rela = o[6],
                   !.plt = <<>>, !.dyn = <<>>] :
        o \in {o \in Lists \X {0, 9000} \X (0..2) \X Flags \X Flags \X BOOLEAN :
                 /\ o[3] = 0 => o[4] = 0
                 /\ ~o[6] => o[4] \notin {8, 11} /\ o[5] \notin {8, 11}
                 /\ o[3] > 0 => Fits(o[1], o[2], 1, o[3], o[4])
                 /\ Fits(o[1], o[2], o[3] + 1, 3, o[5])}}

MCImages == {Laid(c) : c \in Odd \cup SoundSymbols \cup Plains \cup Packs}
ASSUME SoundAssumption == \A im \in MCImages : HashesSound(im) /\ RelocsSound(im) /\ PackedSound(im)

\* b is used by the first relocation of .rel.plt and nowhere else.
FirstImages ==
    {Laid([Plain EXCEPT !.hooks = <<"b">>,
                        !.plt = <<Rel(2, JumpSlot, 1), Rel(1, JumpSlot, 2), Rel(1, JumpSlot, 3)>>,
                        !.dyn = <<Rel(0, Relative, 4), Rel(1, GlobDat, 5)>>])}
=============================================================================
