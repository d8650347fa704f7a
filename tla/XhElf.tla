-------------------------------- MODULE XhElf --------------------------------
(***************************************************************************)
(* Hooking a symbol in a mapped ELF (src/xhook/xh_elf.c, xh_util.c): the   *)
(* image is parsed (xh_elf_init), the symbol is looked up in one of two    *)
(* hash tables, and the relocations of three tables are gone through to    *)
(* find the slots that hold the address of the function (xh_elf_hook).     *)
(*                                                                         *)
(* A step is one turn of a loop, or one access to a slot or its page: the  *)
(* threads of the program may call through a slot at any time.  Names are  *)
(* abstract, so their hash is some function of them; a relocation is one   *)
(* unit of memory, a byte of the packed table one element of a sequence.   *)
(***************************************************************************)
EXTENDS Integers, Sequences, FiniteSets, FiniteSetsExt, SequencesExt

CONSTANTS
    Names, None,
    Hash,        \* xh_elf_hash and xh_elf_gnu_hash of a name (300-325)
    WordSize,    \* how many values a size_t has
    BloomBits,   \* elfclass_bits
    Images,      \* the ELFs, see Image
    Fails        \* whether mprotect and reading /proc/self/maps may fail

\* What a slot can hold.
New(name) == <<"new", name>>
Original(addr) == <<"original", addr>>

ASSUME NamesAssumption ==
    None \notin Names /\ None \notin Nat /\ \A n \in Names : None # New(n)
ASSUME HashAssumption == Hash \in [Names -> Nat]
ASSUME BitsAssumption == WordSize \in Nat \ {0, 1} /\ BloomBits \in Nat \ {0}
ASSUME FailsAssumption == Fails \in BOOLEAN
\* What /proc/self/maps can say of a page; None, if it has no private line of the
\* ELF for it.
Protections == {None} \cup SUBSET {"r", "w", "x"}
ASSUME ImagesAssumption ==
    \A im \in Images : /\ im.prot \in [DOMAIN im.prot -> Protections]
                       /\ im.page \in [DOMAIN im.page -> DOMAIN im.prot]
                       /\ \A a \in DOMAIN im.page : None # Original(a)
                       /\ im.hooks \in Seq(Names)
                       /\ im.dyn \in Seq([tag : STRING, val : Nat])

\* The types of a relocation told apart, and r_info, which has the index of the
\* symbol above the type.
Relative == 0
JumpSlot == 1
GlobDat == 2
Abs == 3
Sym(info) == info \div 4
Type(info) == info % 4
Info(sym, type) == 4 * sym + type

VARIABLES
    image,   \* the ELF as it is mapped
    self,    \* xh_elf_t, with what its pointers point to
    pc,      \* where xh_elf_init or xh_elf_hook is
    todo,    \* the symbols still to be hooked, in order
    i,       \* the counter or pointer of the loop at pc
    symidx,  \* the index that was found, None until then
    it,      \* the packed iterator
    given,   \* the relocations it has returned
    slot,    \* the slot being replaced: its address, old_prot, where to go on
    mem,     \* what each slot holds
    prot,    \* protection of each page
    old,     \* *old_func of each hook, None before it is set
    stuck,   \* pages whose protection could not be restored
    result   \* of the call that returned last: "none", "ok", "error"

vars == <<image, self, pc, todo, i, symidx, it, given, slot, mem, prot, old, stuck, result>>

NoIterator ==
    [cur |-> 1, ok |-> TRUE, count |-> 0, offset |-> 0, size |-> 0, flags |-> 0,
     delta |-> 0, info |-> 0, addend |-> 0, index |-> 0, group |-> 0]
\* What memset leaves of xh_elf_t.
NoElf ==
    [bias |-> 0, strtab |-> 0, symtab |-> None, rela |-> FALSE, gnu |-> FALSE,
     relplt |-> 0, relplt_sz |-> 0, reldyn |-> 0, reldyn_sz |-> 0,
     android |-> None, bucket |-> None, chain |-> None,
     symoffset |-> 0, bloom |-> None, shift |-> 0]

Init ==
    /\ image \in Images
    /\ self = NoElf /\ pc = "init" /\ todo = image.hooks /\ i = 1
    /\ symidx = None /\ it = NoIterator /\ given = <<>> /\ slot = None
    /\ mem = [a \in DOMAIN image.page |-> Original(a)]
    /\ prot = image.prot
    /\ old = [n \in Names |-> None] /\ stuck = {} /\ result = "none"

-----------------------------------------------------------------------------
(***************************************************************************)
(* xh_elf_check_elfheader (257-298) and xh_elf_init (759-922).             *)
(***************************************************************************)
Goto(step) == pc' = step
Memory == <<mem, prot, old, stuck>>
Hooking == <<symidx, it, given, slot, Memory>>

\* The ELF is refused; xh_core_hook_impl gives it up.
Refused == pc' = "done" /\ todo' = <<>> /\ result' = "error"
Going == UNCHANGED <<todo, result>>

HeaderOk(im) == \A field \in DOMAIN im.header : im.header[field]

\* Lines 327-353: the first segment that is asked for.
Segments(im, type) == {n \in DOMAIN im.phdr : im.phdr[n].type = type}
LoadSegments(im) == {n \in Segments(im, "load") : im.phdr[n].offset = 0}
FirstOf(S) == CHOOSE n \in S : \A k \in S : n <= k
Bias(im) == im.base - im.phdr[FirstOf(LoadSegments(im))].vaddr

Accepted(im) ==
    /\ im.base # 0 /\ HeaderOk(im) /\ LoadSegments(im) # {} /\ Segments(im, "dynamic") # {}
    /\ im.base >= im.phdr[FirstOf(LoadSegments(im))].vaddr

InitElf ==
    /\ pc = "init"
    /\ IF Accepted(image)
       THEN /\ self' = [NoElf EXCEPT !.bias = Bias(image)]
            /\ i' = 1 /\ Goto("dynamic") /\ Going
       ELSE Refused /\ UNCHANGED <<self, i>>
    /\ UNCHANGED <<image, Hooking>>

\* The pointer of an entry of the dynamic section.
Pointer(entry) == self.bias + entry.val

\* Lines 802-885: what an entry changes, by its tag.  A pointer below the base
\* address is refused.
PointerTags == {"STRTAB", "SYMTAB", "JMPREL", "REL", "ANDROID_REL", "HASH", "GNU_HASH"}
Parsed(entry) ==
    LET to == Pointer(entry)
    IN  CASE entry.tag = "STRTAB" -> [self EXCEPT !.strtab = to]
          [] entry.tag = "SYMTAB" -> [self EXCEPT !.symtab = image.at[to]]
          [] entry.tag = "PLTREL" -> [self EXCEPT !.rela = (entry.val = 1)]
          [] entry.tag = "JMPREL" -> [self EXCEPT !.relplt = to]
          [] entry.tag = "PLTRELSZ" -> [self EXCEPT !.relplt_sz = entry.val]
          [] entry.tag = "REL" -> [self EXCEPT !.reldyn = to]
          [] entry.tag = "RELSZ" -> [self EXCEPT !.reldyn_sz = entry.val]
          [] entry.tag = "ANDROID_REL" -> [self EXCEPT !.android = image.at[to]]
          [] entry.tag = "HASH" ->
                [self EXCEPT !.bucket = image.at[to].bucket, !.chain = image.at[to].chain]
          [] entry.tag = "GNU_HASH" ->
                [self EXCEPT !.bucket = image.at[to].bucket, !.chain = image.at[to].chain,
                             !.symoffset = image.at[to].symoffset, !.bloom = image.at[to].bloom,
                             !.shift = image.at[to].shift, !.gnu = TRUE]
          [] OTHER -> self

ParseDynamic ==
    /\ pc = "dynamic"
    /\ IF i > Len(image.dyn) \/ image.dyn[i].tag = "NULL"
       THEN Goto("check") /\ UNCHANGED <<self, i>> /\ Going
       ELSE IF image.dyn[i].tag \in PointerTags /\ Pointer(image.dyn[i]) < image.base
       THEN Refused /\ UNCHANGED <<self, i>>
       ELSE /\ self' = Parsed(image.dyn[i])
            /\ i' = i + 1 /\ UNCHANGED pc /\ Going
    /\ UNCHANGED <<image, Hooking>>

\* xh_elf_check: nothing that is needed is missing; an ELF loaded where it was
\* linked for has bias 0 and is refused.
Complete ==
    /\ self.bias # 0 /\ self.strtab # 0 /\ self.symtab # None
    /\ self.bucket # None /\ self.chain # None
    /\ self.gnu => self.bloom # None

\* Lines 887-921: a packed table begins with APS2.
CheckElf ==
    /\ pc = "check"
    /\ IF (self.android # None => self.android.magic) /\ Complete
       THEN Goto("next") /\ Going
       ELSE Refused
    /\ UNCHANGED <<image, self, i, Hooking>>

-----------------------------------------------------------------------------
(***************************************************************************)
(* The symbol lookups (355-445).                                           *)
(***************************************************************************)
Name == Head(todo)
NameAt(index) == self.symtab[index + 1]
HashOf == Hash[Name]
Bucket == self.bucket[(HashOf % Len(self.bucket)) + 1]

Looking == <<image, self, todo, it, given, slot, Memory, result>>
Found(index) == symidx' = index /\ Goto("plt") /\ i' = 0
LookOn(step, next) == UNCHANGED symidx /\ Goto(step) /\ i' = next
\* xh_elf_hook returns 0 if there is no such symbol.
NotFound == LookOn("return", 0)

\* The next call of xh_elf_hook (lines 979-999, 439-445).
NextHook ==
    /\ pc = "next" /\ todo # <<>>
    /\ IF self.gnu THEN Goto("bloom") /\ i' = 0 ELSE Goto("sysv") /\ i' = Bucket
    /\ result' = "ok" /\ given' = <<>>
    /\ UNCHANGED <<image, self, todo, symidx, it, slot, Memory>>

\* It returns; xh_core_hook_impl does not look at the result.
Return ==
    /\ pc = "return"
    /\ todo' = Tail(todo) /\ Goto("next") /\ symidx' = None
    /\ UNCHANGED <<image, self, i, it, given, slot, Memory, result>>

AllHooked ==
    /\ pc = "next" /\ todo = <<>>
    /\ Goto("done")
    /\ UNCHANGED <<image, self, todo, i, Hooking, result>>

\* The last states.
Idle == pc \in {"done", "crashed"} /\ UNCHANGED vars

\* xh_elf_hash_lookup: along the chain, which ends with 0.
SysvLookup ==
    /\ pc = "sysv"
    /\ \/ i = 0 /\ NotFound
       \/ i # 0 /\ NameAt(i) = Name /\ Found(i)
       \/ i # 0 /\ NameAt(i) # Name /\ LookOn("sysv", self.chain[i + 1])
    /\ UNCHANGED Looking

\* xh_elf_gnu_hash_lookup_def, 376-391: both bits of the hash in the filter, and
\* a bucket that is not empty; otherwise the undefined symbols are next.
BloomBit(bit) ==
    bit % BloomBits \in self.bloom[((HashOf \div BloomBits) % Len(self.bloom)) + 1]
GnuBloom ==
    /\ pc = "bloom"
    /\ IF /\ BloomBit(HashOf) /\ BloomBit(HashOf \div 2^self.shift)
          /\ Bucket >= self.symoffset
       THEN LookOn("gnu", Bucket)
       ELSE LookOn("undef", 0)
    /\ UNCHANGED Looking

\* Mutant: the lowest bit of the hash is compared, too.
GnuLookupExact ==
    /\ pc = "gnu"
    /\ LET symhash == self.chain[i - self.symoffset + 1]
       IN  \/ /\ HashOf = symhash /\ NameAt(i) = Name
              /\ Found(i)
           \/ /\ HashOf # symhash \/ NameAt(i) # Name
              /\ IF symhash % 2 = 1 THEN LookOn("undef", 0) ELSE LookOn("gnu", i + 1)
    /\ UNCHANGED Looking

\* 393-413: hashes are compared without their lowest bit, which ends the chain.
GnuLookup ==
    /\ pc = "gnu"
    /\ LET symhash == self.chain[i - self.symoffset + 1]
       IN  \/ /\ HashOf \div 2 = symhash \div 2 /\ NameAt(i) = Name
              /\ Found(i)
           \/ /\ HashOf \div 2 # symhash \div 2 \/ NameAt(i) # Name
              /\ IF symhash % 2 = 1 THEN LookOn("undef", 0) ELSE LookOn("gnu", i + 1)
    /\ UNCHANGED Looking

\* xh_elf_gnu_hash_lookup_undef: the symbols that are not in the table.
GnuUndef ==
    /\ pc = "undef"
    /\ \/ i >= self.symoffset /\ NotFound
       \/ i < self.symoffset /\ NameAt(i) = Name /\ Found(i)
       \/ i < self.symoffset /\ NameAt(i) # Name /\ LookOn("undef", i + 1)
    /\ UNCHANGED Looking

-----------------------------------------------------------------------------
(***************************************************************************)
(* The tables.  A plain iterator (70-94) goes to the next relocation       *)
(* before it returns one: the first of the table is never returned, and    *)
(* what follows the last one is.                                           *)
(***************************************************************************)
Walking == <<image, self, todo, symidx, mem, prot, old, stuck>>

\* Lines 954-961, for the symbol and the types of the table.
Types(isPlt) == IF isPlt THEN {JumpSlot} ELSE {GlobDat, Abs}
Matches(rel, isPlt) == Sym(rel.info) = symidx /\ Type(rel.info) \in Types(isPlt)

\* Addresses are words.
Address(rel) == (self.bias + rel.offset) % WordSize

\* xh_elf_find_and_replace_func: one relocation is examined; then goes to the
\* step named next, at once if it is not one of the symbol's.
Examine(rel, isPlt, next) ==
    \/ /\ ~Matches(rel, isPlt)
       /\ UNCHANGED <<pc, slot, result>>
    \/ /\ Matches(rel, isPlt) /\ Address(rel) < image.base
       /\ Goto("return") /\ result' = "error" /\ UNCHANGED slot
    \/ /\ Matches(rel, isPlt) /\ Address(rel) >= image.base
       /\ slot' = [addr |-> Address(rel), was |-> None, next |-> next]
       /\ Goto("compare") /\ UNCHANGED result

\* Lines 1001-1013.  One slot of the table is enough.
PltTable ==
    /\ pc = "plt"
    /\ IF self.relplt = 0 \/ i >= self.relplt_sz
       THEN Goto("leaveplt") /\ UNCHANGED <<i, slot, result>>
       ELSE /\ i' = i + 1
            /\ Examine(image.at[self.relplt + i'], TRUE, "leaveplt")
    /\ UNCHANGED <<Walking, it, given>>

LeavePlt ==
    /\ pc = "leaveplt"
    /\ Goto("dyn") /\ i' = 0
    /\ UNCHANGED <<Walking, it, given, slot, result>>

\* Mutant: the search stops at the first slot, as in .plt.
DynTableOnce ==
    /\ pc = "dyn"
    /\ IF self.reldyn = 0 \/ i >= self.reldyn_sz
       THEN Goto("packed0") /\ UNCHANGED <<i, slot, result>>
       ELSE /\ i' = i + 1
            /\ Examine(image.at[self.reldyn + i'], FALSE, "packed0")
    /\ UNCHANGED <<Walking, it, given>>

\* Lines 1015-1026.
DynTable ==
    /\ pc = "dyn"
    /\ IF self.reldyn = 0 \/ i >= self.reldyn_sz
       THEN Goto("packed0") /\ UNCHANGED <<i, slot, result>>
       ELSE /\ i' = i + 1
            /\ Examine(image.at[self.reldyn + i'], FALSE, "dyn")
    /\ UNCHANGED <<Walking, it, given>>

-----------------------------------------------------------------------------
(***************************************************************************)
(* The packed table (96-255).                                              *)
(***************************************************************************)
Bytes == self.android.bytes

\* xh_elf_sleb128_decoder_next at cur: seven bits a byte from the low ones, up
\* to the first byte without the continuation bit, whose bit 64 is the sign; a
\* word keeps what fits. Fails, if there is no last byte.
Ends(cur) == {k \in cur..Len(Bytes) : Bytes[k] < 128}
\* Mutant: the sign is not extended.
DecodedUnsigned(cur, last) ==
    LET value[k \in cur..last] ==
            IF k < last THEN (Bytes[k] % 128) + 128 * value[k + 1] ELSE Bytes[k]
    IN  value[cur] % WordSize

\* What the bytes say from each on.
Signed(cur, last) ==
    LET value[k \in cur..last] ==
            IF k < last THEN (Bytes[k] % 128) + 128 * value[k + 1]
            ELSE IF Bytes[k] < 64 THEN Bytes[k] ELSE Bytes[k] - 128
    IN  value
Decoded(cur, last) == Signed(cur, last)[cur] % WordSize

\* Mutant: the sum of the offsets is not kept in a word.
ReadWide(st, field) ==
    IF ~st.ok \/ Ends(st.cur) = {} THEN [st EXCEPT !.ok = FALSE]
    ELSE LET last == Min(Ends(st.cur))
             onto == IF field \in {"offset", "addend"} THEN st[field] ELSE 0
         IN  [st EXCEPT ![field] = onto + Decoded(st.cur, last), !.cur = last + 1]

\* One value is read into a field of the iterator; offsets and addends are added
\* up.
Read(st, field) ==
    IF ~st.ok \/ Ends(st.cur) = {} THEN [st EXCEPT !.ok = FALSE]
    ELSE LET last == Min(Ends(st.cur))
             onto == IF field \in {"offset", "addend"} THEN st[field] ELSE 0
         IN  [st EXCEPT ![field] = (onto + Decoded(st.cur, last)) % WordSize, !.cur = last + 1]
ReadIf(st, has, field) == IF has THEN Read(st, field) ELSE st

\* What a group and its entries have, by the flags of the group.
Flagged(flags, flag) == (flags \div flag) % 2 = 1
ByInfo(flags) == Flagged(flags, 1)
ByDelta(flags) == Flagged(flags, 2)
ByAddend(flags) == Flagged(flags, 4)
HasAddend(flags) == Flagged(flags, 8)
AddendByGroup(flags) == HasAddend(flags) /\ ByAddend(flags)
AddendByEntry(flags) == HasAddend(flags) /\ ~ByAddend(flags)

\* xh_elf_packed_reloc_iterator_read_group_fields (173-205); a table without
\* addends cannot have one for a group.
GroupFields(st) ==
    LET head == Read(Read(st, "size"), "flags")
        delta == ReadIf(head, ByDelta(head.flags), "delta")
        info == ReadIf(delta, ByInfo(head.flags), "info")
    IN  [ReadIf(info, AddendByGroup(head.flags), "addend") EXCEPT
            !.group = 0,
            !.ok = @ /\ (AddendByGroup(head.flags) => self.rela),
            !.addend = IF HasAddend(head.flags) THEN @ ELSE 0]

\* xh_elf_packed_reloc_iterator_next (207-255), not at the end: the iterator
\* after it, not ok if it returns NULL.
Advanced(st) ==
    LET start == IF st.group = st.size THEN GroupFields(st) ELSE st
        offset == ReadIf(start, ~ByDelta(start.flags), "offset")
        info == ReadIf(offset, ~ByInfo(start.flags), "info")
    IN  [ReadIf(info, self.rela /\ AddendByEntry(start.flags), "addend") EXCEPT
            !.offset = IF ByDelta(start.flags) THEN (@ + start.delta) % WordSize ELSE @,
            !.index = @ + 1, !.group = @ + 1]

\* xh_elf_packed_reloc_iterator_init; its result is not looked at.
PackedInit ==
    /\ pc = "packed0"
    /\ IF self.android = None
       THEN Goto("return") /\ UNCHANGED it
       ELSE Goto("packed") /\ it' = Read(Read(NoIterator, "count"), "offset")
    /\ UNCHANGED <<Walking, i, given, slot, result>>

\* Lines 1032-1038.
PackedTable ==
    /\ pc = "packed"
    /\ LET next == Advanced(it)
           rel == [offset |-> next.offset, info |-> next.info]
       IN  IF it.index < it.count /\ next.ok
           THEN it' = next /\ given' = Append(given, rel) /\ Examine(rel, FALSE, "packed")
           ELSE Goto("return") /\ UNCHANGED <<it, given, slot, result>>
    /\ UNCHANGED <<Walking, i>>

-----------------------------------------------------------------------------
(***************************************************************************)
(* xh_elf_replace_function (447-496).  Every access to the slot or to the  *)
(* protection of its page is a step.                                       *)
(***************************************************************************)
ReadWrite == {"r", "w"}
PageOf == image.page[slot.addr]
Replacing == <<image, self, todo, i, symidx, it, given>>

\* xh_util_get_mem_protect.  A slot is in one page.
Protection == prot[PageOf]
\* xh_util_set_addr_protect
Protected(value) == prot' = [prot EXCEPT ![PageOf] = value]

Fail == Goto("return") /\ result' = "error" /\ UNCHANGED slot

Mapped == slot.addr \in DOMAIN image.page
\* The address of a relocation need not be one of the ELF: reading it there ends the
\* process, for nothing handles SIGSEGV.
Faults ==
    /\ pc = "compare" /\ ~Mapped
    /\ Goto("crashed")
    /\ UNCHANGED <<Replacing, slot, Memory, result>>

\* Mutant: a slot that is replaced already is not left alone.
CompareNot ==
    /\ pc = "compare" /\ Mapped
    /\ \/ /\ Protection # None
          /\ slot' = [slot EXCEPT !.was = Protection]
          /\ Goto(IF slot'.was = ReadWrite THEN "save" ELSE "unlock") /\ UNCHANGED result
       \/ (Protection = None \/ Fails) /\ Fail
    /\ UNCHANGED <<Replacing, Memory>>

\* Lines 447-464: replaced already, or the protection is asked for, which can fail
\* for want of /proc/self/maps.
Compare ==
    /\ pc = "compare" /\ Mapped
    /\ \/ mem[slot.addr] = New(Name) /\ Goto(slot.next) /\ UNCHANGED <<slot, result>>
       \/ /\ mem[slot.addr] # New(Name) /\ Protection # None
          /\ slot' = [slot EXCEPT !.was = Protection]
          /\ Goto(IF slot'.was = ReadWrite THEN "save" ELSE "unlock") /\ UNCHANGED result
       \/ mem[slot.addr] # New(Name) /\ (Protection = None \/ Fails) /\ Fail
    /\ UNCHANGED <<Replacing, Memory>>

\* Lines 466-474
Unlock ==
    /\ pc = "unlock"
    /\ \/ Protected(ReadWrite) /\ Goto("save") /\ UNCHANGED <<slot, result>>
       \/ Fails /\ Fail /\ UNCHANGED prot
    /\ UNCHANGED <<Replacing, mem, old, stuck>>

SaveOld ==
    /\ pc = "save"
    /\ old' = [old EXCEPT ![Name] = mem[slot.addr]]
    /\ Goto("write")
    /\ UNCHANGED <<Replacing, slot, mem, prot, stuck, result>>

\* Mutant: the protection is not given back.
WriteNewOpen ==
    /\ pc = "write"
    /\ mem' = [mem EXCEPT ![slot.addr] = New(Name)]
    /\ Goto(slot.next)
    /\ UNCHANGED <<Replacing, slot, prot, old, stuck, result>>

WriteNew ==
    /\ pc = "write"
    /\ mem' = [mem EXCEPT ![slot.addr] = New(Name)]
    /\ Goto(IF slot.was = ReadWrite THEN slot.next ELSE "restore")
    /\ UNCHANGED <<Replacing, slot, prot, old, stuck, result>>

\* Lines 483-490: a failure is only logged.
Restore ==
    /\ pc = "restore"
    /\ \/ Protected(slot.was) /\ UNCHANGED stuck
       \/ Fails /\ stuck' = stuck \cup {PageOf} /\ UNCHANGED prot
    /\ Goto(slot.next)
    /\ UNCHANGED <<Replacing, slot, mem, old, result>>

-----------------------------------------------------------------------------
Next ==
    \/ InitElf \/ ParseDynamic \/ CheckElf
    \/ NextHook \/ SysvLookup \/ GnuBloom \/ GnuLookup \/ GnuUndef
    \/ PltTable \/ LeavePlt \/ DynTable \/ PackedInit \/ PackedTable
    \/ Faults \/ Compare \/ Unlock \/ SaveOld \/ WriteNew \/ Restore
    \/ Return \/ AllHooked \/ Idle

Spec == Init /\ [][Next]_vars

-----------------------------------------------------------------------------
(***************************************************************************)
(* What the linker put into an image, independently of how it is laid out: *)
(* names are its symbols and linked its relocations.  Its tables are sound *)
(* if they say so in the way a reader of the formats expects.              *)
(***************************************************************************)
\* The entries of the dynamic section xh_elf_init gets to, and what they point to.
Entries(im) == {k \in 1..Len(im.dyn) : \A l \in 1..k : im.dyn[l].tag # "NULL"}
Tagged(im, tag) == {k \in Entries(im) : im.dyn[k].tag = tag}
At(im, k) == Bias(im) + im.dyn[k].val
Target(im, k) == im.at[At(im, k)]

Indices(names) == 0..(Len(names) - 1)

\* The chain from an index leads to another: a set that has the one, and with each
\* the next, has the other.
Reaches(names, table, from, index) ==
    \A S \in SUBSET Indices(names) :
        from \in S /\ (\A j \in S \ {0} : table.chain[j + 1] \in S) => index \in S

\* Every symbol is in the chain of its bucket.
SysvSound(names, table) ==
    /\ table.bucket \in Seq(Indices(names)) /\ table.bucket # <<>>
    /\ \A j \in Indices(names) : table.chain[j + 1] \in Indices(names)
    /\ \A k \in Indices(names) \ {0} :
          Reaches(names, table, table.bucket[(Hash[names[k + 1]] % Len(table.bucket)) + 1], k)

\* Every symbol from symoffset on is in the filter and in the chain of its bucket.
LowBit(table, k) == table.chain[k - table.symoffset + 1] % 2
GnuSound(names, table) ==
    /\ table.symoffset \in 1..Len(names)
    /\ table.bucket \in Seq(Indices(names)) /\ table.bucket # <<>> /\ table.bloom # <<>>
    /\ table.symoffset < Len(names) => LowBit(table, Len(names) - 1) = 1
    /\ \A k \in table.symoffset..(Len(names) - 1) :
          LET hash == Hash[names[k + 1]]
              word == table.bloom[((hash \div BloomBits) % Len(table.bloom)) + 1]
              first == table.bucket[(hash % Len(table.bucket)) + 1]
          IN  /\ {hash % BloomBits, (hash \div 2^table.shift) % BloomBits} \subseteq word
              /\ first \in table.symoffset..k
              /\ table.chain[k - table.symoffset + 1] \div 2 = hash \div 2
              /\ \A j \in first..(k - 1) : LowBit(table, j) = 0

\* The code reads both tables into the same fields, so the one it says it uses has
\* to be the last.
HashesSound(im) ==
    Accepted(im) =>
        /\ im.names \in Seq({None} \cup Names) /\ im.names # <<>>
        /\ \A k \in 1..Len(im.names) : im.names[k] = None <=> k = 1
        /\ \A k \in Tagged(im, "SYMTAB") : Target(im, k) = im.names
        /\ \A k \in Tagged(im, "HASH") : SysvSound(im.names, Target(im, k))
        /\ \A k \in Tagged(im, "GNU_HASH") : GnuSound(im.names, Target(im, k))
        /\ \A k \in Tagged(im, "GNU_HASH"), l \in Tagged(im, "HASH") : l < k

\* The relocations of a table for a symbol, and their slots.
For(im, rels, n, isPlt) ==
    {k \in 1..Len(rels) : /\ Type(rels[k].info) \in Types(isPlt)
                          /\ im.names[Sym(rels[k].info) + 1] = n}
SlotsOf(im, rels, ks) == {(Bias(im) + rels[k].offset) % WordSize : k \in ks}
FirstIn(ks) == {k \in ks : \A l \in ks : k <= l}
\* The slots of a symbol, from the from-th relocation of a plain table on: one
\* of .plt, all of the others.
PltSlots(im, n, from) ==
    SlotsOf(im, im.linked.plt, FirstIn({k \in For(im, im.linked.plt, n, TRUE) : k >= from}))
DynSlots(im, n, from) ==
    SlotsOf(im, im.linked.dyn, {k \in For(im, im.linked.dyn, n, FALSE) : k >= from})
AndroidSlots(im, n) ==
    SlotsOf(im, im.linked.android, For(im, im.linked.android, n, FALSE))
Slots(im, n, from) == PltSlots(im, n, from) \cup DynSlots(im, n, from) \cup AndroidSlots(im, n)

\* A plain table is where the dynamic section says, and what comes behind it is
\* not for a symbol.  Address 0 says that there is no table.
TableSound(im, rels, isPlt, tag, sizeTag) ==
    /\ rels # <<>> => Tagged(im, tag) # {} /\ Tagged(im, sizeTag) # {}
    /\ \A k \in Tagged(im, sizeTag) : im.dyn[k].val = Len(rels)
    /\ \A k \in Tagged(im, tag) :
          /\ At(im, k) # 0
          /\ \A n \in 1..(Len(rels) - 1) : im.at[At(im, k) + n] = rels[n + 1]
          /\ Type(im.at[At(im, k) + Len(rels)].info) \notin Types(isPlt)
\* The relocations that are for symbols are for symbols of the image.
SymbolsSound(im, rels, isPlt) ==
    /\ rels \in Seq([offset : Nat, info : Nat])
    /\ \A k \in 1..Len(rels) :
          Type(rels[k].info) \in Types(isPlt) => Sym(rels[k].info) \in Indices(im.names)

\* A number in a packed table takes the bytes up to the first without the
\* continuation bit, its lowest seven bits first; what is left of it for the last
\* one is a number of seven bits. That one begins within a word: the code shifts it
\* by as much as there is before it, which C defines within a word only (123).
Words == 0..(WordSize - 1)
EndOf(bytes, p) == Min({k \in p..Len(bytes) : bytes[k] < 128})
HasNumber(bytes, p) ==
    /\ p \in 1..Len(bytes) /\ \E k \in p..Len(bytes) : bytes[k] < 128
    /\ 128^(EndOf(bytes, p) - p) < WordSize
\* What is left of a number from each byte on.
Rest(v, p, last) ==
    LET rest[k \in p..last] == IF k = p THEN v ELSE rest[k - 1] \div 128
    IN  rest
Encodes(bytes, p, v) ==
    /\ v \in Int /\ HasNumber(bytes, p)
    /\ \A k \in p..EndOf(bytes, p) : bytes[k] % 128 = Rest(v, p, EndOf(bytes, p))[k] % 128
    /\ Rest(v, p, EndOf(bytes, p))[EndOf(bytes, p)] \in -64..63
Behind(bytes, p) == EndOf(bytes, p) + 1
\* Behind a number that need not be there.
Past(bytes, p, has) == IF has THEN Behind(bytes, p) ELSE p

\* Whether the tables have addends.
Rela(im) == \E k \in Tagged(im, "PLTREL") : im.dyn[k].val = 1

\* The fields of a group, at p: size and flags, and what the flags say.
DeltaAt(bytes, p) == Behind(bytes, Behind(bytes, p))
InfoAt(bytes, p, flags) == Past(bytes, DeltaAt(bytes, p), ByDelta(flags))
AddendAt(bytes, p, flags) == Past(bytes, InfoAt(bytes, p, flags), ByInfo(flags))
EntriesAt(bytes, p, flags) == Past(bytes, AddendAt(bytes, p, flags), AddendByGroup(flags))
GroupSound(im, bytes, p, g) ==
    /\ {g.size, g.flags} \subseteq Words
    /\ Encodes(bytes, p, g.size) /\ Encodes(bytes, Behind(bytes, p), g.flags)
    /\ ByDelta(g.flags) => Encodes(bytes, DeltaAt(bytes, p), g.delta)
    /\ ByInfo(g.flags) => Encodes(bytes, InfoAt(bytes, p, g.flags), g.info)
    /\ AddendByGroup(g.flags) => Rela(im) /\ HasNumber(bytes, AddendAt(bytes, p, g.flags))

\* linked.packed says how the linker wrote them: the group of each relocation, and
\* where what is for it begins (at), with the fields of the group if it is the
\* first. A group ends where the next one begins.
Ended(packed, k) == k = 0 \/ packed.group[k].first + packed.group[k].size = k + 1
PackedReloc(im, bytes, k) ==
    LET rels == im.linked.android
        packed == im.linked.packed
        g == packed.group[k]
        step == rels[k].offset - (IF k = 1 THEN packed.start ELSE rels[k - 1].offset)
        entry == IF k = g.first THEN EntriesAt(bytes, packed.at[k], g.flags) ELSE packed.at[k]
        info == Past(bytes, entry, ~ByDelta(g.flags))
        addend == Past(bytes, info, ~ByInfo(g.flags))
        own == Rela(im) /\ AddendByEntry(g.flags)
    IN  /\ g.first \in 1..k /\ k < g.first + g.size
        /\ IF k = g.first THEN Ended(packed, k - 1) /\ GroupSound(im, bytes, packed.at[k], g)
                          ELSE packed.group[k - 1] = g
        /\ IF ByDelta(g.flags) THEN g.delta = step ELSE Encodes(bytes, entry, step)
        /\ IF ByInfo(g.flags) THEN g.info = rels[k].info ELSE Encodes(bytes, info, rels[k].info)
        /\ own => HasNumber(bytes, addend)
        /\ packed.at[k + 1] = Past(bytes, addend, own)

\* All of them, and behind them nothing or a group that a table without addends
\* cannot have.
PackedBytes(im, bytes) ==
    LET rels == im.linked.android
        packed == im.linked.packed
        end == packed.at[Len(rels) + 1]
    IN  /\ bytes \in Seq(0..255) /\ Len(bytes) + 1 \in Words
        /\ {packed.count, packed.start} \subseteq Words /\ packed.count >= Len(rels)
        /\ Encodes(bytes, 1, packed.count) /\ Encodes(bytes, Behind(bytes, 1), packed.start)
        /\ packed.at[1] = Behind(bytes, Behind(bytes, 1))
        /\ \A k \in 1..Len(rels) : PackedReloc(im, bytes, k)
        /\ packed.count > Len(rels) =>
              /\ Ended(packed, Len(rels)) /\ ~Rela(im) /\ HasNumber(bytes, end)
              /\ packed.stop \in Words /\ AddendByGroup(packed.stop)
              /\ Encodes(bytes, Behind(bytes, end), packed.stop)

PackedSound(im) ==
    /\ im.linked.android \in Seq([offset : Words, info : Words])
    /\ Accepted(im) =>
        /\ Tagged(im, "ANDROID_REL") = {} => im.linked.android = <<>>
        /\ \A k \in Tagged(im, "PLTREL") : im.dyn[k].val = 1 <=> Rela(im)
        /\ \A k \in Tagged(im, "ANDROID_REL") :
              Target(im, k) # None /\ (Target(im, k).magic => PackedBytes(im, Target(im, k).bytes))

\* The symbols have names of their own, and no two of them share a slot.
RelocsSound(im) ==
    Accepted(im) =>
        /\ \A j, k \in 1..Len(im.names) : im.names[j] = im.names[k] => j = k
        /\ TableSound(im, im.linked.plt, TRUE, "JMPREL", "PLTRELSZ")
        /\ TableSound(im, im.linked.dyn, FALSE, "REL", "RELSZ")
        /\ SymbolsSound(im, im.linked.plt, TRUE)
        /\ SymbolsSound(im, im.linked.dyn, FALSE)
        /\ SymbolsSound(im, im.linked.android, FALSE)
        /\ \A m, n \in Names : m # n => Slots(im, m, 2) \cap Slots(im, n, 2) = {}

-----------------------------------------------------------------------------
(***************************************************************************)
(* Properties.                                                             *)
(***************************************************************************)
\* The values the variables take; what the iterator computes stays in a word.
TypeOK ==
    /\ pc \in {"init", "dynamic", "check", "next", "sysv", "bloom", "gnu", "undef", "plt",
               "leaveplt", "dyn", "packed0", "packed", "compare", "unlock", "save", "write",
               "restore", "return", "done", "crashed"}
    /\ i \in Nat /\ symidx \in {None} \cup Nat
    /\ \A field \in DOMAIN it \ {"ok"} : it[field] \in Words
    /\ prot \in [DOMAIN image.prot -> Protections]
    /\ result \in {"none", "ok", "error"}

\* A lookup finds the symbol of that name, through either table, and says there
\* is none only if there is none: no filter, chain end or bucket hides a symbol
\* (355-445).
LookupExact ==
    /\ symidx # None => image.names[symidx + 1] = Name
    /\ pc = "return" /\ symidx = None => \A n \in DOMAIN image.names : image.names[n] # Name

\* The packed table hands out the relocations that were encoded, in order and
\* all of them, however they were put into groups (96-255).
PackedExact ==
    /\ IsPrefix(given, image.linked.android)
    /\ pc = "return" /\ result = "ok" /\ symidx # None => given = image.linked.android

AllReplaced(from) ==
    pc = "return" /\ result = "ok" /\ symidx # None =>
        \A a \in Slots(image, Name, from) : mem[a] = New(Name)

\* A hook that succeeds has replaced every slot of the symbol but those of the
\* first relocation of a plain table, and no hook touches another slot, whichever
\* table comes behind the one it overruns (979-1042).
SlotsReplaced ==
    /\ AllReplaced(2)
    /\ \A a \in DOMAIN mem : \A n \in Names : mem[a] = New(n) => a \in Slots(image, n, 2)

\* A thread that gets into the new function through a slot finds the original one
\* in *old_func: it is set first, and hooking a symbol again does not set it to
\* the new function (447-496).
OldBeforeNew ==
    /\ \A a \in DOMAIN mem : \A n \in Names : mem[a] = New(n) => old[n] # None
    /\ \A n \in Names : old[n] # None => \E a \in Slots(image, n, 2) : old[n] = Original(a)

\* A page can be written to when a slot in it is, and has its own protection
\* otherwise, unless giving it back failed (463-490).
ProtRestored ==
    /\ pc = "write" => prot[PageOf] = ReadWrite
    /\ pc \notin {"save", "write", "restore"} =>
          \A page \in DOMAIN prot \ stuck : prot[page] = image.prot[page]

\* "replace for .rel(a).plt", "replace for .rel(a).dyn" (1001, 1015): the slots of
\* every relocation of the tables are replaced.
EveryRelocation == AllReplaced(1)
=============================================================================
