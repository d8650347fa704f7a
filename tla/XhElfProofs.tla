----------------------------- MODULE XhElfProofs -----------------------------
(***************************************************************************)
(* Proofs about XhElf, for any images: pages get their protection back;    *)
(* and, for images whose tables are sound, a lookup is exact, the packed   *)
(* table is handed out as it was linked, a hook has replaced the slots it  *)
(* should and no other, and a thread that gets into the new function finds *)
(* the original one in *old_func.                                          *)
(***************************************************************************)
EXTENDS XhElf, NaturalsInduction, WellFoundedInduction, TLAPS

InSlot == {"compare", "unlock", "save", "write", "restore"}
Open == {"save", "write", "restore"}
\* Where a table is gone on with after a slot.
GoOn == {"leaveplt", "dyn", "packed"}

-----------------------------------------------------------------------------
(***************************************************************************)
(* The protection of pages.  While a slot is replaced only its page has    *)
(* another protection than before, and slot.was is that one, unless a      *)
(* failure left it open earlier.                                           *)
(***************************************************************************)
SlotKnown ==
    /\ pc \in InSlot =>
          slot = [addr |-> slot.addr, was |-> slot.was, next |-> slot.next] /\ slot.next \in GoOn
    /\ pc \in InSlot \ {"compare"} =>
          Mapped /\ slot.was \in Protections /\ (PageOf \in stuck \/ slot.was = image.prot[PageOf])
    /\ pc \in {"save", "write"} => Protection = ReadWrite
OthersRest ==
    \A page \in DOMAIN image.prot \ stuck :
        prot[page] = image.prot[page] \/ (pc \in Open /\ page = PageOf)
PagesInv ==
    /\ image \in Images /\ prot \in [DOMAIN image.prot -> Protections]
    /\ SlotKnown /\ OthersRest

LEMMA PagesInit == Init => PagesInv
BY ImagesAssumption DEF Init, PagesInv, SlotKnown, OthersRest, InSlot, Open

\* What PagesInv says when no slot is being replaced.
LEMMA PagesAtRest ==
    ASSUME PagesInv, pc \notin InSlot, UNCHANGED <<image, prot, stuck>>, pc' \notin InSlot
    PROVE  PagesInv'
BY DEF PagesInv, SlotKnown, OthersRest, InSlot, Open

\* The steps that have nothing to do with slots.
LEMMA NoSlotSteps ==
    ASSUME \/ InitElf \/ ParseDynamic \/ CheckElf
           \/ NextHook \/ SysvLookup \/ GnuBloom \/ GnuLookup \/ GnuUndef
           \/ LeavePlt \/ PackedInit \/ Return \/ AllHooked
    PROVE  /\ UNCHANGED <<image, mem, prot, stuck, old>>
           /\ pc \notin InSlot /\ pc' \notin InSlot
<1>1. CASE InitElf
  BY <1>1 DEF InitElf, Refused, Goto, Going, Hooking, Memory, InSlot
<1>2. CASE ParseDynamic
  BY <1>2 DEF ParseDynamic, Refused, Goto, Going, Hooking, Memory, InSlot
<1>3. CASE CheckElf
  BY <1>3 DEF CheckElf, Refused, Goto, Going, Hooking, Memory, InSlot
<1>4. CASE NextHook
  BY <1>4 DEF NextHook, Goto, Memory, InSlot
<1>5. CASE SysvLookup
  BY <1>5 DEF SysvLookup, Looking, NotFound, Found, LookOn, Goto, Memory, InSlot
<1>6. CASE GnuBloom
  BY <1>6 DEF GnuBloom, Looking, LookOn, Goto, Memory, InSlot
<1>7. CASE GnuLookup
  BY <1>7 DEF GnuLookup, Looking, NotFound, Found, LookOn, Goto, Memory, InSlot
<1>8. CASE GnuUndef
  BY <1>8 DEF GnuUndef, Looking, NotFound, Found, LookOn, Goto, Memory, InSlot
<1>9. CASE LeavePlt
  BY <1>9 DEF LeavePlt, Walking, Goto, InSlot
<1>10. CASE PackedInit
  BY <1>10 DEF PackedInit, Walking, Goto, InSlot
<1>11. CASE Return
  BY <1>11 DEF Return, Goto, Memory, InSlot
<1>12. CASE AllHooked
  BY <1>12 DEF AllHooked, Goto, Hooking, Memory, InSlot
<1> QED BY <1>1, <1>2, <1>3, <1>4, <1>5, <1>6, <1>7, <1>8, <1>9, <1>10, <1>11, <1>12

\* A step along a table: on, or to a slot it has found.
Slotted == slot' = [addr |-> slot'.addr, was |-> None, next |-> slot'.next] /\ slot'.next \in GoOn
LEMMA Examined ==
    ASSUME NEW rel, NEW isPlt, NEW next \in GoOn, Examine(rel, isPlt, next)
    PROVE  \/ UNCHANGED pc
           \/ pc' = "return"
           \/ pc' = "compare" /\ Slotted
BY DEF Examine, Goto, Slotted

LEMMA TableSteps ==
    ASSUME PltTable \/ DynTable \/ PackedTable
    PROVE  /\ UNCHANGED <<image, mem, prot, stuck, old>>
           /\ pc \notin InSlot
           /\ pc' \in InSlot => pc' = "compare" /\ Slotted
<1>1. CASE PltTable
  <2>1. /\ pc = "plt" /\ UNCHANGED <<image, mem, prot, stuck, old>>
        /\ pc' = "leaveplt" \/ Examine(image.at[self.relplt + i'], TRUE, "leaveplt")
    BY <1>1 DEF PltTable, Walking, Goto
  <2> QED BY <2>1, Examined DEF InSlot, GoOn
<1>2. CASE DynTable
  <2>1. /\ pc = "dyn" /\ UNCHANGED <<image, mem, prot, stuck, old>>
        /\ pc' = "packed0" \/ Examine(image.at[self.reldyn + i'], FALSE, "dyn")
    BY <1>2 DEF DynTable, Walking, Goto
  <2> QED BY <2>1, Examined DEF InSlot, GoOn
<1>3. CASE PackedTable
  <2>1. /\ pc = "packed" /\ UNCHANGED <<image, mem, prot, stuck, old>>
        /\ \/ pc' = "return"
           \/ \E rel : Examine(rel, FALSE, "packed")
    BY <1>3 DEF PackedTable, Walking, Goto
  <2> QED BY <2>1, Examined DEF InSlot, GoOn
<1> QED BY <1>1, <1>2, <1>3

LEMMA PagesTables ==
    ASSUME PagesInv, PltTable \/ DynTable \/ PackedTable
    PROVE  PagesInv'
<1>1. /\ UNCHANGED <<image, mem, prot, stuck, old>>
      /\ pc \notin InSlot
      /\ pc' \in InSlot => pc' = "compare" /\ Slotted
  BY TableSteps
<1>2. CASE pc' \notin InSlot
  BY <1>1, <1>2, PagesAtRest
<1>3. CASE pc' = "compare" /\ Slotted
  BY <1>1, <1>3 DEF PagesInv, SlotKnown, OthersRest, InSlot, Open, Slotted
<1> QED BY <1>1, <1>2, <1>3

LEMMA PageKnown ==
    ASSUME PagesInv, Mapped
    PROVE  PageOf \in DOMAIN image.prot
BY ImagesAssumption DEF PagesInv, Mapped, PageOf

LEMMA PagesCompare ==
    ASSUME PagesInv, Faults \/ Compare
    PROVE  PagesInv'
<1>1. CASE Faults
  <2>1. /\ pc = "compare" /\ pc' = "crashed" /\ UNCHANGED <<image, prot, stuck>>
    BY <1>1 DEF Faults, Goto, Replacing, Memory
  <2> QED BY <2>1 DEF PagesInv, SlotKnown, OthersRest, InSlot, Open
<1>2. CASE Compare
  <2>1. /\ pc = "compare" /\ Mapped /\ UNCHANGED <<image, prot, stuck>>
        /\ slot.next \in GoOn
        /\ slot = [addr |-> slot.addr, was |-> slot.was, next |-> slot.next]
    BY <1>2 DEF Compare, Replacing, Memory, PagesInv, SlotKnown, InSlot
  <2>2. /\ PageOf \in DOMAIN image.prot /\ Protection \in Protections
        /\ PageOf \in stuck \/ Protection = image.prot[PageOf]
    BY <2>1, PageKnown DEF PagesInv, OthersRest, Open, Protection
  <2>3. CASE pc' \in GoOn \cup {"return"}
    BY <2>1, <2>3 DEF PagesInv, SlotKnown, OthersRest, InSlot, Open, GoOn
  <2>4. CASE /\ slot' = [slot EXCEPT !.was = Protection]
             /\ pc' = IF Protection = ReadWrite THEN "save" ELSE "unlock"
    <3>1. slot' = [addr |-> slot.addr, was |-> Protection, next |-> slot.next]
      BY <2>1, <2>4
    <3>2. PageOf' = PageOf /\ Protection' = Protection /\ Mapped'
      BY <2>1, <3>1 DEF PageOf, Protection, Mapped
    <3>3. pc' \in {"save", "unlock"} /\ (pc' = "save" => Protection = ReadWrite)
      BY <2>4
    <3>4. SlotKnown'
      BY <2>1, <2>2, <3>1, <3>2, <3>3 DEF SlotKnown, InSlot
    <3>5. OthersRest'
      BY <2>1, <3>2, <3>3 DEF PagesInv, OthersRest, Open
    <3> QED BY <2>1, <3>4, <3>5 DEF PagesInv
  <2> QED BY <1>2, <2>1, <2>3, <2>4 DEF Compare, Fail, Goto
<1> QED BY <1>1, <1>2

LEMMA PagesUnlock ==
    ASSUME PagesInv, Unlock
    PROVE  PagesInv'
<1>1. /\ pc = "unlock" /\ Mapped /\ UNCHANGED <<image, stuck>>
      /\ slot.next \in GoOn /\ PageOf \in DOMAIN image.prot
      /\ slot = [addr |-> slot.addr, was |-> slot.was, next |-> slot.next]
  BY PageKnown DEF Unlock, Replacing, PagesInv, SlotKnown, InSlot
<1>2. CASE Fail /\ UNCHANGED prot
  BY <1>1, <1>2 DEF Fail, Goto, PagesInv, SlotKnown, OthersRest, InSlot, Open
<1>3. CASE Protected(ReadWrite) /\ Goto("save") /\ UNCHANGED <<slot, result>>
  <2>1. /\ prot' = [prot EXCEPT ![PageOf] = ReadWrite] /\ pc' = "save" /\ slot' = slot
        /\ PageOf' = PageOf /\ (Mapped)'
    BY <1>1, <1>3 DEF Protected, Goto, PageOf, Mapped
  <2>2. prot' \in [DOMAIN image.prot -> Protections]
    BY <2>1 DEF PagesInv, ReadWrite, Protections
  <2>3. SlotKnown'
    BY <1>1, <2>1 DEF PagesInv, SlotKnown, InSlot, Protection
  <2>4. OthersRest'
    BY <1>1, <2>1 DEF PagesInv, OthersRest, Open
  <2> QED BY <1>1, <2>2, <2>3, <2>4 DEF PagesInv
<1> QED BY <1>2, <1>3 DEF Unlock

LEMMA PagesWritten ==
    ASSUME PagesInv, SaveOld \/ WriteNew
    PROVE  PagesInv'
<1>1. /\ pc \in {"save", "write"} /\ UNCHANGED <<image, prot, stuck, slot>>
      /\ pc = "save" => pc' = "write"
      /\ pc = "write" => pc' = IF slot.was = ReadWrite THEN slot.next ELSE "restore"
  BY DEF SaveOld, WriteNew, Replacing, Goto
<1>2. /\ Protection = ReadWrite /\ Mapped /\ slot.next \in GoOn
      /\ PageOf \in stuck \/ slot.was = image.prot[PageOf]
  BY <1>1 DEF PagesInv, SlotKnown, InSlot
<1>3. PageOf' = PageOf /\ Protection' = Protection /\ (Mapped)'
  BY <1>1, <1>2 DEF PageOf, Protection, Mapped
<1>4. CASE pc' \in {"write", "restore"}
  BY <1>1, <1>3, <1>4 DEF PagesInv, SlotKnown, OthersRest, InSlot, Open
<1>5. CASE pc = "write" /\ slot.was = ReadWrite /\ pc' = slot.next
  BY <1>1, <1>2, <1>5 DEF PagesInv, SlotKnown, OthersRest, InSlot, Open, GoOn, Protection
<1> QED BY <1>1, <1>4, <1>5

LEMMA PagesRestore ==
    ASSUME PagesInv, Restore
    PROVE  PagesInv'
<1>1. /\ pc = "restore" /\ Mapped /\ UNCHANGED image /\ PageOf \in DOMAIN image.prot
      /\ pc' \in GoOn /\ slot.was \in Protections
      /\ PageOf \in stuck \/ slot.was = image.prot[PageOf]
  BY PageKnown DEF Restore, Replacing, Goto, PagesInv, SlotKnown, InSlot
<1>2. SlotKnown'
  BY <1>1 DEF SlotKnown, InSlot, GoOn
<1>3. CASE Protected(slot.was) /\ UNCHANGED stuck
  BY <1>1, <1>2, <1>3 DEF Protected, PagesInv, OthersRest, GoOn, Open
<1>4. CASE stuck' = stuck \cup {PageOf} /\ UNCHANGED prot
  BY <1>1, <1>2, <1>4 DEF PagesInv, OthersRest, GoOn, Open
<1> QED BY <1>3, <1>4 DEF Restore

LEMMA PagesNext ==
    ASSUME PagesInv, [Next]_vars
    PROVE  PagesInv'
<1>1. CASE \/ InitElf \/ ParseDynamic \/ CheckElf
           \/ NextHook \/ SysvLookup \/ GnuBloom \/ GnuLookup \/ GnuUndef
           \/ LeavePlt \/ PackedInit \/ Return \/ AllHooked
  BY <1>1, NoSlotSteps, PagesAtRest
<1>2. CASE UNCHANGED vars
  BY <1>2 DEF vars, PagesInv, SlotKnown, OthersRest, Mapped, PageOf, Protection
<1> QED BY <1>1, <1>2, PagesTables, PagesCompare, PagesUnlock, PagesWritten, PagesRestore DEF Next, Idle

LEMMA PagesRestored == PagesInv => ProtRestored
BY DEF PagesInv, SlotKnown, OthersRest, ProtRestored, Open, Protection

\* A page can be written to when a slot in it is, and has its own protection
\* otherwise, unless giving it back failed, whatever the images and whichever calls
\* fail (463-490).
THEOREM PagesGetBack == Spec => []ProtRestored
<1>1. PagesInv /\ [Next]_vars => PagesInv'
  BY PagesNext
<1> QED BY <1>1, PagesInit, PagesRestored, PTL DEF Spec

-----------------------------------------------------------------------------
(***************************************************************************)
(* Lookups.  Up to the end of the dynamic section, what is in self is what *)
(* the entries so far point to; in a table, the symbol of the name is      *)
(* still ahead, if there is one.                                           *)
(***************************************************************************)
\* The tables of the images are sound, see XhElf.
AllHashesSound == \A im \in Images : HashesSound(im)

Fields == {"bias", "strtab", "symtab", "rela", "gnu", "relplt", "relplt_sz", "reldyn",
           "reldyn_sz", "android", "bucket", "chain", "symoffset", "bloom", "shift"}
Parsing == {"init", "dynamic", "check", "done"}
\* The entries that have been gone through.
Passed(k) == k \in Entries(image) /\ k < i
SelfRead ==
    /\ image \in Images
    /\ pc \notin {"init", "done"} =>
          /\ Accepted(image) /\ DOMAIN self = Fields /\ self.bias = Bias(image)
          /\ self.symtab # None => self.symtab = image.names
          /\ IF self.gnu THEN GnuSound(image.names, self)
             ELSE self.bucket = None \/ SysvSound(image.names, self)
    /\ pc = "dynamic" =>
          /\ i \in Nat \ {0} /\ \A l \in 1..(i - 1) : l \in Entries(image)
          /\ self.gnu => \E l \in Tagged(image, "GNU_HASH") : l < i
    /\ pc \notin Parsing => Complete

Begun == Parsing \cup {"next"}
Search == {"sysv", "bloom", "gnu", "undef"}
\* The index of the symbol to be hooked.
Named(k) == k \in Indices(image.names) /\ image.names[k + 1] = Name
\* Where the lookup still has to find it.
Ahead ==
    /\ pc = "sysv" =>
          /\ ~self.gnu /\ i \in Indices(image.names)
          /\ \A k : Named(k) => Reaches(image.names, self, i, k)
    /\ pc = "bloom" => self.gnu
    /\ pc = "gnu" =>
          /\ self.gnu /\ i \in self.symoffset..(Len(image.names) - 1)
          /\ \A k : Named(k) /\ k >= self.symoffset =>
                i <= k /\ \A j \in i..(k - 1) : LowBit(self, j) = 0
    /\ pc = "undef" =>
          /\ self.gnu /\ i \in 0..self.symoffset
          /\ \A k : Named(k) => i <= k /\ k < self.symoffset
Looked ==
    /\ pc \in Begun \cup Search => symidx = None
    /\ pc \notin Begun \cup Search => symidx # None \/ pc = "return"
    /\ symidx # None => Named(symidx)
    /\ pc = "return" /\ symidx = None => \A k : ~Named(k)
Queued ==
    /\ todo \in Seq(Names)
    /\ pc \notin Begun => todo # <<>>
LookupInv == SelfRead /\ Ahead /\ Looked /\ Queued

\* Soundness is about these fields only.
LEMMA SameGnu ==
    ASSUME NEW names, NEW t, NEW u, GnuSound(names, t),
           u.bucket = t.bucket, u.chain = t.chain, u.symoffset = t.symoffset,
           u.bloom = t.bloom, u.shift = t.shift
    PROVE  GnuSound(names, u)
BY DEF GnuSound, LowBit
LEMMA SameSysv ==
    ASSUME NEW names, NEW t, NEW u, SysvSound(names, t), u.bucket = t.bucket, u.chain = t.chain
    PROVE  SysvSound(names, u)
BY DEF SysvSound, Reaches

\* What an entry of the dynamic section changes.
LEMMA ParsedPlain ==
    ASSUME NEW entry, DOMAIN self = Fields, entry.tag \notin {"SYMTAB", "HASH", "GNU_HASH"}
    PROVE  /\ DOMAIN Parsed(entry) = Fields
           /\ \A f \in {"bias", "symtab", "gnu", "bucket", "chain", "symoffset", "bloom", "shift"} :
                 Parsed(entry)[f] = self[f]
<1> DEFINE Kept(t) ==
       /\ DOMAIN t = Fields
       /\ \A f \in {"bias", "symtab", "gnu", "bucket", "chain", "symoffset", "bloom", "shift"} :
             t[f] = self[f]
<1>1. \A v : /\ Kept([self EXCEPT !.strtab = v]) /\ Kept([self EXCEPT !.rela = v])
             /\ Kept([self EXCEPT !.relplt = v]) /\ Kept([self EXCEPT !.relplt_sz = v])
             /\ Kept([self EXCEPT !.reldyn = v]) /\ Kept([self EXCEPT !.reldyn_sz = v])
             /\ Kept([self EXCEPT !.android = v]) /\ Kept(self)
  BY DEF Fields
<1> HIDE DEF Kept
<1>2. Kept(Parsed(entry))
  BY <1>1 DEF Parsed
<1> QED BY <1>2 DEF Kept

LEMMA ParsedSymtab ==
    ASSUME NEW entry, DOMAIN self = Fields, entry.tag = "SYMTAB"
    PROVE  Parsed(entry) = [self EXCEPT !.symtab = image.at[Pointer(entry)]]
BY DEF Parsed
LEMMA ParsedHash ==
    ASSUME NEW entry, DOMAIN self = Fields, entry.tag = "HASH"
    PROVE  Parsed(entry) = [self EXCEPT !.bucket = image.at[Pointer(entry)].bucket,
                                        !.chain = image.at[Pointer(entry)].chain]
BY DEF Parsed
LEMMA ParsedGnuHash ==
    ASSUME NEW entry, DOMAIN self = Fields, entry.tag = "GNU_HASH"
    PROVE  LET table == image.at[Pointer(entry)]
           IN  Parsed(entry) =
                  [self EXCEPT !.bucket = table.bucket, !.chain = table.chain,
                               !.symoffset = table.symoffset, !.bloom = table.bloom,
                               !.shift = table.shift, !.gnu = TRUE]
BY DEF Parsed

-----------------------------------------------------------------------------
LEMMA ReadInit == Init => SelfRead /\ Ahead /\ Looked /\ Queued
BY ImagesAssumption DEF Init, SelfRead, Ahead, Looked, Queued, Parsing, Begun, Search

LEMMA ReadInitElf ==
    ASSUME SelfRead, InitElf
    PROVE  SelfRead'
<1>1. /\ pc = "init" /\ image' = image /\ image \in Images
  BY DEF SelfRead, InitElf
<1>2. CASE Accepted(image)
  <2>1. pc' = "dynamic" /\ i' = 1 /\ self' = [NoElf EXCEPT !.bias = Bias(image)]
    BY <1>1, <1>2 DEF InitElf, Goto
  <2>2. /\ DOMAIN self' = Fields /\ self'.bias = Bias(image)
        /\ self'.symtab = None /\ self'.gnu = FALSE /\ self'.bucket = None
    BY <2>1 DEF NoElf, Fields
  <2>3. Accepted(image') /\ Bias(image') = Bias(image)
    BY <1>1, <1>2
  <2> QED BY <1>1, <2>1, <2>2, <2>3 DEF SelfRead, Parsing
<1>3. CASE ~Accepted(image)
  BY <1>1, <1>3 DEF InitElf, Refused, SelfRead, Parsing
<1> QED BY <1>2, <1>3

LEMMA ReadDynamic ==
    ASSUME AllHashesSound, SelfRead, ParseDynamic
    PROVE  SelfRead'
<1> DEFINE entry == image.dyn[i]
<1>1. /\ pc = "dynamic" /\ image' = image /\ image \in Images
      /\ Accepted(image) /\ DOMAIN self = Fields /\ self.bias = Bias(image)
      /\ self.symtab # None => self.symtab = image.names
      /\ IF self.gnu THEN GnuSound(image.names, self)
         ELSE self.bucket = None \/ SysvSound(image.names, self)
      /\ i \in Nat \ {0} /\ \A l \in 1..(i - 1) : l \in Entries(image)
      /\ self.gnu => \E l \in Tagged(image, "GNU_HASH") : l < i
  BY DEF SelfRead, ParseDynamic
<1>2. Accepted(image') /\ Bias(image') = Bias(image) /\ Entries(image') = Entries(image)
      /\ Tagged(image', "GNU_HASH") = Tagged(image, "GNU_HASH")
  BY <1>1
<1>3. CASE pc' = "check" /\ self' = self
  BY <1>1, <1>2, <1>3 DEF SelfRead, Parsing
<1>4. CASE Refused /\ self' = self
  BY <1>1, <1>4 DEF SelfRead, Refused, Parsing
<1>5. CASE /\ ~(i > Len(image.dyn) \/ entry.tag = "NULL")
           /\ self' = Parsed(entry) /\ i' = i + 1 /\ pc' = pc
  <2>1. i \in Entries(image)
    <3>1. image.dyn \in Seq([tag : STRING, val : Nat])
      BY <1>1, ImagesAssumption
    <3>2. Len(image.dyn) \in Nat /\ i \in 1..Len(image.dyn)
      BY <1>1, <1>5, <3>1
    <3>3. \A l \in 1..(i - 1) : image.dyn[l].tag # "NULL"
      BY <1>1 DEF Entries
    <3>4. \A l \in 1..i : image.dyn[l].tag # "NULL"
      BY <1>1, <1>5, <3>3
    <3> QED BY <3>2, <3>4 DEF Entries
  <2>2. \A l \in 1..(i' - 1) : l \in Entries(image)
    BY <1>1, <1>5, <2>1
  <2>3. /\ \A k \in Tagged(image, "SYMTAB") : Target(image, k) = image.names
        /\ \A k \in Tagged(image, "HASH") : SysvSound(image.names, Target(image, k))
        /\ \A k \in Tagged(image, "GNU_HASH") : GnuSound(image.names, Target(image, k))
        /\ \A k \in Tagged(image, "GNU_HASH"), l \in Tagged(image, "HASH") : l < k
    BY <1>1 DEF AllHashesSound, HashesSound
  <2>4. Target(image, i) = image.at[Pointer(entry)]
    BY <1>1 DEF Target, At, Pointer
  <2>5. \A l \in Tagged(image, "GNU_HASH") : l \in Nat /\ (l < i => l < i + 1)
    BY <1>1, ImagesAssumption DEF Tagged, Entries
  <2> HIDE DEF entry
  <2> SUFFICES /\ DOMAIN self' = Fields /\ self'.bias = Bias(image)
               /\ self'.symtab # None => self'.symtab = image.names
               /\ IF self'.gnu THEN GnuSound(image.names, self')
                  ELSE self'.bucket = None \/ SysvSound(image.names, self')
               /\ self'.gnu => \E l \in Tagged(image, "GNU_HASH") : l < i + 1
    BY <1>1, <1>2, <1>5, <2>2 DEF SelfRead, Parsing
  <2>6. CASE entry.tag \notin {"SYMTAB", "HASH", "GNU_HASH"}
    <3>1. /\ DOMAIN self' = Fields
          /\ self'.bias = self.bias /\ self'.symtab = self.symtab /\ self'.gnu = self.gnu
          /\ self'.bucket = self.bucket /\ self'.chain = self.chain /\ self'.bloom = self.bloom
          /\ self'.symoffset = self.symoffset /\ self'.shift = self.shift
      BY <1>1, <1>5, <2>6, ParsedPlain
    <3> QED BY <1>1, <2>5, <3>1, SameGnu, SameSysv
  <2>7. CASE entry.tag = "SYMTAB"
    <3>1. self' = [self EXCEPT !.symtab = image.names]
      BY <1>1, <1>5, <2>1, <2>3, <2>4, <2>7, ParsedSymtab DEF Tagged, entry
    <3>2. /\ DOMAIN self' = Fields
          /\ self'.bias = self.bias /\ self'.symtab = image.names /\ self'.gnu = self.gnu
          /\ self'.bucket = self.bucket /\ self'.chain = self.chain /\ self'.bloom = self.bloom
          /\ self'.symoffset = self.symoffset /\ self'.shift = self.shift
      BY <1>1, <3>1 DEF Fields
    <3> QED BY <1>1, <2>5, <3>2, SameGnu, SameSysv
  <2>8. CASE entry.tag = "HASH"
    <3>1. i \in Tagged(image, "HASH")
      BY <2>1, <2>8 DEF Tagged, entry
    <3>2. ~self.gnu
      BY <1>1, <2>3, <2>5, <3>1
    <3>3. self' = [self EXCEPT !.bucket = Target(image, i).bucket, !.chain = Target(image, i).chain]
      BY <1>1, <1>5, <2>4, <2>8, ParsedHash
    <3>4. /\ DOMAIN self' = Fields
          /\ self'.bias = self.bias /\ self'.symtab = self.symtab /\ self'.gnu = self.gnu
          /\ self'.bucket = Target(image, i).bucket /\ self'.chain = Target(image, i).chain
      BY <1>1, <3>3 DEF Fields
    <3> QED BY <1>1, <2>3, <3>1, <3>2, <3>4, SameSysv
  <2>9. CASE entry.tag = "GNU_HASH"
    <3>1. i \in Tagged(image, "GNU_HASH")
      BY <2>1, <2>9 DEF Tagged, entry
    <3>2. self' = [self EXCEPT !.bucket = Target(image, i).bucket, !.chain = Target(image, i).chain,
                               !.symoffset = Target(image, i).symoffset, !.bloom = Target(image, i).bloom,
                               !.shift = Target(image, i).shift, !.gnu = TRUE]
      BY <1>1, <1>5, <2>4, <2>9, ParsedGnuHash
    <3>3. /\ DOMAIN self' = Fields
          /\ self'.bias = self.bias /\ self'.symtab = self.symtab /\ self'.gnu = TRUE
          /\ self'.bucket = Target(image, i).bucket /\ self'.chain = Target(image, i).chain
          /\ self'.symoffset = Target(image, i).symoffset /\ self'.bloom = Target(image, i).bloom
          /\ self'.shift = Target(image, i).shift
      BY <1>1, <3>2 DEF Fields
    <3>4. i < i + 1
      BY <1>1
    <3> QED BY <1>1, <2>3, <3>1, <3>3, <3>4, SameGnu
  <2> QED BY <2>6, <2>7, <2>8, <2>9
<1> QED BY <1>1, <1>3, <1>4, <1>5 DEF ParseDynamic, Goto

LEMMA ReadCheck ==
    ASSUME SelfRead, CheckElf
    PROVE  SelfRead'
<1>1. pc = "check" /\ UNCHANGED <<image, self>> /\ (pc' = "done" \/ (pc' = "next" /\ Complete))
  BY DEF CheckElf, Refused, Goto
<1>2. Complete' <=> Complete
  BY <1>1 DEF Complete
<1> QED BY <1>1, <1>2 DEF SelfRead, Parsing

LEMMA ReadKept ==
    ASSUME SelfRead, UNCHANGED <<image, self>>,
           \/ UNCHANGED pc /\ UNCHANGED i
           \/ pc \notin Parsing /\ pc' \notin {"init", "dynamic", "check"}
    PROVE  SelfRead'
<1>1. Complete' <=> Complete
  BY DEF Complete
<1> QED BY <1>1 DEF SelfRead, Parsing

LEMMA ReadNext ==
    ASSUME AllHashesSound, PagesInv, SelfRead, [Next]_vars
    PROVE  SelfRead'
<1>1. CASE InitElf \/ ParseDynamic \/ CheckElf
  BY <1>1, ReadInitElf, ReadDynamic, ReadCheck
<1>2. CASE NextHook \/ SysvLookup \/ GnuBloom \/ GnuLookup \/ GnuUndef \/ LeavePlt \/ PackedInit
           \/ Return \/ AllHooked
  <2>1. /\ UNCHANGED <<image, self>>
        /\ pc \notin Parsing /\ pc' \notin {"init", "dynamic", "check"}
    BY <1>2 DEF NextHook, SysvLookup, GnuBloom, GnuLookup, GnuUndef, LeavePlt, PackedInit, Return,
                AllHooked, Goto, Looking, Walking, Found, LookOn, NotFound, Parsing
  <2> QED BY <2>1, ReadKept
<1>3. CASE PltTable \/ DynTable \/ PackedTable
  <2>1. UNCHANGED <<image, self>> /\ pc \in {"plt", "dyn", "packed"}
    BY <1>3 DEF PltTable, DynTable, PackedTable, Walking
  <2>2. pc' \in {"leaveplt", "packed0", "return", "compare", pc}
    BY <1>3 DEF PltTable, DynTable, PackedTable, Examine, Goto
  <2> QED BY <2>1, <2>2, ReadKept DEF Parsing
<1>4. CASE Faults \/ Compare \/ Unlock \/ SaveOld \/ WriteNew \/ Restore
  <2>1. UNCHANGED <<image, self>> /\ pc \in InSlot
    BY <1>4 DEF Faults, Compare, Unlock, SaveOld, WriteNew, Restore, Replacing, InSlot
  <2>2. pc' \in {"crashed", "save", "unlock", "write", "restore", "return", slot.next}
    BY <1>4 DEF Faults, Compare, Unlock, SaveOld, WriteNew, Restore, Fail, Goto
  <2>3. slot.next \in GoOn
    BY <2>1 DEF PagesInv, SlotKnown
  <2> QED BY <2>1, <2>2, <2>3, ReadKept DEF Parsing, InSlot, GoOn
<1>5. CASE UNCHANGED vars
  BY <1>5, ReadKept DEF vars
<1> QED BY <1>1, <1>2, <1>3, <1>4, <1>5 DEF Next, Idle

-----------------------------------------------------------------------------
\* The facts about the image that a lookup rests on.
LEMMA Tables ==
    ASSUME AllHashesSound, SelfRead, pc \notin Parsing
    PROVE  /\ self.symtab = image.names
           /\ image.names \in Seq({None} \cup Names) /\ Len(image.names) \in Nat \ {0}
           /\ \A k \in 1..Len(image.names) : image.names[k] = None <=> k = 1
           /\ self.gnu => GnuSound(image.names, self)
           /\ ~self.gnu => SysvSound(image.names, self)
<1>1. /\ image \in Images /\ Accepted(image) /\ Complete
      /\ self.symtab # None => self.symtab = image.names
      /\ IF self.gnu THEN GnuSound(image.names, self)
         ELSE self.bucket = None \/ SysvSound(image.names, self)
  BY DEF SelfRead, Parsing
<1>2. self.symtab # None /\ self.bucket # None
  BY <1>1 DEF Complete
<1>3. /\ image.names \in Seq({None} \cup Names) /\ image.names # <<>>
      /\ \A k \in 1..Len(image.names) : image.names[k] = None <=> k = 1
  BY <1>1 DEF AllHashesSound, HashesSound
<1> QED BY <1>1, <1>2, <1>3

LEMMA Positive ==
    ASSUME AllHashesSound, SelfRead, pc \notin Parsing, Name \in Names, NEW k, Named(k)
    PROVE  k \in Indices(image.names) \ {0} /\ Hash[image.names[k + 1]] = HashOf
BY Tables, NamesAssumption DEF Named, Indices, HashOf

LEMMA Modulo ==
    ASSUME NEW h \in Nat, NEW size \in Nat \ {0}
    PROVE  (h % size) + 1 \in 1..size
OBVIOUS

\* The first of a bucket, whose table is sound.
LEMMA BucketIndex ==
    ASSUME AllHashesSound, SelfRead, pc \notin Parsing, Name \in Names
    PROVE  Bucket \in Indices(image.names)
<1>1. self.bucket \in Seq(Indices(image.names)) /\ self.bucket # <<>>
  BY Tables DEF GnuSound, SysvSound
<1>2. HashOf \in Nat /\ Len(self.bucket) \in Nat \ {0}
  BY <1>1, HashAssumption DEF HashOf
<1>3. (HashOf % Len(self.bucket)) + 1 \in 1..Len(self.bucket)
  BY <1>2, Modulo
<1> QED BY <1>1, <1>3 DEF Bucket

\* A chain that leads from one index to another one leads there from the next.
LEMMA ReachesOn ==
    ASSUME NEW names, NEW table, NEW from \in Indices(names), NEW k,
           Reaches(names, table, from, k), k # from
    PROVE  Reaches(names, table, table.chain[from + 1], k)
<1> SUFFICES ASSUME NEW S \in SUBSET Indices(names), table.chain[from + 1] \in S,
                    \A j \in S \ {0} : table.chain[j + 1] \in S
             PROVE  k \in S
  BY DEF Reaches
<1>1. \A j \in (S \cup {from}) \ {0} : table.chain[j + 1] \in S \cup {from}
  OBVIOUS
<1>2. S \cup {from} \in SUBSET Indices(names) /\ from \in S \cup {from}
  OBVIOUS
<1>3. k \in S \cup {from}
  BY <1>1, <1>2 DEF Reaches
<1> QED BY <1>3

LEMMA ReachesEnd ==
    ASSUME NEW names, NEW table, NEW k, 0 \in Indices(names), Reaches(names, table, 0, k)
    PROVE  k = 0
<1>1. {0} \in SUBSET Indices(names) /\ \A j \in {0} \ {0} : table.chain[j + 1] \in {0}
  OBVIOUS
<1>2. k \in {0}
  BY <1>1 DEF Reaches
<1> QED BY <1>2

Finding == Ahead /\ Looked /\ Queued
LEMMA NameIs ==
    ASSUME Queued, todo # <<>>
    PROVE  Name \in Names
BY DEF Queued, Name

LEMMA AheadNextHook ==
    ASSUME AllHashesSound, SelfRead, Finding, NextHook
    PROVE  Finding'
<1>1. /\ pc = "next" /\ todo # <<>> /\ UNCHANGED <<image, self, todo, symidx>>
      /\ IF self.gnu THEN pc' = "bloom" ELSE pc' = "sysv" /\ i' = Bucket
      /\ symidx = None /\ todo \in Seq(Names)
  BY DEF NextHook, Goto, Finding, Looked, Queued, Begun
<1>2. Looked' /\ Queued'
  BY <1>1 DEF Looked, Queued, Begun, Search, Parsing
<1>3. CASE self.gnu
  BY <1>1, <1>2, <1>3 DEF Finding, Ahead
<1>4. CASE ~self.gnu
  <2>1. Name \in Names /\ SysvSound(image.names, self)
    BY <1>1, <1>4, NameIs, Tables DEF Finding, Parsing
  <2>2. Bucket \in Indices(image.names)
    BY <1>1, <2>1, BucketIndex DEF Parsing
  <2>3. ASSUME NEW k, Named(k)
        PROVE  Reaches(image.names, self, Bucket, k)
    <3>1. k \in Indices(image.names) \ {0} /\ Hash[image.names[k + 1]] = HashOf
      BY <1>1, <2>1, <2>3, Positive DEF Parsing
    <3> QED BY <2>1, <3>1 DEF SysvSound, Bucket
  <2>4. \A k : (Named(k))' => Named(k)
    BY <1>1 DEF Named, Name
  <2>5. \A k : Reaches(image'.names, self', Bucket, k) <=> Reaches(image.names, self, Bucket, k)
    BY <1>1
  <2>6. Ahead'
    BY <1>1, <1>4, <2>2, <2>3, <2>4, <2>5 DEF Ahead
  <2> QED BY <1>2, <2>6 DEF Finding
<1> QED BY <1>3, <1>4

\* What a step of a lookup leaves alone, and how it goes on.
LEMMA LookSteps ==
    ASSUME Finding, SysvLookup \/ GnuBloom \/ GnuLookup \/ GnuUndef
    PROVE  /\ pc \in Search /\ UNCHANGED <<image, self, todo>>
           /\ todo \in Seq(Names) /\ todo # <<>> /\ Name \in Names /\ symidx = None
           /\ Queued' <=> (pc' \notin Begun => todo # <<>>)
           /\ \A k : (Named(k))' <=> Named(k)
<1>1. pc \in Search /\ UNCHANGED <<image, self, todo>>
  BY DEF SysvLookup, GnuBloom, GnuLookup, GnuUndef, Looking, Search
<1>2. todo \in Seq(Names) /\ todo # <<>> /\ symidx = None
  BY <1>1 DEF Finding, Looked, Queued, Search, Begun, Parsing
<1>3. Name \in Names
  BY <1>2 DEF Name
<1>4. \A k : (Named(k))' <=> Named(k)
  BY <1>1 DEF Named, Name
<1> QED BY <1>1, <1>2, <1>3, <1>4 DEF Queued

\* A lookup that has found the symbol, and one that has found there is none.
LEMMA FoundIt ==
    ASSUME AllHashesSound, SelfRead, Finding,
           SysvLookup \/ GnuBloom \/ GnuLookup \/ GnuUndef,
           Named(i), symidx' = i, pc' = "plt"
    PROVE  Finding'
<1>1. i # None
  BY NamesAssumption DEF Named, Indices
<1> QED BY <1>1, LookSteps DEF Finding, Ahead, Looked, Search, Begun, Parsing

LEMMA NotThere ==
    ASSUME Finding, SysvLookup \/ GnuBloom \/ GnuLookup \/ GnuUndef,
           \A k : ~Named(k), UNCHANGED symidx, pc' = "return"
    PROVE  Finding'
BY LookSteps DEF Finding, Ahead, Looked, Search, Begun, Parsing

LEMMA AheadSysv ==
    ASSUME AllHashesSound, SelfRead, Finding, SysvLookup
    PROVE  Finding'
<1>1. /\ pc = "sysv" /\ ~self.gnu /\ i \in Indices(image.names)
      /\ \A k : Named(k) => Reaches(image.names, self, i, k)
      /\ UNCHANGED <<image, self, todo>> /\ Name \in Names /\ symidx = None
  BY LookSteps DEF SysvLookup, Finding, Ahead
<1>2. self.symtab = image.names /\ SysvSound(image.names, self)
  BY <1>1, Tables DEF Parsing
<1>3. CASE i = 0 /\ NotFound
  <2>1. ASSUME NEW k, Named(k) PROVE FALSE
    <3>1. k # 0
      BY <1>1, <2>1, Positive DEF Parsing
    <3>2. 0 \in Indices(image.names) /\ Reaches(image.names, self, 0, k)
      BY <1>1, <1>3, <2>1
    <3> QED BY <3>1, <3>2, ReachesEnd
  <2> QED BY <1>3, <2>1, NotThere DEF NotFound, LookOn, Goto
<1>4. CASE NameAt(i) = Name /\ Found(i)
  BY <1>1, <1>2, <1>4, FoundIt DEF NameAt, Named, Found, Goto
<1>5. CASE NameAt(i) # Name /\ LookOn("sysv", self.chain[i + 1])
  <2>1. i' = self.chain[i + 1] /\ pc' = "sysv" /\ symidx' = None
    BY <1>1, <1>5 DEF LookOn, Goto
  <2>2. i' \in Indices(image.names)
    BY <1>1, <1>2, <2>1 DEF SysvSound
  <2>3. ASSUME NEW k, Named(k)
        PROVE  Reaches(image.names, self, i', k)
    <3>1. k # i
      BY <1>2, <1>5, <2>3 DEF Named, NameAt
    <3> QED BY <1>1, <2>1, <2>3, <3>1, ReachesOn
  <2>4. \A k : Reaches(image'.names, self', i', k) <=> Reaches(image.names, self, i', k)
    BY <1>1
  <2>5. Ahead'
    BY <1>1, <2>1, <2>2, <2>3, <2>4, LookSteps DEF Ahead
  <2> QED BY <2>1, <2>5, LookSteps DEF Finding, Looked, Search, Begun, Parsing
<1> QED BY <1>3, <1>4, <1>5 DEF SysvLookup

LEMMA AheadUndef ==
    ASSUME AllHashesSound, SelfRead, Finding, GnuUndef
    PROVE  Finding'
<1>1. /\ pc = "undef" /\ self.gnu /\ i \in 0..self.symoffset
      /\ \A k : Named(k) => i <= k /\ k < self.symoffset
      /\ UNCHANGED <<image, self, todo>> /\ Name \in Names /\ symidx = None
  BY LookSteps DEF GnuUndef, Finding, Ahead
<1>2. /\ self.symtab = image.names /\ self.symoffset \in 1..Len(image.names)
      /\ Len(image.names) \in Nat
  BY <1>1, Tables DEF Parsing, GnuSound
<1>3. CASE i >= self.symoffset /\ NotFound
  <2>1. \A k : ~Named(k)
    BY <1>1, <1>2, <1>3 DEF Named, Indices
  <2> QED BY <1>3, <2>1, NotThere DEF NotFound, LookOn, Goto
<1>4. CASE i < self.symoffset /\ NameAt(i) = Name /\ Found(i)
  <2>1. Named(i)
    BY <1>1, <1>2, <1>4 DEF Named, NameAt, Indices
  <2> QED BY <1>4, <2>1, FoundIt DEF Found, Goto
<1>5. CASE i < self.symoffset /\ NameAt(i) # Name /\ LookOn("undef", i + 1)
  <2>1. i' = i + 1 /\ pc' = "undef" /\ symidx' = None
    BY <1>1, <1>5 DEF LookOn, Goto
  <2>2. \A k : Named(k) => k # i
    BY <1>2, <1>5 DEF Named, NameAt
  <2>3. ASSUME NEW k, Named(k) PROVE i + 1 <= k /\ k < self.symoffset
    <3>1. k \in Nat
      BY <1>2, <2>3 DEF Named, Indices
    <3>2. i \in Nat
      BY <1>1, <1>2
    <3>3. i <= k /\ k # i /\ k < self.symoffset
      BY <1>1, <2>2, <2>3
    <3> QED BY <3>1, <3>2, <3>3
  <2>4. i + 1 \in 0..self.symoffset
    BY <1>1, <1>2, <1>5
  <2>5. Ahead'
    BY <1>1, <2>1, <2>3, <2>4, LookSteps DEF Ahead
  <2> QED BY <2>1, <2>5, LookSteps DEF Finding, Looked, Search, Begun, Parsing
<1> QED BY <1>3, <1>4, <1>5 DEF GnuUndef

\* What a sound GNU table has for a symbol behind the undefined ones.
LEMMA GnuHas ==
    ASSUME AllHashesSound, SelfRead, Finding, pc \in {"bloom", "gnu"}, NEW k, Named(k),
           k >= self.symoffset
    PROVE  /\ BloomBit(HashOf) /\ BloomBit(HashOf \div 2^self.shift)
           /\ Bucket \in self.symoffset..k
           /\ HashOf \div 2 = self.chain[k - self.symoffset + 1] \div 2
           /\ \A j \in Bucket..(k - 1) : LowBit(self, j) = 0
<1>1. self.gnu /\ todo # <<>> /\ Queued
  BY DEF Finding, Ahead, Queued, Begun, Parsing
<1>2. Name \in Names /\ GnuSound(image.names, self) /\ Len(image.names) \in Nat
  BY <1>1, NameIs, Tables DEF Parsing
<1>3. k \in Indices(image.names) /\ Hash[image.names[k + 1]] = HashOf
  BY <1>2, Positive DEF Parsing
<1>4. self.symoffset \in Nat /\ k \in self.symoffset..(Len(image.names) - 1)
  BY <1>2, <1>3 DEF GnuSound, Indices
<1> DEFINE word == self.bloom[((HashOf \div BloomBits) % Len(self.bloom)) + 1]
           first == self.bucket[(HashOf % Len(self.bucket)) + 1]
<1>5. /\ {HashOf % BloomBits, (HashOf \div 2^self.shift) % BloomBits} \subseteq word
      /\ first \in self.symoffset..k
      /\ self.chain[k - self.symoffset + 1] \div 2 = HashOf \div 2
      /\ \A j \in first..(k - 1) : LowBit(self, j) = 0
  <2> HIDE DEF word, first
  <2>1. LET hash == Hash[image.names[k + 1]]
            w == self.bloom[((hash \div BloomBits) % Len(self.bloom)) + 1]
            f == self.bucket[(hash % Len(self.bucket)) + 1]
        IN  /\ {hash % BloomBits, (hash \div 2^self.shift) % BloomBits} \subseteq w
            /\ f \in self.symoffset..k
            /\ self.chain[k - self.symoffset + 1] \div 2 = hash \div 2
            /\ \A j \in f..(k - 1) : LowBit(self, j) = 0
    BY <1>2, <1>4, Zenon DEF GnuSound
  <2> QED BY <1>3, <2>1, Zenon DEF word, first
<1> HIDE DEF word, first
<1>6. BloomBit(HashOf) /\ BloomBit(HashOf \div 2^self.shift)
  BY <1>5 DEF BloomBit, word
<1>7. Bucket = first
  BY DEF Bucket, first
<1> QED BY <1>5, <1>6, <1>7

LEMMA AheadBloom ==
    ASSUME AllHashesSound, SelfRead, Finding, GnuBloom
    PROVE  Finding'
<1>1. /\ pc = "bloom" /\ self.gnu /\ symidx' = None
      /\ UNCHANGED <<image, self, todo>> /\ Name \in Names
  BY LookSteps DEF GnuBloom, Finding, Ahead, LookOn
<1>2. /\ self.symoffset \in 1..Len(image.names)
      /\ Len(image.names) \in Nat
  BY <1>1, Tables DEF Parsing, GnuSound
<1>3. Bucket \in Indices(image.names)
  BY <1>1, BucketIndex DEF Parsing
<1>4. ASSUME pc' \in {"gnu", "undef"}, Ahead' PROVE Finding'
  BY <1>1, <1>4, LookSteps DEF Finding, Looked, Search, Begun, Parsing
<1>5. \A k : Named(k) => k \in Nat
  BY <1>2 DEF Named, Indices
<1>6. CASE Bucket >= self.symoffset /\ LookOn("gnu", Bucket)
  <2>1. pc' = "gnu" /\ i' = Bucket
    BY <1>6 DEF LookOn, Goto
  <2>2. Bucket \in self.symoffset..(Len(image.names) - 1)
    BY <1>2, <1>3, <1>6 DEF Indices
  <2>3. ASSUME NEW k, Named(k), k >= self.symoffset
        PROVE  Bucket <= k /\ \A j \in Bucket..(k - 1) : LowBit(self, j) = 0
    <3>1. Bucket \in self.symoffset..k /\ \A j \in Bucket..(k - 1) : LowBit(self, j) = 0
      BY <1>1, <2>3, GnuHas
    <3> QED BY <3>1, <1>2, <1>5, <2>3
  <2>4. \A j : LowBit(self', j) = LowBit(self, j)
    BY <1>1
  <2>5. Ahead'
    BY <1>1, <2>1, <2>2, <2>3, <2>4, LookSteps DEF Ahead
  <2> QED BY <1>4, <2>1, <2>5
<1>7. CASE /\ ~(BloomBit(HashOf) /\ BloomBit(HashOf \div 2^self.shift) /\ Bucket >= self.symoffset)
           /\ LookOn("undef", 0)
  <2>1. pc' = "undef" /\ i' = 0
    BY <1>7 DEF LookOn, Goto
  <2>2. ASSUME NEW k, Named(k) PROVE 0 <= k /\ k < self.symoffset
    <3>1. k \in Nat
      BY <1>5, <2>2
    <3>2. CASE k >= self.symoffset
      <4>1. BloomBit(HashOf) /\ BloomBit(HashOf \div 2^self.shift) /\ Bucket \in self.symoffset..k
        BY <1>1, <2>2, <3>2, GnuHas
      <4> QED BY <4>1, <1>2, <1>7, <3>1
    <3> QED BY <3>1, <3>2, <1>2
  <2>3. Ahead'
    BY <1>1, <1>2, <2>1, <2>2, LookSteps DEF Ahead
  <2> QED BY <1>4, <2>1, <2>3
<1> QED BY <1>6, <1>7, Zenon DEF GnuBloom

LEMMA AheadGnu ==
    ASSUME AllHashesSound, SelfRead, Finding, GnuLookup
    PROVE  Finding'
<1> DEFINE symhash == self.chain[i - self.symoffset + 1]
<1>1. /\ pc = "gnu" /\ self.gnu /\ i \in self.symoffset..(Len(image.names) - 1)
      /\ UNCHANGED <<image, self, todo>> /\ Name \in Names /\ symidx = None
      /\ \A k : Named(k) /\ k >= self.symoffset =>
            i <= k /\ \A j \in i..(k - 1) : LowBit(self, j) = 0
  BY LookSteps DEF GnuLookup, Finding, Ahead
<1>2. /\ self.symtab = image.names /\ self.symoffset \in 1..Len(image.names)
      /\ Len(image.names) \in Nat
      /\ self.symoffset < Len(image.names) => LowBit(self, Len(image.names) - 1) = 1
  BY <1>1, Tables DEF Parsing, GnuSound
<1>3. LowBit(self, i) = symhash % 2
  BY DEF LowBit
<1>4. \A k : Named(k) => k \in Nat
  BY <1>2 DEF Named, Indices
<1> HIDE DEF symhash
<1>5. CASE NameAt(i) = Name /\ Found(i)
  <2>1. Named(i)
    BY <1>1, <1>2, <1>5 DEF Named, NameAt, Indices
  <2> QED BY <1>5, <2>1, FoundIt DEF Found, Goto
<1>6. CASE /\ HashOf \div 2 # symhash \div 2 \/ NameAt(i) # Name
           /\ IF symhash % 2 = 1 THEN LookOn("undef", 0) ELSE LookOn("gnu", i + 1)
  <2>1. ~Named(i)
    <3> SUFFICES ASSUME Named(i) PROVE FALSE
      OBVIOUS
    <3>1. NameAt(i) = Name
      BY <1>2 DEF Named, NameAt
    <3>2. HashOf \div 2 = symhash \div 2
      BY <1>1, <1>2, GnuHas DEF symhash
    <3> QED BY <1>6, <3>1, <3>2
  <2>2. symidx' = None /\ pc' \in {"undef", "gnu"}
    BY <1>1, <1>6 DEF LookOn, Goto
  <2>3. ASSUME Ahead' PROVE Finding'
    BY <2>2, <2>3, LookSteps DEF Finding, Looked, Search, Begun, Parsing
  <2>4. ASSUME NEW k, Named(k), k >= self.symoffset
        PROVE  i + 1 <= k /\ symhash % 2 = 0
    <3>1. k \in Nat /\ i \in Nat /\ i <= k /\ k # i
      BY <1>1, <1>2, <1>4, <2>1, <2>4
    <3>2. i \in i..(k - 1)
      BY <3>1
    <3> QED BY <1>1, <1>3, <2>4, <3>1, <3>2
  <2>5. CASE symhash % 2 = 1
    <3>1. pc' = "undef" /\ i' = 0
      BY <1>6, <2>5 DEF LookOn, Goto
    <3>2. ASSUME NEW k, Named(k) PROVE 0 <= k /\ k < self.symoffset
      BY <1>2, <1>4, <2>4, <2>5, <3>2
    <3>3. Ahead'
      BY <1>1, <1>2, <3>1, <3>2, LookSteps DEF Ahead
    <3> QED BY <2>3, <3>3
  <2>6. CASE symhash % 2 # 1
    <3>1. pc' = "gnu" /\ i' = i + 1
      BY <1>6, <2>6 DEF LookOn, Goto
    <3>2. i # Len(image.names) - 1
      BY <1>1, <1>2, <1>3, <2>6
    <3>3. i + 1 \in self.symoffset..(Len(image.names) - 1)
      BY <1>1, <1>2, <3>2
    <3>4. ASSUME NEW k, Named(k), k >= self.symoffset
          PROVE  i + 1 <= k /\ \A j \in (i + 1)..(k - 1) : LowBit(self, j) = 0
      <4>1. \A j \in i..(k - 1) : LowBit(self, j) = 0
        BY <1>1, <3>4
      <4>2. \A j \in (i + 1)..(k - 1) : j \in i..(k - 1)
        BY <1>1, <1>2, <1>4, <3>4
      <4> QED BY <2>4, <3>4, <4>1, <4>2
    <3>5. \A j : LowBit(self', j) = LowBit(self, j)
      BY <1>1
    <3>6. Ahead'
      BY <1>1, <3>1, <3>3, <3>4, <3>5, LookSteps DEF Ahead
    <3> QED BY <2>3, <3>6
  <2> QED BY <2>5, <2>6
<1> QED BY <1>5, <1>6, Zenon DEF GnuLookup, symhash

\* Once the index is known, it stays until the call returns.
LEMMA FindingKept ==
    ASSUME Finding, UNCHANGED <<image, self, todo, symidx>>,
           \/ UNCHANGED <<pc, i>>
           \/ pc \notin Begun \cup Search \cup {"return"} /\ pc' \notin Begun \cup Search
    PROVE  Finding'
<1>1. \A k : (Named(k))' <=> Named(k)
  BY DEF Named, Name
<1>2. Looked' /\ Queued'
  BY <1>1 DEF Finding, Looked, Queued
<1>3. CASE UNCHANGED <<pc, i>>
  <2>1. \A k, j : /\ LowBit(self', j) = LowBit(self, j)
                 /\ Reaches(image'.names, self', i', k) <=> Reaches(image.names, self, i, k)
    BY <1>3
  <2>2. Ahead'
    BY <1>1, <1>3, <2>1 DEF Finding, Ahead
  <2> QED BY <1>2, <2>2 DEF Finding
<1>4. CASE pc' \notin Begun \cup Search
  BY <1>2, <1>4 DEF Finding, Ahead, Search
<1> QED BY <1>3, <1>4

LEMMA FindingOther ==
    ASSUME PagesInv, Finding,
           \/ InitElf \/ ParseDynamic \/ CheckElf \/ LeavePlt \/ PackedInit \/ Return \/ AllHooked
           \/ PltTable \/ DynTable \/ PackedTable
           \/ Faults \/ Compare \/ Unlock \/ SaveOld \/ WriteNew \/ Restore
           \/ UNCHANGED vars
    PROVE  Finding'
<1>1. CASE InitElf \/ ParseDynamic \/ CheckElf \/ AllHooked
  <2>1. /\ pc \in Begun /\ pc' \in Begun /\ UNCHANGED symidx
        /\ todo' = todo \/ todo' = <<>>
    BY <1>1 DEF InitElf, ParseDynamic, CheckElf, AllHooked, Refused, Going, Goto, Hooking, Begun, Parsing
  <2>2. Ahead'
    BY <2>1 DEF Ahead, Begun, Parsing
  <2>3. Looked'
    BY <2>1 DEF Finding, Looked, Begun, Parsing
  <2>4. todo \in Seq(Names) /\ <<>> \in Seq(Names)
    BY DEF Finding, Queued
  <2>5. todo' \in Seq(Names)
    BY <2>1, <2>4
  <2> QED BY <2>1, <2>2, <2>3, <2>5 DEF Finding, Queued
<1>2. CASE Return
  <2>1. pc' = "next" /\ symidx' = None /\ todo' = Tail(todo) /\ todo \in Seq(Names) /\ todo # <<>>
    BY <1>2 DEF Return, Goto, Finding, Queued, Begun, Parsing
  <2>2. todo' \in Seq(Names)
    BY <2>1
  <2> QED BY <2>1, <2>2 DEF Finding, Ahead, Looked, Queued, Begun, Search, Parsing
<1>3. CASE LeavePlt \/ PackedInit
  <2>1. /\ pc \in {"leaveplt", "packed0"} /\ pc' \in {"dyn", "packed", "return"}
        /\ UNCHANGED <<image, self, todo, symidx>>
    BY <1>3 DEF LeavePlt, PackedInit, Walking, Goto
  <2> QED BY <2>1, FindingKept DEF Begun, Search, Parsing
<1>4. CASE PltTable \/ DynTable \/ PackedTable
  <2>1. UNCHANGED <<image, self, todo, symidx>> /\ pc \in {"plt", "dyn", "packed"}
    BY <1>4 DEF PltTable, DynTable, PackedTable, Walking
  <2>2. pc' \in {"leaveplt", "packed0", "return", "compare", pc}
    BY <1>4 DEF PltTable, DynTable, PackedTable, Examine, Goto
  <2> QED BY <2>1, <2>2, FindingKept DEF Begun, Search, Parsing
<1>5. CASE Faults \/ Compare \/ Unlock \/ SaveOld \/ WriteNew \/ Restore
  <2>1. UNCHANGED <<image, self, todo, symidx>> /\ pc \in InSlot
    BY <1>5 DEF Faults, Compare, Unlock, SaveOld, WriteNew, Restore, Replacing, InSlot
  <2>2. pc' \in {"crashed", "save", "unlock", "write", "restore", "return", slot.next}
    BY <1>5 DEF Faults, Compare, Unlock, SaveOld, WriteNew, Restore, Fail, Goto
  <2>3. slot.next \in GoOn
    BY <2>1 DEF PagesInv, SlotKnown
  <2> QED BY <2>1, <2>2, <2>3, FindingKept DEF Begun, Search, Parsing, InSlot, GoOn
<1>6. CASE UNCHANGED vars
  BY <1>6, FindingKept DEF vars
<1> QED BY <1>1, <1>2, <1>3, <1>4, <1>5, <1>6

HashInv == PagesInv /\ SelfRead /\ Finding
LEMMA HashInit == Init => HashInv
BY PagesInit, ReadInit DEF HashInv, Finding

LEMMA HashNext ==
    ASSUME AllHashesSound, HashInv, [Next]_vars
    PROVE  HashInv'
<1>1. PagesInv' /\ SelfRead'
  BY PagesNext, ReadNext DEF HashInv
<1>2. Finding'
  BY AheadNextHook, AheadSysv, AheadBloom, AheadGnu, AheadUndef, FindingOther DEF HashInv, Next, Idle
<1> QED BY <1>1, <1>2 DEF HashInv

LEMMA FindsIt ==
    ASSUME AllHashesSound, HashInv
    PROVE  LookupExact
<1>1. symidx # None => image.names[symidx + 1] = Name
  BY DEF HashInv, Finding, Looked, Named
<1>2. ASSUME pc = "return", symidx = None, NEW n \in DOMAIN image.names
      PROVE  image.names[n] # Name
  <2>1. image.names \in Seq({None} \cup Names) /\ Len(image.names) \in Nat
    BY <1>2, Tables DEF HashInv, Parsing
  <2>2. n - 1 \in Indices(image.names) /\ (n - 1) + 1 = n
    BY <1>2, <2>1 DEF Indices
  <2>3. ~Named(n - 1)
    BY <1>2 DEF HashInv, Finding, Looked
  <2> QED BY <2>2, <2>3 DEF Named
<1> QED BY <1>1, <1>2 DEF LookupExact

\* A lookup finds the symbol of that name, through either table, and says there is
\* none only if there is none, in any image whose hash tables are sound and in which
\* DT_HASH does not follow DT_GNU_HASH (355-445).
THEOREM LookupIsExact == AllHashesSound => (Spec => []LookupExact)
<1> SUFFICES ASSUME AllHashesSound PROVE Spec => []LookupExact
  OBVIOUS
<1>1. HashInv /\ [Next]_vars => HashInv'
  BY HashNext
<1>2. HashInv => LookupExact
  BY FindsIt
<1> QED BY <1>1, <1>2, HashInit, PTL DEF Spec

-----------------------------------------------------------------------------
(***************************************************************************)
(* The plain tables, as they are read from the dynamic section.            *)
(***************************************************************************)
AllRelocsSound == \A im \in Images : RelocsSound(im)

\* What self has of a table, when the entries before i have been gone through.
TableRead(addr, size, rels, tag, sizeTag) ==
    /\ addr # 0 => \E k \in Tagged(image, tag) : addr = At(image, k)
    /\ size \in {0, Len(rels)}
    /\ IF pc = "dynamic"
       THEN /\ (\E k \in Tagged(image, tag) : k < i) => addr # 0
            /\ (\E k \in Tagged(image, sizeTag) : k < i) => size = Len(rels)
       ELSE /\ Tagged(image, tag) # {} => addr # 0
            /\ Tagged(image, sizeTag) # {} => size = Len(rels)
TablesRead ==
    pc \notin {"init", "done"} =>
        /\ TableRead(self.relplt, self.relplt_sz, image.linked.plt, "JMPREL", "PLTRELSZ")
        /\ TableRead(self.reldyn, self.reldyn_sz, image.linked.dyn, "REL", "RELSZ")

\* A table that is read as it is: the relocation at each place but the first, and
\* behind the last one none for a symbol.
TableIs(addr, size, rels, isPlt) ==
    /\ size = Len(rels)
    /\ rels # <<>> => addr # 0
    /\ addr # 0 => /\ \A n \in 1..(Len(rels) - 1) : image.at[addr + n] = rels[n + 1]
                   /\ Type(image.at[addr + Len(rels)].info) \notin Types(isPlt)
LEMMA TableKnown ==
    ASSUME pc # "dynamic", NEW addr, NEW size, NEW rels, NEW tag, NEW sizeTag, NEW isPlt,
           rels \in Seq([offset : Nat, info : Nat]),
           TableRead(addr, size, rels, tag, sizeTag), TableSound(image, rels, isPlt, tag, sizeTag)
    PROVE  TableIs(addr, size, rels, isPlt)
<1>1. size = Len(rels)
  <2>1. CASE rels = <<>>
    BY <2>1 DEF TableRead
  <2>2. CASE rels # <<>>
    BY <2>2 DEF TableRead, TableSound
  <2> QED BY <2>1, <2>2
<1>2. rels # <<>> => addr # 0
  BY DEF TableRead, TableSound
<1>3. ASSUME addr # 0
      PROVE  /\ \A n \in 1..(Len(rels) - 1) : image.at[addr + n] = rels[n + 1]
             /\ Type(image.at[addr + Len(rels)].info) \notin Types(isPlt)
  BY <1>3, Zenon DEF TableRead, TableSound
<1> QED BY <1>1, <1>2, <1>3 DEF TableIs

\* An entry of the dynamic section, for a table.
TableNext(addr, size, rels, tag, sizeTag) ==
    /\ addr # 0 => \E k \in Tagged(image, tag) : addr = At(image, k)
    /\ size \in {0, Len(rels)}
    /\ (\E k \in Tagged(image, tag) : k < i + 1) => addr # 0
    /\ (\E k \in Tagged(image, sizeTag) : k < i + 1) => size = Len(rels)
LEMMA TableEntry ==
    ASSUME NEW addr, NEW size, NEW addr2, NEW size2, NEW rels, NEW tag, NEW sizeTag, NEW isPlt,
           tag # sizeTag, pc = "dynamic", i \in Entries(image), i \in Nat,
           TableSound(image, rels, isPlt, tag, sizeTag),
           TableRead(addr, size, rels, tag, sizeTag),
           addr2 = IF image.dyn[i].tag = tag THEN At(image, i) ELSE addr,
           size2 = IF image.dyn[i].tag = sizeTag THEN image.dyn[i].val ELSE size
    PROVE  TableNext(addr2, size2, rels, tag, sizeTag)
<1>1. \A t : /\ \A k \in Tagged(image, t) : k \in Int /\ (k < i + 1 => k < i \/ k = i)
             /\ i \in Tagged(image, t) <=> image.dyn[i].tag = t
  BY DEF Tagged, Entries
<1>2. /\ addr # 0 => \E k \in Tagged(image, tag) : addr = At(image, k)
      /\ size \in {0, Len(rels)}
      /\ (\E k \in Tagged(image, tag) : k < i) => addr # 0
      /\ (\E k \in Tagged(image, sizeTag) : k < i) => size = Len(rels)
  BY DEF TableRead
<1>3. /\ \A k \in Tagged(image, sizeTag) : image.dyn[k].val = Len(rels)
      /\ \A k \in Tagged(image, tag) : At(image, k) # 0
  BY DEF TableSound
<1>4. addr2 # 0 => \E k \in Tagged(image, tag) : addr2 = At(image, k)
  BY <1>1, <1>2
<1>5. size2 \in {0, Len(rels)}
  BY <1>1, <1>2, <1>3
<1>6. (\E k \in Tagged(image, tag) : k < i + 1) => addr2 # 0
  <2>1. CASE image.dyn[i].tag = tag
    BY <1>1, <1>3, <2>1
  <2>2. CASE image.dyn[i].tag # tag
    BY <1>1, <1>2, <2>2
  <2> QED BY <2>1, <2>2
<1>7. (\E k \in Tagged(image, sizeTag) : k < i + 1) => size2 = Len(rels)
  <2>1. CASE image.dyn[i].tag = sizeTag
    BY <1>1, <1>3, <2>1
  <2>2. CASE image.dyn[i].tag # sizeTag
    BY <1>1, <1>2, <2>2
  <2> QED BY <2>1, <2>2
<1> QED BY <1>4, <1>5, <1>6, <1>7 DEF TableNext

LEMMA ParsedTables ==
    ASSUME NEW entry, DOMAIN self = Fields
    PROVE  /\ Parsed(entry).relplt = IF entry.tag = "JMPREL" THEN Pointer(entry) ELSE self.relplt
           /\ Parsed(entry).relplt_sz = IF entry.tag = "PLTRELSZ" THEN entry.val ELSE self.relplt_sz
           /\ Parsed(entry).reldyn = IF entry.tag = "REL" THEN Pointer(entry) ELSE self.reldyn
           /\ Parsed(entry).reldyn_sz = IF entry.tag = "RELSZ" THEN entry.val ELSE self.reldyn_sz
<1> DEFINE Same(t) == /\ t.relplt = self.relplt /\ t.relplt_sz = self.relplt_sz
                      /\ t.reldyn = self.reldyn /\ t.reldyn_sz = self.reldyn_sz
<1> DEFINE to == Pointer(entry)
<1> DEFINE table == image.at[to]
<1>1. CASE entry.tag \in {"JMPREL", "PLTRELSZ", "REL", "RELSZ"}
  <2>1. Parsed(entry) =
          CASE entry.tag = "PLTRELSZ" -> [self EXCEPT !.relplt_sz = entry.val]
            [] entry.tag = "JMPREL" -> [self EXCEPT !.relplt = to]
            [] entry.tag = "REL" -> [self EXCEPT !.reldyn = to]
            [] entry.tag = "RELSZ" -> [self EXCEPT !.reldyn_sz = entry.val]
    BY <1>1 DEF Parsed
  <2> HIDE DEF to
  <2>2. CASE entry.tag = "PLTRELSZ"
    BY <2>1, <2>2 DEF Fields
  <2>3. CASE entry.tag = "JMPREL"
    BY <2>1, <2>3 DEF Fields, to
  <2>4. CASE entry.tag = "REL"
    BY <2>1, <2>4 DEF Fields, to
  <2>5. CASE entry.tag = "RELSZ"
    BY <2>1, <2>5 DEF Fields
  <2> QED BY <1>1, <2>2, <2>3, <2>4, <2>5
<1>2. CASE entry.tag \notin {"JMPREL", "PLTRELSZ", "REL", "RELSZ"}
  <2>1. \A v : /\ Same([self EXCEPT !.strtab = v]) /\ Same([self EXCEPT !.rela = v])
               /\ Same([self EXCEPT !.symtab = v]) /\ Same([self EXCEPT !.android = v]) /\ Same(self)
    BY DEF Fields
  <2>2. entry.tag = "HASH" =>
            Parsed(entry) = [self EXCEPT !.bucket = table.bucket, !.chain = table.chain]
    BY ParsedHash
  <2>3. entry.tag = "GNU_HASH" =>
            Parsed(entry) = [self EXCEPT !.bucket = table.bucket, !.chain = table.chain,
                                         !.symoffset = table.symoffset, !.bloom = table.bloom,
                                         !.shift = table.shift, !.gnu = TRUE]
    BY ParsedGnuHash
  <2> HIDE DEF table, Same
  <2>4. Same(Parsed(entry))
    <3>1. CASE entry.tag = "HASH"
      <4>1. Parsed(entry) = [self EXCEPT !.bucket = table.bucket, !.chain = table.chain]
        BY <2>2, <3>1
      <4> QED BY <4>1 DEF Same, Fields
    <3>2. CASE entry.tag = "GNU_HASH"
      <4>1. Parsed(entry) = [self EXCEPT !.bucket = table.bucket, !.chain = table.chain,
                                         !.symoffset = table.symoffset, !.bloom = table.bloom,
                                         !.shift = table.shift, !.gnu = TRUE]
        BY <2>3, <3>2
      <4> QED BY <4>1 DEF Same, Fields
    <3>3. CASE entry.tag \notin {"HASH", "GNU_HASH"}
      BY <1>2, <2>1, <3>3 DEF Parsed
    <3> QED BY <3>1, <3>2, <3>3
  <2> QED BY <1>2, <2>4 DEF Same
<1> QED BY <1>1, <1>2

LEMMA TablesInitElf ==
    ASSUME SelfRead, InitElf
    PROVE  TablesRead'
<1>1. /\ pc = "init" /\ image' = image
  BY DEF InitElf
<1>2. CASE Accepted(image)
  <2>1. pc' = "dynamic" /\ i' = 1 /\ self' = [NoElf EXCEPT !.bias = Bias(image)]
    BY <1>1, <1>2 DEF InitElf, Goto
  <2>2. /\ self'.relplt = 0 /\ self'.relplt_sz = 0 /\ self'.reldyn = 0 /\ self'.reldyn_sz = 0
    BY <2>1 DEF NoElf
  <2>3. \A t : \A k \in Tagged(image', t) : k \in Int /\ ~(k < 1)
    BY <1>1 DEF Tagged, Entries
  <2> QED BY <2>1, <2>2, <2>3 DEF TablesRead, TableRead
<1>3. CASE ~Accepted(image)
  BY <1>1, <1>3 DEF InitElf, Refused, TablesRead
<1> QED BY <1>2, <1>3

LEMMA SoundTables ==
    ASSUME AllRelocsSound, image \in Images, Accepted(image)
    PROVE  /\ TableSound(image, image.linked.plt, TRUE, "JMPREL", "PLTRELSZ")
           /\ TableSound(image, image.linked.dyn, FALSE, "REL", "RELSZ")
           /\ SymbolsSound(image, image.linked.plt, TRUE)
           /\ SymbolsSound(image, image.linked.dyn, FALSE)
           /\ SymbolsSound(image, image.linked.android, FALSE)
           /\ \A j, k \in 1..Len(image.names) : image.names[j] = image.names[k] => j = k
           /\ \A m, n \in Names : m # n => Slots(image, m, 2) \cap Slots(image, n, 2) = {}
BY DEF AllRelocsSound, RelocsSound

LEMMA TablesDynamic ==
    ASSUME AllRelocsSound, SelfRead, TablesRead, ParseDynamic
    PROVE  TablesRead'
<1> DEFINE entry == image.dyn[i]
<1>1. /\ pc = "dynamic" /\ image' = image /\ image \in Images
      /\ Accepted(image) /\ DOMAIN self = Fields /\ self.bias = Bias(image)
      /\ i \in Nat \ {0} /\ \A l \in 1..(i - 1) : l \in Entries(image)
  BY DEF SelfRead, ParseDynamic
<1>2. /\ TableRead(self.relplt, self.relplt_sz, image.linked.plt, "JMPREL", "PLTRELSZ")
      /\ TableRead(self.reldyn, self.reldyn_sz, image.linked.dyn, "REL", "RELSZ")
  BY <1>1 DEF TablesRead
<1>3. \A t, k : /\ Tagged(image', t) = Tagged(image, t)
                /\ At(image', k) = At(image, k)
  BY <1>1
<1>4. image.dyn \in Seq([tag : STRING, val : Nat]) /\ Len(image.dyn) \in Nat
  BY <1>1, ImagesAssumption
<1>5. CASE i > Len(image.dyn) \/ entry.tag = "NULL"
  <2>1. pc' = "check" /\ self' = self
    BY <1>1, <1>5 DEF ParseDynamic, Goto
  <2>2. ASSUME NEW t, NEW k \in Tagged(image, t) PROVE k < i
    <3>1. k \in 1..Len(image.dyn) /\ \A l \in 1..k : image.dyn[l].tag # "NULL"
      BY <2>2 DEF Tagged, Entries
    <3> QED BY <1>1, <1>4, <1>5, <3>1
  <2>3. \A addr, size, rels, tag, sizeTag :
           TableRead(addr, size, rels, tag, sizeTag) =>
              /\ addr # 0 => \E k \in Tagged(image, tag) : addr = At(image, k)
              /\ size \in {0, Len(rels)}
              /\ Tagged(image, tag) # {} => addr # 0
              /\ Tagged(image, sizeTag) # {} => size = Len(rels)
    <3> SUFFICES ASSUME NEW addr, NEW size, NEW rels, NEW tag, NEW sizeTag,
                        TableRead(addr, size, rels, tag, sizeTag)
                 PROVE  /\ addr # 0 => \E k \in Tagged(image, tag) : addr = At(image, k)
                        /\ size \in {0, Len(rels)}
                        /\ Tagged(image, tag) # {} => addr # 0
                        /\ Tagged(image, sizeTag) # {} => size = Len(rels)
      OBVIOUS
    <3> QED BY <1>1, <2>2 DEF TableRead
  <2>4. (TableRead(self.relplt, self.relplt_sz, image.linked.plt, "JMPREL", "PLTRELSZ"))'
    <3>1. /\ self.relplt # 0 => \E k \in Tagged(image, "JMPREL") : self.relplt = At(image, k)
          /\ self.relplt_sz \in {0, Len(image.linked.plt)}
          /\ Tagged(image, "JMPREL") # {} => self.relplt # 0
          /\ Tagged(image, "PLTRELSZ") # {} => self.relplt_sz = Len(image.linked.plt)
      BY <1>2, <2>3
    <3> QED BY <1>1, <1>3, <2>1, <3>1 DEF TableRead
  <2>5. (TableRead(self.reldyn, self.reldyn_sz, image.linked.dyn, "REL", "RELSZ"))'
    <3>1. /\ self.reldyn # 0 => \E k \in Tagged(image, "REL") : self.reldyn = At(image, k)
          /\ self.reldyn_sz \in {0, Len(image.linked.dyn)}
          /\ Tagged(image, "REL") # {} => self.reldyn # 0
          /\ Tagged(image, "RELSZ") # {} => self.reldyn_sz = Len(image.linked.dyn)
      BY <1>2, <2>3
    <3> QED BY <1>1, <1>3, <2>1, <3>1 DEF TableRead
  <2> QED BY <2>4, <2>5 DEF TablesRead
<1>6. CASE Refused
  BY <1>6 DEF TablesRead, Refused
<1>7. CASE /\ ~(i > Len(image.dyn) \/ entry.tag = "NULL")
           /\ self' = Parsed(entry) /\ i' = i + 1 /\ pc' = pc
  <2>1. i \in Entries(image)
    <3>1. i \in 1..Len(image.dyn)
      BY <1>1, <1>4, <1>7
    <3>2. \A l \in 1..(i - 1) : image.dyn[l].tag # "NULL"
      BY <1>1 DEF Entries
    <3>3. \A l \in 1..i : image.dyn[l].tag # "NULL"
      BY <1>1, <1>7, <3>2
    <3> QED BY <3>1, <3>3 DEF Entries
  <2>2. At(image, i) = Pointer(entry)
    BY <1>1 DEF At, Pointer
  <2> HIDE DEF entry
  <2>3. /\ self'.relplt = IF entry.tag = "JMPREL" THEN At(image, i) ELSE self.relplt
        /\ self'.relplt_sz = IF entry.tag = "PLTRELSZ" THEN entry.val ELSE self.relplt_sz
        /\ self'.reldyn = IF entry.tag = "REL" THEN At(image, i) ELSE self.reldyn
        /\ self'.reldyn_sz = IF entry.tag = "RELSZ" THEN entry.val ELSE self.reldyn_sz
    BY <1>1, <1>7, <2>2, ParsedTables
  <2>4. /\ TableSound(image, image.linked.plt, TRUE, "JMPREL", "PLTRELSZ")
        /\ TableSound(image, image.linked.dyn, FALSE, "REL", "RELSZ")
    BY <1>1, SoundTables
  <2>5. TableNext(self'.relplt, self'.relplt_sz, image.linked.plt, "JMPREL", "PLTRELSZ")
    BY <1>1, <1>2, <2>1, <2>3, <2>4, TableEntry DEF entry
  <2>6. TableNext(self'.reldyn, self'.reldyn_sz, image.linked.dyn, "REL", "RELSZ")
    BY <1>1, <1>2, <2>1, <2>3, <2>4, TableEntry DEF entry
  <2> QED BY <1>1, <1>3, <1>7, <2>5, <2>6 DEF TablesRead, TableRead, TableNext
<1> QED BY <1>1, <1>5, <1>6, <1>7 DEF ParseDynamic, Goto

LEMMA TablesOther ==
    ASSUME SelfRead, PagesInv, TablesRead, [Next]_vars, ~InitElf, ~ParseDynamic
    PROVE  TablesRead'
<1>1. CASE UNCHANGED vars
  BY <1>1 DEF vars, TablesRead, TableRead, At, Tagged, Entries
<1>2. CASE ~UNCHANGED vars
  <2>1. UNCHANGED <<image, self>> /\ pc \notin {"init", "dynamic"}
    BY <1>2 DEF Next, Idle, CheckElf, NextHook, SysvLookup, GnuBloom, GnuLookup, GnuUndef, LeavePlt,
                PackedInit, Return, AllHooked, PltTable, DynTable, PackedTable, Looking, Walking,
                Faults, Compare, Unlock, SaveOld, WriteNew, Restore, Replacing
  <2>2. pc' # "dynamic" /\ (pc = "done" => pc' = "done")
    <3>1. CASE Faults \/ Compare \/ Unlock \/ SaveOld \/ WriteNew \/ Restore
      <4>1. pc \in InSlot
        BY <3>1 DEF Faults, Compare, Unlock, SaveOld, WriteNew, Restore, InSlot
      <4>2. pc' \in {"crashed", "save", "unlock", "write", "restore", "return", slot.next}
        BY <3>1 DEF Faults, Compare, Unlock, SaveOld, WriteNew, Restore, Fail, Goto
      <4>3. slot.next \in GoOn
        BY <4>1 DEF PagesInv, SlotKnown
      <4> QED BY <4>1, <4>2, <4>3 DEF GoOn, InSlot
    <3>2. CASE PltTable \/ DynTable \/ PackedTable
      BY <3>2 DEF PltTable, DynTable, PackedTable, Examine, Goto
    <3>3. CASE CheckElf \/ NextHook \/ SysvLookup \/ GnuBloom \/ GnuLookup \/ GnuUndef \/ LeavePlt
               \/ PackedInit \/ Return \/ AllHooked
      BY <3>3 DEF CheckElf, NextHook, SysvLookup, GnuBloom, GnuLookup, GnuUndef, LeavePlt,
                  PackedInit, Return, AllHooked, Goto, Refused, Found, LookOn, NotFound
    <3> QED BY <1>2, <3>1, <3>2, <3>3 DEF Next, Idle
  <2>3. \A t, k : /\ Tagged(image', t) = Tagged(image, t)
                  /\ At(image', k) = At(image, k)
    BY <2>1
  <2> QED BY <2>1, <2>2, <2>3 DEF TablesRead, TableRead
<1> QED BY <1>1, <1>2

-----------------------------------------------------------------------------
(***************************************************************************)
(* The slots.  What the tables have had so far for the symbol is replaced, *)
(* but for the slot that is being replaced; whatever is replaced is a slot *)
(* of its symbol, whose original is kept.                                  *)
(***************************************************************************)
Relocs == Seq([offset : Nat, info : Nat])
\* The slots of the symbol in .rel.dyn up to the n-th relocation, and those of
\* the relocations the packed iterator has returned.
DynUpTo(n) ==
    SlotsOf(image, image.linked.dyn,
            {k \in For(image, image.linked.dyn, Name, FALSE) : k >= 2 /\ k <= n})
GivenSlots ==
    SlotsOf(image, image.linked.android,
            {k \in For(image, image.linked.android, Name, FALSE) : k <= Len(given)})
Written(S) == \A a \in S : a \in DOMAIN mem /\ mem[a] = New(Name)
WrittenBut(S) == Written(S \ {slot.addr})

Replaces(next) == pc \in InSlot /\ slot.next = next
PltWalk ==
    /\ pc = "plt" =>
          /\ i \in 0..Len(image.linked.plt)
          /\ \A k \in For(image, image.linked.plt, Name, TRUE) : k < 2 \/ k > i + 1
    /\ Replaces("leaveplt") => PltSlots(image, Name, 2) = {slot.addr}
PltDone ==
    pc \in {"leaveplt", "dyn", "packed0", "packed"} \/ Replaces("dyn") \/ Replaces("packed") =>
        Written(PltSlots(image, Name, 2))
DynWalk ==
    /\ pc = "dyn" => i \in 0..Len(image.linked.dyn) /\ Written(DynUpTo(i + 1))
    /\ Replaces("dyn") =>
          /\ i \in 0..Len(image.linked.dyn) /\ WrittenBut(DynUpTo(i + 1))
          /\ slot.addr \in DynSlots(image, Name, 2)
DynDone ==
    pc \in {"packed0", "packed"} \/ Replaces("packed") => Written(DynSlots(image, Name, 2))
PackedWalk ==
    /\ pc = "packed" => Written(GivenSlots)
    /\ Replaces("packed") => WrittenBut(GivenSlots) /\ slot.addr \in AndroidSlots(image, Name)
    /\ pc \notin {"packed", "return", "crashed"} \cup Begun /\ ~Replaces("packed") => given = <<>>
    /\ given \in Relocs
AllDone ==
    pc = "return" /\ result = "ok" /\ symidx # None =>
        /\ Written(PltSlots(image, Name, 2)) /\ Written(DynSlots(image, Name, 2))
        /\ Written(GivenSlots)
WalkInv == PltWalk /\ PltDone /\ DynWalk /\ DynDone /\ PackedWalk /\ AllDone

SlotsKept ==
    /\ DOMAIN mem = DOMAIN image.page
    /\ \A a \in DOMAIN mem :
          \/ mem[a] = Original(a)
          \/ \E n \in Names : mem[a] = New(n) /\ a \in Slots(image, n, 2) /\ old[n] # None
OldKept ==
    /\ DOMAIN old = Names
    /\ \A n \in Names : old[n] # None => \E a \in Slots(image, n, 2) : old[n] = Original(a)
SlotNow ==
    /\ pc \in {"unlock", "save"} => mem[slot.addr] # New(Name)
    /\ pc = "write" => old[Name] # None
    /\ pc = "restore" => mem[slot.addr] = New(Name)
MemInv == SlotsKept /\ OldKept /\ SlotNow

Known == AllHashesSound /\ AllRelocsSound /\ HashInv /\ TablesRead
Walks == {"plt", "leaveplt", "dyn", "packed0", "packed"} \cup InSlot

\* Where the tables are gone through, the symbol is known, and the tables are.
LEMMA Walked ==
    ASSUME Known, pc \in Walks
    PROVE  /\ self.bias = Bias(image) /\ Name \in Names /\ symidx # None /\ Named(symidx)
           /\ \A j, k \in 1..Len(image.names) : image.names[j] = image.names[k] => j = k
           /\ Len(image.names) \in Nat
           /\ SymbolsSound(image, image.linked.plt, TRUE)
           /\ SymbolsSound(image, image.linked.dyn, FALSE)
           /\ SymbolsSound(image, image.linked.android, FALSE)
           /\ TableIs(self.relplt, self.relplt_sz, image.linked.plt, TRUE)
           /\ TableIs(self.reldyn, self.reldyn_sz, image.linked.dyn, FALSE)
           /\ \A m, n \in Names : m # n => Slots(image, m, 2) \cap Slots(image, n, 2) = {}
<1>1. pc \notin Begun \cup Search \cup {"return"} /\ pc \notin Parsing /\ pc # "dynamic"
  BY DEF Walks, InSlot, Begun, Search, Parsing
<1>2. image \in Images /\ Accepted(image) /\ self.bias = Bias(image)
  BY <1>1 DEF Known, HashInv, SelfRead, Parsing
<1>3. symidx # None /\ Named(symidx) /\ todo # <<>> /\ Queued
  BY <1>1 DEF Known, HashInv, Finding, Looked, Queued
<1>4. Name \in Names
  BY <1>3, NameIs
<1>5. Len(image.names) \in Nat
  BY <1>1, Tables DEF Known, HashInv
<1>6. /\ TableRead(self.relplt, self.relplt_sz, image.linked.plt, "JMPREL", "PLTRELSZ")
      /\ TableRead(self.reldyn, self.reldyn_sz, image.linked.dyn, "REL", "RELSZ")
  BY <1>1 DEF Known, TablesRead, Parsing
<1>7. /\ TableSound(image, image.linked.plt, TRUE, "JMPREL", "PLTRELSZ")
      /\ TableSound(image, image.linked.dyn, FALSE, "REL", "RELSZ")
      /\ SymbolsSound(image, image.linked.plt, TRUE)
      /\ SymbolsSound(image, image.linked.dyn, FALSE)
      /\ SymbolsSound(image, image.linked.android, FALSE)
      /\ \A j, k \in 1..Len(image.names) : image.names[j] = image.names[k] => j = k
      /\ \A m, n \in Names : m # n => Slots(image, m, 2) \cap Slots(image, n, 2) = {}
  BY <1>2, SoundTables DEF Known
<1>8. /\ image.linked.plt \in Seq([offset : Nat, info : Nat])
      /\ image.linked.dyn \in Seq([offset : Nat, info : Nat])
  BY <1>7 DEF SymbolsSound
<1>9. TableIs(self.relplt, self.relplt_sz, image.linked.plt, TRUE)
  BY <1>1, <1>6, <1>7, <1>8, TableKnown
<1>10. TableIs(self.reldyn, self.reldyn_sz, image.linked.dyn, FALSE)
  BY <1>1, <1>6, <1>7, <1>8, TableKnown
<1> QED BY <1>2, <1>3, <1>4, <1>5, <1>7, <1>9, <1>10

\* A relocation that is for the index is one for the name.
LEMMA MatchIs ==
    ASSUME Known, pc \in Walks, NEW rels, NEW isPlt, SymbolsSound(image, rels, isPlt),
           NEW k \in 1..Len(rels)
    PROVE  Matches(rels[k], isPlt) <=> k \in For(image, rels, Name, isPlt)
<1>1. /\ Named(symidx) /\ Len(image.names) \in Nat
      /\ \A j, l \in 1..Len(image.names) : image.names[j] = image.names[l] => j = l
  BY Walked
<1> DEFINE sym == Sym(rels[k].info)
<1>2. k \in For(image, rels, Name, isPlt) <=>
         Type(rels[k].info) \in Types(isPlt) /\ image.names[sym + 1] = Name
  BY DEF For
<1>3. Matches(rels[k], isPlt) <=> sym = symidx /\ Type(rels[k].info) \in Types(isPlt)
  BY DEF Matches
<1>4. ASSUME Type(rels[k].info) \in Types(isPlt), image.names[sym + 1] = Name
      PROVE  sym = symidx
  <2>1. sym \in Indices(image.names)
    BY <1>4 DEF SymbolsSound
  <2> HIDE DEF sym
  <2>2. /\ sym \in 0..(Len(image.names) - 1) /\ symidx \in 0..(Len(image.names) - 1)
        /\ image.names[symidx + 1] = Name
    BY <1>1, <2>1 DEF Named, Indices
  <2>3. sym + 1 \in 1..Len(image.names) /\ symidx + 1 \in 1..Len(image.names)
    BY <1>1, <2>2
  <2>4. sym + 1 = symidx + 1
    BY <1>1, <1>4, <2>2, <2>3
  <2> QED BY <1>1, <2>2, <2>4
<1>5. sym = symidx => image.names[sym + 1] = Name
  BY <1>1 DEF Named
<1> HIDE DEF sym
<1> QED BY <1>2, <1>3, <1>4, <1>5

\* The three ways a relocation is gone on from.
LEMMA ExamineIs ==
    ASSUME NEW rel, NEW isPlt, NEW next, Examine(rel, isPlt, next)
    PROVE  \/ ~Matches(rel, isPlt) /\ UNCHANGED <<pc, slot, result>>
           \/ Matches(rel, isPlt) /\ pc' = "return" /\ result' = "error"
           \/ /\ Matches(rel, isPlt) /\ pc' = "compare"
              /\ slot'.addr = Address(rel) /\ slot'.next = next
BY DEF Examine, Goto

LEMMA SlotsOfSub ==
    ASSUME NEW im, NEW rels, NEW ks, NEW ls, ks \subseteq ls
    PROVE  SlotsOf(im, rels, ks) \subseteq SlotsOf(im, rels, ls)
BY DEF SlotsOf
LEMMA SlotsOfMore ==
    ASSUME NEW im, NEW rels, NEW ks, NEW ls, NEW k, ks \subseteq ls \cup {k}
    PROVE  SlotsOf(im, rels, ks) \subseteq
              SlotsOf(im, rels, ls) \cup {(Bias(im) + rels[k].offset) % WordSize}
BY DEF SlotsOf
LEMMA SlotsOfHas ==
    ASSUME NEW im, NEW rels, NEW ks, NEW k \in ks
    PROVE  (Bias(im) + rels[k].offset) % WordSize \in SlotsOf(im, rels, ks)
BY DEF SlotsOf

\* What does not change with the slots.
LEMMA SameSlots ==
    ASSUME UNCHANGED <<image, todo>>
    PROVE  /\ Name' = Name
           /\ (PltSlots(image, Name, 2))' = PltSlots(image, Name, 2)
           /\ (DynSlots(image, Name, 2))' = DynSlots(image, Name, 2)
           /\ (AndroidSlots(image, Name))' = AndroidSlots(image, Name)
           /\ \A n : (DynUpTo(n))' = DynUpTo(n)
           /\ UNCHANGED given => GivenSlots' = GivenSlots
           /\ UNCHANGED mem => \A S : (Written(S))' <=> Written(S)
<1>1. Name' = Name
  BY DEF Name
<1>2. \A n : (DynUpTo(n))' = DynUpTo(n)
  BY <1>1 DEF DynUpTo
<1>3. UNCHANGED given => GivenSlots' = GivenSlots
  BY <1>1 DEF GivenSlots
<1>4. UNCHANGED mem => \A S : (Written(S))' <=> Written(S)
  BY <1>1 DEF Written
<1>5. /\ (PltSlots(image, Name, 2))' = PltSlots(image, Name, 2)
      /\ (DynSlots(image, Name, 2))' = DynSlots(image, Name, 2)
      /\ (AndroidSlots(image, Name))' = AndroidSlots(image, Name)
  BY <1>1
<1> QED BY <1>1, <1>2, <1>3, <1>4, <1>5

-----------------------------------------------------------------------------
LEMMA WalkInit == Init => WalkInv /\ MemInv /\ TablesRead
<1> SUFFICES ASSUME Init PROVE WalkInv /\ MemInv /\ TablesRead
  OBVIOUS
<1>1. WalkInv
  BY DEF Init, WalkInv, PltWalk, PltDone, DynWalk, DynDone, PackedWalk, AllDone, Replaces, InSlot, Begun,
         Parsing, Relocs
<1>2. TablesRead
  BY DEF Init, TablesRead
<1>3. MemInv
  BY DEF Init, MemInv, SlotsKept, OldKept, SlotNow
<1> QED BY <1>1, <1>2, <1>3

\* A step to where no table is gone through; a hook that ends has failed or not
\* found its symbol.
LEMMA WalkVoid ==
    ASSUME WalkInv, UNCHANGED given \/ given' = <<>>, pc' \in Begun \cup {"return", "crashed"},
           pc' = "return" => result' # "ok" \/ symidx' = None
    PROVE  WalkInv'
<1>1. given' \in Relocs
  <2>1. given \in Relocs /\ <<>> \in Relocs
    BY DEF WalkInv, PackedWalk, Relocs
  <2> QED BY <2>1
<1>2. pc' \notin {"plt", "leaveplt", "dyn", "packed0", "packed"} \cup InSlot
  BY DEF Begun, Parsing, InSlot
<1> QED BY <1>1, <1>2 DEF WalkInv, PltWalk, PltDone, DynWalk, DynDone, PackedWalk, AllDone, Replaces

LEMMA MemKept ==
    ASSUME MemInv, UNCHANGED <<image, mem, old>>, pc' \notin {"unlock", "save", "write", "restore"}
    PROVE  MemInv'
<1>1. SlotsKept'
  BY DEF MemInv, SlotsKept
<1>2. OldKept'
  BY DEF MemInv, OldKept
<1> QED BY <1>1, <1>2 DEF MemInv, SlotNow

LEMMA WalkParse ==
    ASSUME WalkInv, InitElf \/ ParseDynamic \/ CheckElf \/ Return \/ AllHooked
    PROVE  WalkInv'
<1>1. UNCHANGED given /\ pc' \in Begun
  BY DEF InitElf, ParseDynamic, CheckElf, Return, AllHooked, Hooking, Refused, Goto, Begun, Parsing
<1>2. pc' # "return"
  BY <1>1 DEF Begun, Parsing
<1> QED BY <1>1, <1>2, WalkVoid

LEMMA WalkLook ==
    ASSUME Known, WalkInv, NextHook \/ SysvLookup \/ GnuBloom \/ GnuLookup \/ GnuUndef
    PROVE  WalkInv'
<1>1. given' = <<>>
  <2>1. CASE NextHook
    BY <2>1 DEF NextHook
  <2>2. CASE SysvLookup \/ GnuBloom \/ GnuLookup \/ GnuUndef
    <3>1. given' = given /\ pc \in Search
      BY <2>2 DEF SysvLookup, GnuBloom, GnuLookup, GnuUndef, Looking, Search
    <3>2. pc \notin {"packed", "return", "crashed"} \cup Begun /\ ~Replaces("packed")
      BY <3>1 DEF Search, Begun, Parsing, Replaces, InSlot
    <3> QED BY <3>1, <3>2 DEF WalkInv, PackedWalk
  <2> QED BY <2>1, <2>2
<1>2. CASE pc' \in Search
  <2>1. pc' \notin {"plt", "leaveplt", "dyn", "packed0", "packed", "return"} \cup InSlot
    BY <1>2 DEF Search, InSlot
  <2>2. <<>> \in Relocs
    BY DEF Relocs
  <2> QED BY <1>1, <2>1, <2>2 DEF WalkInv, PltWalk, PltDone, DynWalk, DynDone, PackedWalk, AllDone,
                                  Replaces
<1>3. CASE pc' = "return" /\ symidx' = None
  BY <1>1, <1>3, WalkVoid
<1>4. CASE pc' = "plt" /\ i' = 0
  <2>1. image' = image /\ pc \notin {"init", "done"}
    BY DEF NextHook, SysvLookup, GnuBloom, GnuLookup, GnuUndef, Looking
  <2>2. image \in Images /\ Accepted(image)
    BY <2>1 DEF Known, HashInv, SelfRead
  <2>3. Len(image.linked.plt) \in Nat
    BY <2>2, SoundTables DEF Known, SymbolsSound
  <2>4. PltWalk'
    <3>1. \A k \in For(image', image'.linked.plt, Name', TRUE) : k \in Int
      BY DEF For
    <3>2. i' \in 0..Len(image'.linked.plt)
      BY <1>4, <2>1, <2>3
    <3>3. \A k \in For(image', image'.linked.plt, Name', TRUE) : k < 2 \/ k > i' + 1
      <4>1. i' + 1 = 1 /\ \A k \in Int : k < 2 \/ k > 1
        BY <1>4
      <4> QED BY <3>1, <4>1
    <3> QED BY <1>4, <3>2, <3>3 DEF PltWalk, Replaces, InSlot
  <2>5. <<>> \in Relocs
    BY DEF Relocs
  <2> QED BY <1>1, <1>4, <2>4, <2>5 DEF WalkInv, PltDone, DynWalk, DynDone, PackedWalk, AllDone,
                                        Replaces, InSlot
<1>5. \/ pc' \in Search
      \/ pc' = "return" /\ symidx' = None
      \/ pc' = "plt" /\ i' = 0
  <2>1. CASE NextHook
    BY <2>1 DEF NextHook, Goto, Search
  <2>2. CASE SysvLookup \/ GnuBloom \/ GnuLookup \/ GnuUndef
    <3>1. symidx = None
      BY <2>2, LookSteps DEF Known, HashInv
    <3> QED BY <2>2, <3>1 DEF SysvLookup, GnuBloom, GnuLookup, GnuUndef, Goto, Search, Found, LookOn,
                              NotFound
  <2> QED BY <2>1, <2>2
<1> QED BY <1>2, <1>3, <1>4, <1>5

LEMMA WalkLeavePlt ==
    ASSUME Known, WalkInv, LeavePlt
    PROVE  WalkInv'
<1>1. /\ pc = "leaveplt" /\ pc' = "dyn" /\ i' = 0 /\ UNCHANGED <<image, todo, mem, given>>
  BY DEF LeavePlt, Goto, Walking
<1>2. Written(PltSlots(image, Name, 2)) /\ given = <<>>
  BY <1>1 DEF WalkInv, PltDone, PackedWalk, Begun, Parsing, Replaces, InSlot
<1>3. (Written(PltSlots(image, Name, 2)))'
  BY <1>1, <1>2, SameSlots
<1>4. DynUpTo(1) = {}
  <2>1. \A k \in For(image, image.linked.dyn, Name, FALSE) : k \in Int
    BY DEF For
  <2>2. \A k \in Int : ~(k >= 2 /\ k <= 1)
    OBVIOUS
  <2>3. {k \in For(image, image.linked.dyn, Name, FALSE) : k >= 2 /\ k <= 1} = {}
    BY <2>1, <2>2, Zenon
  <2> QED BY <2>3 DEF DynUpTo, SlotsOf
<1>5. Len(image.linked.dyn) \in Nat
  BY <1>1, Walked DEF Walks, SymbolsSound
<1>6. (DynUpTo(1))' = {}
  BY <1>1, <1>4, SameSlots
<1>7. (Written(DynUpTo(i + 1)))'
  BY <1>1, <1>6 DEF Written
<1> QED BY <1>1, <1>2, <1>3, <1>5, <1>7
        DEF WalkInv, PltWalk, PltDone, DynWalk, DynDone, PackedWalk, AllDone, Replaces, InSlot, Relocs

LEMMA ForIndex ==
    ASSUME NEW im, NEW rels, NEW n, NEW isPlt, NEW k \in For(im, rels, n, isPlt)
    PROVE  k \in Int /\ k \in 1..Len(rels)
BY DEF For

LEMMA WalkPackedInit ==
    ASSUME Known, WalkInv, PackedInit
    PROVE  WalkInv'
<1>1. /\ pc = "packed0" /\ pc' \in {"packed", "return"}
      /\ UNCHANGED <<image, todo, mem, given>>
  BY DEF PackedInit, Goto, Walking
<1>2. /\ Written(PltSlots(image, Name, 2)) /\ Written(DynSlots(image, Name, 2)) /\ given = <<>>
      /\ given \in Relocs
  BY <1>1 DEF WalkInv, PltDone, DynDone, PackedWalk, Begun, Parsing, Replaces, InSlot
<1>3. (Written(PltSlots(image, Name, 2)))' /\ (Written(DynSlots(image, Name, 2)))'
  BY <1>1, <1>2, SameSlots
<1>4. GivenSlots = {}
  <2>1. \A k \in 1..Len(image.linked.android) : ~(k <= 0)
    OBVIOUS
  <2>2. Len(given) = 0
    BY <1>2
  <2>3. {k \in For(image, image.linked.android, Name, FALSE) : k <= Len(given)} = {}
    BY <2>1, <2>2, ForIndex, Zenon
  <2> QED BY <2>3 DEF GivenSlots, SlotsOf
<1>5. GivenSlots' = {}
  BY <1>1, <1>4, SameSlots
<1>6. (Written(GivenSlots))'
  BY <1>5 DEF Written
<1> QED BY <1>1, <1>2, <1>3, <1>6
        DEF WalkInv, PltWalk, PltDone, DynWalk, DynDone, PackedWalk, AllDone, Replaces, InSlot

LEMMA WalkPlt ==
    ASSUME Known, WalkInv, PltTable
    PROVE  WalkInv'
<1> DEFINE rels == image.linked.plt
           P == For(image, rels, Name, TRUE)
<1>1. /\ pc = "plt" /\ UNCHANGED <<image, todo, mem, given, self, symidx>>
      /\ i \in 0..Len(rels) /\ \A k \in P : k < 2 \/ k > i + 1
      /\ given = <<>> /\ given \in Relocs
  BY DEF PltTable, Walking, WalkInv, PltWalk, PackedWalk, Begun, Parsing, Replaces, InSlot
<1>2. /\ TableIs(self.relplt, self.relplt_sz, rels, TRUE) /\ SymbolsSound(image, rels, TRUE)
      /\ self.bias = Bias(image)
  BY <1>1, Walked DEF Walks
<1>3. Len(rels) \in Nat /\ i \in Nat
  BY <1>1, <1>2 DEF SymbolsSound
<1>4. Name' = Name /\ (PltSlots(image, Name, 2))' = PltSlots(image, Name, 2)
  BY <1>1, SameSlots
<1>5. PltSlots(image, Name, 2) = SlotsOf(image, rels, FirstIn({k \in P : k >= 2}))
  BY DEF PltSlots
<1>6. \A k \in P : k \in Int /\ k \in 1..Len(rels)
  BY ForIndex
<1>7. For(image', image'.linked.plt, Name', TRUE) = P
  BY <1>1, <1>4
<1> HIDE DEF P
<1>8. CASE (self.relplt = 0 \/ i >= self.relplt_sz) /\ pc' = "leaveplt"
  <2>1. \A k \in P : ~(k >= 2)
    BY <1>1, <1>2, <1>3, <1>6, <1>8 DEF TableIs
  <2>2. FirstIn({k \in P : k >= 2}) = {}
    BY <2>1 DEF FirstIn
  <2>3. PltSlots(image, Name, 2) = {}
    BY <1>5, <2>2 DEF SlotsOf
  <2>4. (Written(PltSlots(image, Name, 2)))'
    BY <1>4, <2>3 DEF Written
  <2> QED BY <1>1, <1>8, <2>4
          DEF WalkInv, PltWalk, PltDone, DynWalk, DynDone, PackedWalk, AllDone, Replaces, InSlot
<1>9. CASE /\ self.relplt # 0 /\ i < self.relplt_sz /\ i' = i + 1
           /\ Examine(image.at[self.relplt + i'], TRUE, "leaveplt")
  <2> DEFINE rel == image.at[self.relplt + i']
  <2>1. i' \in 1..Len(rels) /\ i' = i + 1
    BY <1>2, <1>3, <1>9 DEF TableIs
  <2>2. ASSUME i' < Len(rels) PROVE rel = rels[i' + 1] /\ i' + 1 \in 1..Len(rels)
    <3>1. i' \in 1..(Len(rels) - 1) /\ i' + 1 \in 1..Len(rels)
      BY <1>3, <2>1, <2>2
    <3>2. \A n \in 1..(Len(rels) - 1) : image.at[self.relplt + n] = rels[n + 1]
      BY <1>2, <1>9 DEF TableIs
    <3> QED BY <3>1, <3>2
  <2>2a. /\ i' < Len(rels) \/ i' = Len(rels)
        /\ i' \in Nat /\ i' + 1 \in Nat
    BY <1>3, <2>1
  <2>3. i' = Len(rels) => ~Matches(rel, TRUE)
    BY <1>2, <1>9 DEF TableIs, Matches
  <2>4. i' < Len(rels) => (Matches(rel, TRUE) <=> i' + 1 \in P)
    BY <1>1, <1>2, <2>2, MatchIs DEF Walks, P
  <2>4a. Examine(rel, TRUE, "leaveplt")
    BY <1>9
  <2> HIDE DEF rel
  <2>4b. \/ ~Matches(rel, TRUE) /\ UNCHANGED <<pc, slot, result>>
         \/ pc' = "return" /\ result' = "error"
         \/ /\ Matches(rel, TRUE) /\ pc' = "compare"
            /\ slot'.addr = Address(rel) /\ slot'.next = "leaveplt"
    BY <2>4a, ExamineIs
  <2>5. CASE ~Matches(rel, TRUE) /\ UNCHANGED <<pc, slot, result>>
    <3>1. \A k \in P : k # i' + 1
      <4>1. CASE i' < Len(rels)
        BY <2>4, <2>5, <4>1
      <4>2. CASE i' = Len(rels)
        <5>1. \A k \in Int : k \in 1..Len(rels) => k # Len(rels) + 1
          BY <1>3
        <5> QED BY <1>6, <4>2, <5>1
      <4> QED BY <2>2a, <4>1, <4>2
    <3>2. \A k \in P : k < 2 \/ k > i' + 1
      BY <1>1, <1>3, <1>6, <2>1, <3>1
    <3>3. i' \in 0..Len(image'.linked.plt)
      BY <1>1, <1>3, <2>1
    <3>4. PltWalk'
      BY <1>1, <1>7, <2>5, <3>2, <3>3 DEF PltWalk, Replaces, InSlot
    <3> QED BY <1>1, <2>5, <3>4
            DEF WalkInv, PltDone, DynWalk, DynDone, PackedWalk, AllDone, Replaces, InSlot
  <2>6. CASE pc' = "return" /\ result' = "error"
    BY <1>1, <2>6, WalkVoid
  <2>7. CASE /\ Matches(rel, TRUE) /\ pc' = "compare"
             /\ slot'.addr = Address(rel) /\ slot'.next = "leaveplt"
    <3>1. i' < Len(rels) /\ i' + 1 \in P
      BY <2>3, <2>4, <2>7, <2>2a
    <3>2. \A k \in P : k >= 2 => i' + 1 <= k
      BY <1>1, <1>3, <1>6, <2>1
    <3>3. i' + 1 >= 2
      BY <1>3, <2>1
    <3>4. FirstIn({k \in P : k >= 2}) = {i' + 1}
      <4>1. i' + 1 \in FirstIn({k \in P : k >= 2})
        BY <3>1, <3>2, <3>3 DEF FirstIn
      <4>2. ASSUME NEW k \in FirstIn({l \in P : l >= 2}) PROVE k = i' + 1
        <5>1. k \in P /\ k >= 2 /\ k <= i' + 1
          BY <3>1, <3>3, <4>2 DEF FirstIn
        <5> QED BY <1>6, <3>1, <3>2, <5>1
      <4> QED BY <4>1, <4>2
    <3>5. slot'.addr = (Bias(image) + rels[i' + 1].offset) % WordSize
      BY <1>2, <2>2, <2>7, <3>1 DEF Address
    <3>6. PltSlots(image, Name, 2) = {slot'.addr}
      BY <1>5, <3>4, <3>5 DEF SlotsOf
    <3>7. pc' \in InSlot /\ pc' # "plt" /\ pc' # "return" /\ (Replaces("leaveplt"))'
          /\ ~(Replaces("dyn"))' /\ ~(Replaces("packed"))'
      BY <2>7 DEF Replaces, InSlot
    <3>8. PltWalk' /\ PltDone' /\ DynWalk' /\ DynDone' /\ AllDone'
      <4>1. (PltSlots(image, Name, 2))' = {slot'.addr}
        BY <1>4, <3>6
      <4> QED BY <3>7, <4>1 DEF PltWalk, PltDone, DynWalk, DynDone, AllDone, InSlot
    <3>9. PackedWalk'
      BY <1>1, <3>7 DEF WalkInv, PackedWalk, Replaces, InSlot
    <3> QED BY <3>8, <3>9 DEF WalkInv
  <2> QED BY <2>4b, <2>5, <2>6, <2>7
<1>10. ~(i >= self.relplt_sz) => i < self.relplt_sz
  BY <1>2, <1>3 DEF TableIs
<1> QED BY <1>1, <1>8, <1>9, <1>10 DEF PltTable, Goto

LEMMA WalkDyn ==
    ASSUME Known, WalkInv, DynTable
    PROVE  WalkInv'
<1> DEFINE rels == image.linked.dyn
           D == For(image, rels, Name, FALSE)
<1>1. /\ pc = "dyn" /\ UNCHANGED <<image, todo, mem, given, self, symidx>>
      /\ i \in 0..Len(rels) /\ Written(DynUpTo(i + 1)) /\ Written(PltSlots(image, Name, 2))
      /\ given = <<>> /\ given \in Relocs
  BY DEF DynTable, Walking, WalkInv, DynWalk, PltDone, PackedWalk, Begun, Parsing, Replaces, InSlot
<1>2. /\ TableIs(self.reldyn, self.reldyn_sz, rels, FALSE) /\ SymbolsSound(image, rels, FALSE)
      /\ self.bias = Bias(image)
  BY <1>1, Walked DEF Walks
<1>3. Len(rels) \in Nat /\ i \in Nat
  BY <1>1, <1>2 DEF SymbolsSound
<1>4. /\ Name' = Name /\ (PltSlots(image, Name, 2))' = PltSlots(image, Name, 2)
      /\ (DynSlots(image, Name, 2))' = DynSlots(image, Name, 2)
      /\ \A n : (DynUpTo(n))' = DynUpTo(n)
      /\ \A S : (Written(S))' <=> Written(S)
  BY <1>1, SameSlots
<1>5. DynSlots(image, Name, 2) = SlotsOf(image, rels, {k \in D : k >= 2})
  BY DEF DynSlots
<1>6. \A k \in D : k \in Int /\ k \in 1..Len(rels)
  BY ForIndex
<1>7. \A n : DynUpTo(n) = SlotsOf(image, rels, {k \in D : k >= 2 /\ k <= n})
  BY DEF DynUpTo
<1> HIDE DEF D
<1>8. CASE (self.reldyn = 0 \/ i >= self.reldyn_sz) /\ pc' = "packed0"
  <2>1. \A k \in D : k <= i + 1
    BY <1>2, <1>3, <1>6, <1>8 DEF TableIs
  <2>2. {k \in D : k >= 2} \subseteq {k \in D : k >= 2 /\ k <= i + 1}
    BY <2>1
  <2>3. DynSlots(image, Name, 2) \subseteq DynUpTo(i + 1)
    BY <1>5, <1>7, <2>2, SlotsOfSub
  <2>4. Written(DynSlots(image, Name, 2))
    BY <1>1, <2>3 DEF Written
  <2> QED BY <1>1, <1>4, <1>8, <2>4
          DEF WalkInv, PltWalk, PltDone, DynWalk, DynDone, PackedWalk, AllDone, Replaces, InSlot
<1>9. CASE /\ self.reldyn # 0 /\ i < self.reldyn_sz /\ i' = i + 1
           /\ Examine(image.at[self.reldyn + i'], FALSE, "dyn")
  <2> DEFINE rel == image.at[self.reldyn + i']
  <2>1. i' \in 1..Len(rels) /\ i' = i + 1
    BY <1>2, <1>3, <1>9 DEF TableIs
  <2>2. ASSUME i' < Len(rels) PROVE rel = rels[i' + 1] /\ i' + 1 \in 1..Len(rels)
    <3>1. i' \in 1..(Len(rels) - 1) /\ i' + 1 \in 1..Len(rels)
      BY <1>3, <2>1, <2>2
    <3>2. \A n \in 1..(Len(rels) - 1) : image.at[self.reldyn + n] = rels[n + 1]
      BY <1>2, <1>9 DEF TableIs
    <3> QED BY <3>1, <3>2
  <2>3. /\ i' < Len(rels) \/ i' = Len(rels)
        /\ i' \in Nat /\ i' + 1 \in Nat /\ i' + 1 >= 2
    BY <1>3, <2>1
  <2>4. i' = Len(rels) => ~Matches(rel, FALSE)
    BY <1>2, <1>9 DEF TableIs, Matches
  <2>5. i' < Len(rels) => (Matches(rel, FALSE) <=> i' + 1 \in D)
    BY <1>1, <1>2, <2>2, MatchIs DEF Walks, D
  <2>6. {k \in D : k >= 2 /\ k <= i' + 1} \subseteq {k \in D : k >= 2 /\ k <= i + 1} \cup {i' + 1}
    <3>1. \A k \in Int : k <= i' + 1 => k <= i + 1 \/ k = i' + 1
      BY <1>3, <2>1
    <3> QED BY <1>6, <3>1
  <2>7. i' \in 0..Len(image'.linked.dyn) /\ i' \in 0..Len(rels)
    BY <1>1, <1>3, <2>1
  <2>7a. Examine(rel, FALSE, "dyn")
    BY <1>9
  <2> HIDE DEF rel
  <2>7b. \/ ~Matches(rel, FALSE) /\ UNCHANGED <<pc, slot, result>>
         \/ pc' = "return" /\ result' = "error"
         \/ /\ Matches(rel, FALSE) /\ pc' = "compare"
            /\ slot'.addr = Address(rel) /\ slot'.next = "dyn"
    BY <2>7a, ExamineIs
  <2>8. CASE ~Matches(rel, FALSE) /\ UNCHANGED <<pc, slot, result>>
    <3>1. i' + 1 \notin D
      <4>1. CASE i' < Len(rels)
        BY <2>5, <2>8, <4>1
      <4>2. CASE i' = Len(rels)
        <5>1. \A k \in Int : k \in 1..Len(rels) => k # Len(rels) + 1
          BY <1>3
        <5> QED BY <1>6, <4>2, <5>1
      <4> QED BY <2>3, <4>1, <4>2
    <3>2. {k \in D : k >= 2 /\ k <= i' + 1} \subseteq {k \in D : k >= 2 /\ k <= i + 1}
      BY <2>6, <3>1
    <3>3. DynUpTo(i' + 1) \subseteq DynUpTo(i + 1)
      BY <1>7, <3>2, SlotsOfSub
    <3>4. Written(DynUpTo(i' + 1))
      BY <1>1, <3>3 DEF Written
    <3>5. (Written(DynUpTo(i + 1)))'
      <4>1. (DynUpTo(i + 1))' = DynUpTo(i' + 1)
        BY <1>1, <1>4 DEF DynUpTo
      <4> QED BY <1>4, <3>4, <4>1
    <3>6. DynWalk'
      BY <1>1, <2>7, <2>8, <3>5 DEF DynWalk, Replaces, InSlot
    <3> QED BY <1>1, <1>4, <2>8, <3>6
            DEF WalkInv, PltWalk, PltDone, DynDone, PackedWalk, AllDone, Replaces, InSlot
  <2>9. CASE pc' = "return" /\ result' = "error"
    BY <1>1, <2>9, WalkVoid
  <2>10. CASE /\ Matches(rel, FALSE) /\ pc' = "compare"
              /\ slot'.addr = Address(rel) /\ slot'.next = "dyn"
    <3>1. i' < Len(rels) /\ i' + 1 \in D
      BY <2>3, <2>4, <2>5, <2>10
    <3>2. slot'.addr = (Bias(image) + rels[i' + 1].offset) % WordSize
      BY <1>2, <2>2, <2>10, <3>1 DEF Address
    <3>3. slot'.addr \in DynSlots(image, Name, 2)
      <4>1. i' + 1 \in {k \in D : k >= 2}
        BY <2>3, <3>1
      <4> QED BY <1>5, <3>2, <4>1, SlotsOfHas
    <3>4. DynUpTo(i' + 1) \subseteq DynUpTo(i + 1) \cup {slot'.addr}
      <4> DEFINE a == (Bias(image) + rels[i' + 1].offset) % WordSize
                 ks == {k \in D : k >= 2 /\ k <= i' + 1}
                 ls == {k \in D : k >= 2 /\ k <= i + 1}
      <4>1. SlotsOf(image, rels, ks) \subseteq SlotsOf(image, rels, ls) \cup {a}
        <5>1. ks \subseteq ls \cup {i' + 1}
          BY <2>6
        <5> HIDE DEF ks, ls
        <5> QED BY <5>1, SlotsOfMore
      <4>2. DynUpTo(i' + 1) = SlotsOf(image, rels, ks) /\ DynUpTo(i + 1) = SlotsOf(image, rels, ls)
        BY <1>7
      <4>3. slot'.addr = a
        BY <3>2
      <4> HIDE DEF a, ks, ls
      <4> QED BY <4>1, <4>2, <4>3
    <3>5. Written(DynUpTo(i' + 1) \ {slot'.addr})
      BY <1>1, <3>4 DEF Written
    <3>6. (WrittenBut(DynUpTo(i + 1)))'
      <4>1. (DynUpTo(i + 1))' = DynUpTo(i' + 1)
        BY <1>1, <1>4 DEF DynUpTo
      <4> QED BY <1>4, <3>5, <4>1 DEF WrittenBut
    <3>7. DynWalk'
      BY <1>4, <2>7, <2>10, <3>3, <3>6 DEF DynWalk, Replaces, InSlot
    <3>8. pc' \in InSlot /\ pc' # "plt" /\ pc' # "return" /\ (Replaces("dyn"))'
          /\ ~(Replaces("leaveplt"))' /\ ~(Replaces("packed"))'
      BY <2>10 DEF Replaces, InSlot
    <3>9. PltWalk' /\ DynDone' /\ AllDone'
      BY <3>8 DEF PltWalk, DynDone, AllDone, InSlot
    <3>10. PltDone'
      BY <1>1, <1>4 DEF WalkInv, PltDone
    <3>11. PackedWalk'
      BY <1>1, <3>8 DEF WalkInv, PackedWalk, Replaces, InSlot
    <3> QED BY <3>7, <3>9, <3>10, <3>11 DEF WalkInv
  <2> QED BY <2>7b, <2>8, <2>9, <2>10
<1>10. ~(i >= self.reldyn_sz) => i < self.reldyn_sz
  BY <1>2, <1>3 DEF TableIs
<1> QED BY <1>1, <1>8, <1>9, <1>10 DEF DynTable, Goto

LEMMA ElementIn ==
    ASSUME NEW S, NEW t \in Seq(S), NEW n \in 1..Len(t)
    PROVE  t[n] \in S
OBVIOUS

\* What the packed iterator has returned after one more is a part of what was
\* encoded: so is the one.
LEMMA OneMore ==
    ASSUME NEW s \in Relocs, NEW t \in Relocs, NEW x, IsPrefix(Append(s, x), t)
    PROVE  /\ Len(s) \in Nat /\ Len(Append(s, x)) = Len(s) + 1
           /\ Len(s) + 1 \in 1..Len(t) /\ x = t[Len(s) + 1] /\ Append(s, x) \in Relocs
<1>1. Len(s) \in Nat /\ Len(t) \in Nat /\ Len(Append(s, x)) = Len(s) + 1
  BY DEF Relocs
<1> DEFINE n == Len(s) + 1
<1>2. /\ n <= Len(t)
      /\ SubSeq(Append(s, x), 1, n) = SubSeq(t, 1, n)
  BY <1>1 DEF IsPrefix
<1>3. n \in 1..Len(t) /\ n \in 1..n
  BY <1>1, <1>2
<1>4. SubSeq(t, 1, n)[n] = t[n]
  BY <1>3 DEF Relocs
<1>5. SubSeq(Append(s, x), 1, n)[n] = x
  BY <1>1, <1>3 DEF Relocs
<1>6. x = t[n]
  BY <1>2, <1>4, <1>5
<1>7. x \in [offset : Nat, info : Nat]
  <2>1. t \in Seq([offset : Nat, info : Nat])
    BY DEF Relocs
  <2> HIDE DEF n
  <2>2. t[n] \in [offset : Nat, info : Nat]
    BY <1>3, <2>1, ElementIn
  <2> QED BY <1>6, <2>2
<1> QED BY <1>1, <1>3, <1>6, <1>7 DEF Relocs

LEMMA WalkPacked ==
    ASSUME Known, WalkInv, PackedTable, PackedExact'
    PROVE  WalkInv'
<1> DEFINE rels == image.linked.android
           A == For(image, rels, Name, FALSE)
<1>1. /\ pc = "packed" /\ UNCHANGED <<image, todo, mem, self, symidx>>
      /\ Written(PltSlots(image, Name, 2)) /\ Written(DynSlots(image, Name, 2))
      /\ Written(GivenSlots) /\ given \in Relocs
  BY DEF PackedTable, Walking, WalkInv, PackedWalk, PltDone, DynDone
<1>2. SymbolsSound(image, rels, FALSE) /\ rels \in Relocs /\ self.bias = Bias(image)
  BY <1>1, Walked DEF Walks, SymbolsSound, Relocs
<1>3. /\ Name' = Name /\ (PltSlots(image, Name, 2))' = PltSlots(image, Name, 2)
      /\ (DynSlots(image, Name, 2))' = DynSlots(image, Name, 2)
      /\ (AndroidSlots(image, Name))' = AndroidSlots(image, Name)
      /\ \A S : (Written(S))' <=> Written(S)
      /\ UNCHANGED given => GivenSlots' = GivenSlots
  BY <1>1, SameSlots
<1>4. AndroidSlots(image, Name) = SlotsOf(image, rels, A)
  BY DEF AndroidSlots
<1>5. \A k \in A : k \in Int /\ k \in 1..Len(rels)
  BY ForIndex
<1>6. /\ GivenSlots = SlotsOf(image, rels, {k \in A : k <= Len(given)})
      /\ GivenSlots' = SlotsOf(image, rels, {k \in A : k <= Len(given')})
  BY <1>1, <1>3 DEF GivenSlots
<1> HIDE DEF A
<1>7. CASE pc' = "return" /\ UNCHANGED given
  BY <1>1, <1>3, <1>7 DEF WalkInv, PltWalk, PltDone, DynWalk, DynDone, PackedWalk, AllDone, Replaces, InSlot
<1>8. CASE \E rel : given' = Append(given, rel) /\ Examine(rel, FALSE, "packed")
  <2>1. PICK rel : given' = Append(given, rel) /\ Examine(rel, FALSE, "packed")
    BY <1>8
  <2>2. IsPrefix(Append(given, rel), rels)
    BY <1>1, <2>1 DEF PackedExact
  <2> DEFINE n == Len(given) + 1
  <2>3. /\ n \in 1..Len(rels) /\ rel = rels[n] /\ Len(given') = n
        /\ given' \in Relocs /\ Len(given) \in Nat
    BY <1>1, <1>2, <2>1, <2>2, OneMore
  <2>4. Matches(rel, FALSE) <=> n \in A
    BY <1>1, <1>2, <2>3, MatchIs DEF Walks, A
  <2>5. {k \in A : k <= Len(given')} \subseteq {k \in A : k <= Len(given)} \cup {n}
    <3>1. \A k \in Int : k <= n => k <= Len(given) \/ k = n
      BY <2>3
    <3> QED BY <1>5, <2>3, <3>1
  <2> HIDE DEF n
  <2>6. CASE ~Matches(rel, FALSE) /\ UNCHANGED <<pc, slot, result>>
    <3>1. {k \in A : k <= Len(given')} \subseteq {k \in A : k <= Len(given)}
      BY <2>4, <2>5, <2>6
    <3>2. GivenSlots' \subseteq GivenSlots
      BY <1>6, <3>1, SlotsOfSub
    <3>3. (Written(GivenSlots))'
      BY <1>1, <1>3, <3>2 DEF Written
    <3> QED BY <1>1, <1>3, <2>3, <2>6, <3>3
            DEF WalkInv, PltWalk, PltDone, DynWalk, DynDone, PackedWalk, AllDone, Replaces, InSlot
  <2>7. CASE pc' = "return" /\ result' = "error"
    BY <1>1, <2>3, <2>7
       DEF WalkInv, PltWalk, PltDone, DynWalk, DynDone, PackedWalk, AllDone, Replaces, InSlot
  <2>8. CASE /\ Matches(rel, FALSE) /\ pc' = "compare"
             /\ slot'.addr = Address(rel) /\ slot'.next = "packed"
    <3>1. slot'.addr = (Bias(image) + rels[n].offset) % WordSize
      BY <1>2, <2>3, <2>8 DEF Address
    <3>2. (slot.addr \in AndroidSlots(image, Name))'
      BY <1>3, <1>4, <2>4, <2>8, <3>1, SlotsOfHas
    <3>3. GivenSlots' \subseteq GivenSlots \cup {slot'.addr}
      <4> DEFINE a == (Bias(image) + rels[n].offset) % WordSize
                 ks == {k \in A : k <= Len(given')}
                 ls == {k \in A : k <= Len(given)}
      <4>1. SlotsOf(image, rels, ks) \subseteq SlotsOf(image, rels, ls) \cup {a}
        <5>1. ks \subseteq ls \cup {n}
          BY <2>5
        <5> HIDE DEF ks, ls
        <5> QED BY <5>1, SlotsOfMore
      <4>2. GivenSlots' = SlotsOf(image, rels, ks) /\ GivenSlots = SlotsOf(image, rels, ls)
        BY <1>6
      <4>3. slot'.addr = a
        BY <3>1
      <4> HIDE DEF a, ks, ls
      <4> QED BY <4>1, <4>2, <4>3
    <3>4. (WrittenBut(GivenSlots))'
      BY <1>1, <1>3, <3>3 DEF WrittenBut, Written
    <3> QED BY <1>1, <1>3, <2>3, <2>8, <3>2, <3>4
            DEF WalkInv, PltWalk, PltDone, DynWalk, DynDone, PackedWalk, AllDone, Replaces, InSlot
  <2> QED BY <2>1, <2>6, <2>7, <2>8, ExamineIs
<1> QED BY <1>7, <1>8 DEF PackedTable, Goto

-----------------------------------------------------------------------------
(***************************************************************************)
(* While a slot is replaced the walk is where it was, and goes on once     *)
(* the slot holds the new function.                                        *)
(***************************************************************************)
Grows == \A a \in DOMAIN mem : a \in DOMAIN mem' /\ (mem[a] = New(Name) => mem'[a] = New(Name))

LEMMA WrittenGrows ==
    ASSUME UNCHANGED todo, Grows
    PROVE  \A S : Written(S) => (Written(S))'
<1>1. Name' = Name
  BY DEF Name
<1> QED BY <1>1 DEF Written, Grows

LEMMA WalkStay ==
    ASSUME WalkInv, pc \in InSlot, pc' \in InSlot, slot'.addr = slot.addr, slot'.next = slot.next,
           UNCHANGED <<image, todo, i, given>>, Grows
    PROVE  WalkInv'
<1>1. /\ (PltSlots(image, Name, 2))' = PltSlots(image, Name, 2)
      /\ (DynSlots(image, Name, 2))' = DynSlots(image, Name, 2)
      /\ (AndroidSlots(image, Name))' = AndroidSlots(image, Name)
      /\ (DynUpTo(i + 1))' = DynUpTo(i + 1)
      /\ GivenSlots' = GivenSlots
  <2>1. \A n : (DynUpTo(n))' = DynUpTo(n)
    BY SameSlots
  <2>2. Name' = Name
    BY SameSlots
  <2>3. (DynUpTo(i + 1))' = DynUpTo(i + 1)
    BY <2>2 DEF DynUpTo
  <2> QED BY <2>3, SameSlots
<1>2. \A S : Written(S) => (Written(S))'
  BY WrittenGrows
<1>3. \A next : (Replaces(next))' <=> Replaces(next)
  BY DEF Replaces
<1>4. /\ WrittenBut(DynUpTo(i + 1)) => (WrittenBut(DynUpTo(i + 1)))'
      /\ WrittenBut(GivenSlots) => (WrittenBut(GivenSlots))'
  BY <1>1, <1>2 DEF WrittenBut
<1>5. pc \notin {"plt", "leaveplt", "dyn", "packed0", "packed", "return", "crashed"} \cup Begun
  BY DEF InSlot, Begun, Parsing
<1>6. pc' \notin {"plt", "leaveplt", "dyn", "packed0", "packed", "return", "crashed"} \cup Begun
  BY DEF InSlot, Begun, Parsing
<1>7. PltWalk' /\ PltDone'
  BY <1>1, <1>2, <1>3, <1>6 DEF WalkInv, PltWalk, PltDone
<1>8. DynWalk' /\ DynDone'
  BY <1>1, <1>2, <1>3, <1>4, <1>6 DEF WalkInv, DynWalk, DynDone
<1>9. PackedWalk' /\ AllDone'
  BY <1>1, <1>2, <1>3, <1>4, <1>5, <1>6 DEF WalkInv, PackedWalk, AllDone
<1> QED BY <1>7, <1>8, <1>9 DEF WalkInv

LEMMA WalkLeave ==
    ASSUME WalkInv, pc \in InSlot, slot.next \in GoOn, pc' = slot.next,
           UNCHANGED <<image, todo, i, given>>, Grows,
           slot.addr \in DOMAIN mem', mem'[slot.addr] = New(Name)
    PROVE  WalkInv'
<1>1. /\ Name' = Name
      /\ (PltSlots(image, Name, 2))' = PltSlots(image, Name, 2)
      /\ (DynSlots(image, Name, 2))' = DynSlots(image, Name, 2)
      /\ GivenSlots' = GivenSlots
  BY SameSlots
<1>2. (DynUpTo(i + 1))' = DynUpTo(i + 1)
  BY <1>1 DEF DynUpTo
<1>3. \A S : Written(S) => (Written(S))'
  BY WrittenGrows
<1>4. \A S : WrittenBut(S) => (Written(S))'
  <2> SUFFICES ASSUME NEW S, WrittenBut(S), NEW a \in S
               PROVE  a \in DOMAIN mem' /\ mem'[a] = New(Name)
    BY <1>1 DEF Written
  <2> QED BY DEF WrittenBut, Written, Grows
<1>5. pc \notin {"plt", "leaveplt", "dyn", "packed0", "packed", "return", "crashed"} \cup Begun
  BY DEF InSlot, Begun, Parsing
<1>6. given \in Relocs /\ given' = given
  BY DEF WalkInv, PackedWalk
<1>7. pc' \in GoOn /\ pc' \notin InSlot
  BY DEF GoOn, InSlot
<1>8. CASE pc' = "leaveplt"
  <2>1. PltSlots(image, Name, 2) = {slot.addr} /\ given = <<>>
    BY <1>5, <1>8 DEF WalkInv, PltWalk, PackedWalk, Replaces
  <2>2. (Written(PltSlots(image, Name, 2)))'
    BY <1>1, <2>1 DEF Written
  <2> QED BY <1>6, <1>7, <1>8, <2>1, <2>2
          DEF WalkInv, PltWalk, PltDone, DynWalk, DynDone, PackedWalk, AllDone, Replaces
<1>9. CASE pc' = "dyn"
  <2>1. /\ Written(PltSlots(image, Name, 2)) /\ given = <<>>
        /\ i \in 0..Len(image.linked.dyn) /\ WrittenBut(DynUpTo(i + 1))
    BY <1>5, <1>9 DEF WalkInv, PltDone, DynWalk, PackedWalk, Replaces
  <2>2. (Written(PltSlots(image, Name, 2)))' /\ (Written(DynUpTo(i + 1)))'
    BY <1>1, <1>2, <1>3, <1>4, <2>1
  <2> QED BY <1>6, <1>7, <1>9, <2>1, <2>2
          DEF WalkInv, PltWalk, PltDone, DynWalk, DynDone, PackedWalk, AllDone, Replaces
<1>10. CASE pc' = "packed"
  <2>1. /\ Written(PltSlots(image, Name, 2)) /\ Written(DynSlots(image, Name, 2))
        /\ WrittenBut(GivenSlots)
    BY <1>5, <1>10 DEF WalkInv, PltDone, DynDone, PackedWalk, Replaces
  <2>2. /\ (Written(PltSlots(image, Name, 2)))' /\ (Written(DynSlots(image, Name, 2)))'
        /\ (Written(GivenSlots))'
    BY <1>1, <1>3, <1>4, <2>1
  <2> QED BY <1>6, <1>7, <1>10, <2>2
          DEF WalkInv, PltWalk, PltDone, DynWalk, DynDone, PackedWalk, AllDone, Replaces
<1> QED BY <1>7, <1>8, <1>9, <1>10 DEF GoOn

\* What holds at every step of a slot.
SlotStep == Faults \/ Compare \/ Unlock \/ SaveOld \/ WriteNew \/ Restore
LEMMA AtSlot ==
    ASSUME PagesInv, MemInv, SlotStep
    PROVE  /\ pc \in InSlot /\ slot.next \in GoOn
           /\ UNCHANGED <<image, self, todo, i, symidx, it, given>>
           /\ slot = [addr |-> slot.addr, was |-> slot.was, next |-> slot.next]
           /\ DOMAIN mem = DOMAIN image.page /\ DOMAIN old = Names
           /\ Name' = Name
           /\ ~Faults => slot.addr \in DOMAIN mem
<1>1. /\ pc \in InSlot /\ UNCHANGED <<image, self, todo, i, symidx, it, given>>
      /\ ~Faults => pc # "compare" \/ Mapped
  BY DEF SlotStep, Faults, Compare, Unlock, SaveOld, WriteNew, Restore, Replacing, InSlot
<1>2. /\ slot.next \in GoOn
      /\ slot = [addr |-> slot.addr, was |-> slot.was, next |-> slot.next]
      /\ pc # "compare" => Mapped
  BY <1>1 DEF PagesInv, SlotKnown
<1>3. DOMAIN mem = DOMAIN image.page /\ DOMAIN old = Names
  BY DEF MemInv, SlotsKept, OldKept
<1>4. Name' = Name
  BY <1>1 DEF Name
<1> QED BY <1>1, <1>2, <1>3, <1>4 DEF Mapped

LEMMA WalkSlots ==
    ASSUME PagesInv, WalkInv, MemInv, SlotStep
    PROVE  WalkInv'
<1>1. /\ pc \in InSlot /\ slot.next \in GoOn
      /\ UNCHANGED <<image, self, todo, i, symidx, it, given>>
      /\ slot = [addr |-> slot.addr, was |-> slot.was, next |-> slot.next]
      /\ ~Faults => slot.addr \in DOMAIN mem
  BY AtSlot
<1>2. CASE Faults
  BY <1>1, <1>2, WalkVoid DEF Faults, Goto
<1>3. CASE Fail
  BY <1>1, <1>3, WalkVoid DEF Fail, Goto
<1>4. CASE Compare /\ ~Fail
  <2>1. UNCHANGED mem /\ slot.addr \in DOMAIN mem
    BY <1>1, <1>4 DEF Compare, Faults, Memory
  <2>2. Grows
    BY <2>1 DEF Grows
  <2>3. CASE mem[slot.addr] = New(Name) /\ pc' = slot.next
    BY <1>1, <2>1, <2>2, <2>3, WalkLeave
  <2>4. CASE slot' = [slot EXCEPT !.was = Protection] /\ pc' \in InSlot
    BY <1>1, <2>2, <2>4, WalkStay
  <2> QED BY <1>4, <2>3, <2>4 DEF Compare, Goto, InSlot
<1>5. CASE (Unlock \/ SaveOld) /\ ~Fail
  <2>1. UNCHANGED <<mem, slot>> /\ pc' \in InSlot
    BY <1>5 DEF Unlock, SaveOld, Replacing, Goto, InSlot
  <2>2. Grows
    BY <2>1 DEF Grows
  <2> QED BY <1>1, <2>1, <2>2, WalkStay
<1>6. CASE WriteNew
  <2>1. /\ mem' = [mem EXCEPT ![slot.addr] = New(Name)] /\ UNCHANGED slot
        /\ (pc' = slot.next \/ pc' \in InSlot) /\ slot.addr \in DOMAIN mem
    BY <1>1, <1>6 DEF WriteNew, Faults, Goto, InSlot
  <2>2. slot.addr \in DOMAIN mem' /\ mem'[slot.addr] = New(Name)
    BY <1>1, <1>6, <2>1 DEF WriteNew, Faults
  <2>3. Grows
    BY <2>1 DEF Grows
  <2> QED BY <1>1, <2>1, <2>2, <2>3, WalkStay, WalkLeave
<1>7. CASE Restore
  <2>1. UNCHANGED mem /\ pc' = slot.next /\ mem[slot.addr] = New(Name) /\ slot.addr \in DOMAIN mem
    BY <1>1, <1>7 DEF Restore, Faults, Goto, MemInv, SlotNow
  <2>2. Grows
    BY <2>1 DEF Grows
  <2> QED BY <1>1, <2>1, <2>2, WalkLeave
<1> QED BY <1>2, <1>3, <1>4, <1>5, <1>6, <1>7 DEF SlotStep

\* The slot that is being replaced is one of the symbol's, and of no other's.
LEMMA SlotIsOne ==
    ASSUME Known, WalkInv, pc \in InSlot
    PROVE  /\ slot.addr \in Slots(image, Name, 2) /\ Name \in Names
           /\ \A n \in Names : slot.addr \in Slots(image, n, 2) => n = Name
<1>1. slot.next \in GoOn
  BY DEF Known, HashInv, PagesInv, SlotKnown
<1>2. \/ slot.addr \in PltSlots(image, Name, 2)
      \/ slot.addr \in DynSlots(image, Name, 2)
      \/ slot.addr \in AndroidSlots(image, Name)
  BY <1>1 DEF WalkInv, PltWalk, DynWalk, PackedWalk, Replaces, GoOn
<1>3. slot.addr \in Slots(image, Name, 2)
  BY <1>2 DEF Slots
<1>4. Name \in Names /\ \A m, n \in Names : m # n => Slots(image, m, 2) \cap Slots(image, n, 2) = {}
  BY Walked DEF Walks
<1> QED BY <1>3, <1>4

LEMMA MemSlots ==
    ASSUME Known, WalkInv, MemInv, SlotStep
    PROVE  MemInv'
<1>1. /\ pc \in InSlot /\ slot.next \in GoOn /\ image \in Images
      /\ UNCHANGED <<image, todo>> /\ Name' = Name
      /\ slot = [addr |-> slot.addr, was |-> slot.was, next |-> slot.next]
      /\ DOMAIN mem = DOMAIN image.page /\ DOMAIN old = Names
      /\ ~Faults => slot.addr \in DOMAIN mem
  BY AtSlot DEF Known, HashInv, PagesInv
<1>2. /\ slot.addr \in Slots(image, Name, 2) /\ Name \in Names
      /\ \A n \in Names : slot.addr \in Slots(image, n, 2) => n = Name
  BY <1>1, SlotIsOne
<1>3. CASE pc' \in {"crashed", "return"} \cup GoOn /\ UNCHANGED <<mem, old>>
  BY <1>1, <1>3, MemKept DEF GoOn
<1>4. CASE Compare /\ pc' \in {"save", "unlock"}
  <2>1. /\ UNCHANGED <<mem, old>> /\ mem[slot.addr] # New(Name)
        /\ slot'.addr = slot.addr
    BY <1>1, <1>4 DEF Compare, Fail, Goto, Memory, GoOn
  <2>2. SlotsKept' /\ OldKept'
    BY <1>1, <2>1 DEF MemInv, SlotsKept, OldKept
  <2> QED BY <1>1, <1>4, <2>1, <2>2 DEF MemInv, SlotNow
<1>5. CASE Unlock /\ pc' = "save"
  <2>1. UNCHANGED <<mem, old, slot>> /\ mem[slot.addr] # New(Name)
    BY <1>5 DEF Unlock, Fail, Goto, MemInv, SlotNow
  <2>2. SlotsKept' /\ OldKept'
    BY <1>1, <2>1 DEF MemInv, SlotsKept, OldKept
  <2> QED BY <1>1, <1>5, <2>1, <2>2 DEF MemInv, SlotNow
<1>6. CASE SaveOld
  <2>1. /\ pc = "save" /\ pc' = "write" /\ UNCHANGED <<mem, slot>>
        /\ old' = [old EXCEPT ![Name] = mem[slot.addr]] /\ slot.addr \in DOMAIN mem
        /\ mem[slot.addr] # New(Name)
    BY <1>1, <1>6 DEF SaveOld, Faults, Goto, MemInv, SlotNow
  <2>2. mem[slot.addr] = Original(slot.addr)
    BY <1>2, <2>1 DEF MemInv, SlotsKept
  <2>3. mem[slot.addr] # None
    BY <1>1, <2>1, <2>2, ImagesAssumption
  <2>4. old'[Name] = Original(slot.addr) /\ old'[Name] # None /\ DOMAIN old' = Names
    BY <1>1, <1>2, <2>1, <2>2, <2>3
  <2>5. \A n \in Names : n # Name => old'[n] = old[n]
    BY <1>1, <2>1
  <2>6. SlotsKept'
    BY <1>1, <2>1, <2>4, <2>5 DEF MemInv, SlotsKept
  <2>7. OldKept'
    BY <1>1, <1>2, <2>4, <2>5 DEF MemInv, OldKept
  <2> QED BY <1>1, <2>1, <2>4, <2>6, <2>7 DEF MemInv, SlotNow
<1>7. CASE WriteNew
  <2>1. /\ pc = "write" /\ UNCHANGED <<old, slot>> /\ slot.addr \in DOMAIN mem
        /\ mem' = [mem EXCEPT ![slot.addr] = New(Name)]
        /\ old[Name] # None /\ pc' \in {"restore"} \cup GoOn
    BY <1>1, <1>7 DEF WriteNew, Faults, Goto, MemInv, SlotNow
  <2>2. /\ DOMAIN mem' = DOMAIN mem /\ mem'[slot.addr] = New(Name)
        /\ \A a \in DOMAIN mem : a # slot.addr => mem'[a] = mem[a]
    BY <2>1
  <2>3. SlotsKept'
    BY <1>1, <1>2, <2>1, <2>2 DEF MemInv, SlotsKept
  <2>4. OldKept'
    BY <1>1, <2>1 DEF MemInv, OldKept
  <2> QED BY <1>1, <2>1, <2>2, <2>3, <2>4 DEF MemInv, SlotNow, GoOn
<1>8. \/ pc' \in {"crashed", "return"} \cup GoOn /\ UNCHANGED <<mem, old>>
      \/ Compare /\ pc' \in {"save", "unlock"}
      \/ Unlock /\ pc' = "save"
      \/ SaveOld \/ WriteNew
  BY <1>1 DEF SlotStep, Faults, Compare, Unlock, Restore, Fail, Goto, Memory
<1> QED BY <1>3, <1>4, <1>5, <1>6, <1>7, <1>8

-----------------------------------------------------------------------------
(***************************************************************************)
(* Numbers of the packed table.  What a function defined by recursion is   *)
(* for every number of bytes follows from there being a least number of    *)
(* steps at which it would not be.                                         *)
(***************************************************************************)
LEMMA LeastNat ==
    ASSUME NEW S, S \subseteq Nat, S # {}
    PROVE  \E x \in S : \A y \in S : x <= y
<1>1. PICK x \in S : \A y \in S : ~ (<<y, x>> \in OpToRel(<, Nat))
  BY NatLessThanWellFounded, WFMin, Zenon
<1>2. \A y \in S : ~ (y < x)
  BY <1>1 DEF OpToRel
<1> QED
  BY <1>2

\* The equation of Signed.
IsSigned(f, cur, last) ==
    f = [k \in cur..last |->
            IF k < last THEN (Bytes[k] % 128) + 128 * f[k + 1]
            ELSE IF Bytes[k] < 64 THEN Bytes[k] ELSE Bytes[k] - 128]
LEMMA SignedIs ==
    ASSUME NEW cur, NEW last, NEW g, IsSigned(g, cur, last)
    PROVE  IsSigned(Signed(cur, last), cur, last)
<1> DEFINE f == Signed(cur, last)
<1>1. f = CHOOSE h : h = [k \in cur..last |->
                             IF k < last THEN (Bytes[k] % 128) + 128 * h[k + 1]
                             ELSE IF Bytes[k] < 64 THEN Bytes[k] ELSE Bytes[k] - 128]
  BY Zenon DEF Signed
<1> HIDE DEF f
<1>2. \E h : h = [k \in cur..last |->
                     IF k < last THEN (Bytes[k] % 128) + 128 * h[k + 1]
                     ELSE IF Bytes[k] < 64 THEN Bytes[k] ELSE Bytes[k] - 128]
  BY Zenon DEF IsSigned
<1>3. f = [k \in cur..last |->
              IF k < last THEN (Bytes[k] % 128) + 128 * f[k + 1]
              ELSE IF Bytes[k] < 64 THEN Bytes[k] ELSE Bytes[k] - 128]
  BY <1>1, <1>2, Zenon
<1> QED BY <1>3 DEF IsSigned, f

\* The equation at one byte.
LEMMA SignedAt ==
    ASSUME NEW f, NEW cur \in Int, NEW last \in Int, IsSigned(f, cur, last), NEW k \in cur..last
    PROVE  f[k] = IF k < last THEN (Bytes[k] % 128) + 128 * f[k + 1]
                  ELSE IF Bytes[k] < 64 THEN Bytes[k] ELSE Bytes[k] - 128
BY DEF IsSigned

\* It has one solution.
LEMMA SignedOne ==
    ASSUME NEW cur \in Int, NEW last \in Int, cur <= last, NEW f, NEW g,
           IsSigned(f, cur, last), IsSigned(g, cur, last)
    PROVE  \A k \in cur..last : f[k] = g[k]
<1> DEFINE S == {n \in Nat : last - n \in cur..last /\ f[last - n] # g[last - n]}
<1>1. S = {}
  <2> SUFFICES ASSUME S # {} PROVE FALSE
    OBVIOUS
  <2>1. PICK n \in S : \A m \in S : n <= m
    BY LeastNat
  <2>2. n \in Nat /\ last - n \in cur..last /\ f[last - n] # g[last - n]
    BY <2>1
  <2>3. CASE n = 0
    <3>1. f[last] = g[last]
      BY SignedAt
    <3> QED BY <2>2, <2>3, <3>1
  <2>4. CASE n # 0
    <3>1. /\ n - 1 \in Nat /\ n - 1 \notin S /\ last - (n - 1) \in cur..last
          /\ last - (n - 1) = (last - n) + 1 /\ last - n < last
      BY <2>1, <2>2, <2>4
    <3>2. f[(last - n) + 1] = g[(last - n) + 1]
      BY <3>1
    <3>3. /\ f[last - n] = (Bytes[last - n] % 128) + 128 * f[(last - n) + 1]
          /\ g[last - n] = (Bytes[last - n] % 128) + 128 * g[(last - n) + 1]
      BY <2>2, <3>1, SignedAt
    <3> QED BY <2>2, <3>2, <3>3
  <2> QED BY <2>2, <2>3, <2>4
<1>2. ASSUME NEW k \in cur..last PROVE f[k] = g[k]
  <2>1. last - k \in Nat /\ last - (last - k) = k
    OBVIOUS
  <2>2. last - k \notin S
    BY <1>1, Zenon
  <2> QED BY <2>1, <2>2
<1> QED BY <1>2

\* It has one, of integers.
LEMMA SignedExists ==
    ASSUME NEW cur \in Int, NEW last \in Int, cur <= last,
           \A k \in cur..last : Bytes[k] \in Int
    PROVE  \E f \in [cur..last -> Int] : IsSigned(f, cur, last)
<1> DEFINE Solved(k) == \E f \in [k..last -> Int] : IsSigned(f, k, last)
           S == {n \in Nat : last - n \in cur..last /\ ~Solved(last - n)}
<1>1. S = {}
  <2> SUFFICES ASSUME S # {} PROVE FALSE
    OBVIOUS
  <2>1. PICK n \in S : \A m \in S : n <= m
    BY LeastNat
  <2>2. n \in Nat /\ last - n \in cur..last /\ ~Solved(last - n)
    BY <2>1
  <2>3. CASE n = 0
    <3> DEFINE f == [k \in last..last |-> IF Bytes[k] < 64 THEN Bytes[k] ELSE Bytes[k] - 128]
    <3>1. f \in [last..last -> Int]
      BY DEF f
    <3>2. IsSigned(f, last, last)
      <4>1. \A k \in last..last : ~(k < last)
        OBVIOUS
      <4> QED BY <4>1 DEF IsSigned
    <3> HIDE DEF f
    <3>3. Solved(last)
      BY <3>1, <3>2, Zenon
    <3>4. last - n = last
      BY <2>3
    <3> HIDE DEF Solved
    <3> QED BY <2>2, <3>3, <3>4
  <2>4. CASE n # 0
    <3> DEFINE p == last - n
    <3>1. n - 1 \in Nat /\ last - (n - 1) = p + 1 /\ p + 1 \in cur..last /\ p < last /\ p \in cur..last
      BY <2>2, <2>4
    <3>2. Solved(p + 1)
      <4> HIDE DEF Solved, p
      <4>1. ~(n <= n - 1)
        BY <2>2
      <4>2. n - 1 \notin S
        BY <2>1, <4>1, Zenon
      <4> QED BY <3>1, <4>2
    <3>3. PICK g \in [(p + 1)..last -> Int] : IsSigned(g, p + 1, last)
      BY <3>2
    <3> HIDE DEF p
    <3> DEFINE f == [k \in p..last |-> IF k = p THEN (Bytes[p] % 128) + 128 * g[p + 1] ELSE g[k]]
    <3>4. f \in [p..last -> Int]
      <4>1. (Bytes[p] % 128) + 128 * g[p + 1] \in Int
        BY <3>1
      <4>2. \A k \in p..last : k # p => g[k] \in Int
        BY <3>1
      <4> QED BY <4>1, <4>2
    <3>5. \A k \in p..last : f[k] = IF k < last THEN (Bytes[k] % 128) + 128 * f[k + 1]
                                    ELSE IF Bytes[k] < 64 THEN Bytes[k] ELSE Bytes[k] - 128
      <4> SUFFICES ASSUME NEW k \in p..last
                   PROVE  f[k] = IF k < last THEN (Bytes[k] % 128) + 128 * f[k + 1]
                                 ELSE IF Bytes[k] < 64 THEN Bytes[k] ELSE Bytes[k] - 128
        OBVIOUS
      <4>1. CASE k = p
        <5>1. f[p] = (Bytes[p] % 128) + 128 * g[p + 1] /\ f[p + 1] = g[p + 1]
          BY <3>1
        <5> QED BY <3>1, <4>1, <5>1
      <4>2. CASE k # p
        <5>1. k \in (p + 1)..last /\ f[k] = g[k] /\ (k < last => f[k + 1] = g[k + 1])
          BY <3>1, <4>2
        <5>2. g[k] = IF k < last THEN (Bytes[k] % 128) + 128 * g[k + 1]
                     ELSE IF Bytes[k] < 64 THEN Bytes[k] ELSE Bytes[k] - 128
          <6>1. p + 1 \in Int
            BY <3>1
          <6>2. IsSigned(g, p + 1, last)
            BY <3>3
          <6> QED BY <5>1, <6>1, <6>2 DEF IsSigned
        <5> QED BY <5>1, <5>2
      <4> QED BY <4>1, <4>2
    <3>6. IsSigned(f, p, last)
      <4> HIDE DEF f
      <4> QED BY <3>4, <3>5 DEF IsSigned
    <3>7. Solved(p)
      BY <3>4, <3>6
    <3> QED BY <2>2, <3>7 DEF p
  <2> QED BY <2>2, <2>3, <2>4
<1>2. last - cur \in Nat /\ last - (last - cur) = cur /\ cur \in cur..last
  OBVIOUS
<1>3. last - cur \notin S
  BY <1>1, Zenon
<1> HIDE DEF Solved
<1>4. Solved(cur)
  BY <1>2, <1>3
<1> QED BY <1>4 DEF Solved

\* The same for Rest, from the first byte on.
IsRest(f, v, p, last) == f = [k \in p..last |-> IF k = p THEN v ELSE f[k - 1] \div 128]
LEMMA RestExists ==
    ASSUME NEW p \in Int, NEW last \in Int, p <= last, NEW v \in Int
    PROVE  \E f \in [p..last -> Int] : IsRest(f, v, p, last)
<1> DEFINE Solved(k) == \E f \in [p..k -> Int] : IsRest(f, v, p, k)
           S == {n \in Nat : p + n \in p..last /\ ~Solved(p + n)}
<1>1. S = {}
  <2> SUFFICES ASSUME S # {} PROVE FALSE
    OBVIOUS
  <2>1. PICK n \in S : \A m \in S : n <= m
    BY LeastNat
  <2>2. n \in Nat /\ p + n \in p..last /\ ~Solved(p + n)
    BY <2>1
  <2>3. CASE n = 0
    <3> DEFINE f == [k \in p..p |-> v]
    <3>1. f \in [p..p -> Int]
      BY DEF f
    <3>2. IsRest(f, v, p, p)
      <4>1. \A k \in p..p : k = p
        OBVIOUS
      <4> QED BY <4>1 DEF IsRest
    <3> HIDE DEF f
    <3>3. Solved(p)
      BY <3>1, <3>2, Zenon
    <3>4. p + n = p
      BY <2>3
    <3> HIDE DEF Solved
    <3> QED BY <2>2, <3>3, <3>4
  <2>4. CASE n # 0
    <3> DEFINE e == p + n
    <3>1. n - 1 \in Nat /\ p + (n - 1) = e - 1 /\ e - 1 \in p..last /\ e > p /\ e \in p..last
      BY <2>2, <2>4
    <3>2. Solved(e - 1)
      <4> HIDE DEF Solved, e
      <4>1. ~(n <= n - 1)
        BY <2>2
      <4>2. n - 1 \notin S
        BY <2>1, <4>1, Zenon
      <4> QED BY <3>1, <4>2
    <3>3. PICK g \in [p..(e - 1) -> Int] : IsRest(g, v, p, e - 1)
      BY <3>2
    <3> HIDE DEF e
    <3> DEFINE f == [k \in p..e |-> IF k = e THEN g[e - 1] \div 128 ELSE g[k]]
    <3>4. f \in [p..e -> Int]
      <4>1. g[e - 1] \div 128 \in Int
        BY <3>1
      <4>2. \A k \in p..e : k # e => g[k] \in Int
        BY <3>1
      <4> QED BY <4>1, <4>2
    <3>5. \A k \in p..e : f[k] = IF k = p THEN v ELSE f[k - 1] \div 128
      <4> SUFFICES ASSUME NEW k \in p..e
                   PROVE  f[k] = IF k = p THEN v ELSE f[k - 1] \div 128
        OBVIOUS
      <4>1. CASE k = e
        <5>1. f[e] = g[e - 1] \div 128 /\ f[e - 1] = g[e - 1]
          BY <3>1
        <5> QED BY <3>1, <4>1, <5>1
      <4>2. CASE k # e
        <5>1. k \in p..(e - 1) /\ f[k] = g[k] /\ (k # p => f[k - 1] = g[k - 1])
          BY <3>1, <4>2
        <5>2. g[k] = IF k = p THEN v ELSE g[k - 1] \div 128
          BY <3>3, <5>1 DEF IsRest
        <5> QED BY <5>1, <5>2
      <4> QED BY <4>1, <4>2
    <3>6. IsRest(f, v, p, e)
      <4> HIDE DEF f
      <4> QED BY <3>4, <3>5 DEF IsRest
    <3> HIDE DEF f
    <3>7. Solved(e)
      BY <3>4, <3>6, Zenon
    <3> HIDE DEF Solved
    <3> QED BY <2>2, <3>7 DEF e
  <2> QED BY <2>2, <2>3, <2>4
<1>2. last - p \in Nat /\ p + (last - p) = last /\ last \in p..last
  OBVIOUS
<1>3. last - p \notin S
  BY <1>1, Zenon
<1> HIDE DEF Solved
<1>4. Solved(last)
  BY <1>2, <1>3
<1> QED BY <1>4 DEF Solved

LEMMA RestOne ==
    ASSUME NEW p \in Int, NEW last \in Int, p <= last, NEW v, NEW f, NEW g,
           IsRest(f, v, p, last), IsRest(g, v, p, last)
    PROVE  f = g
<1> DEFINE S == {n \in Nat : p + n \in p..last /\ f[p + n] # g[p + n]}
<1>1. S = {}
  <2> SUFFICES ASSUME S # {} PROVE FALSE
    OBVIOUS
  <2>1. PICK n \in S : \A m \in S : n <= m
    BY LeastNat
  <2>2. n \in Nat /\ p + n \in p..last /\ f[p + n] # g[p + n]
    BY <2>1
  <2>3. CASE n = 0
    <3>1. p \in p..last /\ p + n = p
      BY <2>3
    <3>2. f[p] = v /\ g[p] = v
      BY <3>1 DEF IsRest
    <3> QED BY <2>2, <3>1, <3>2
  <2>4. CASE n # 0
    <3>1. /\ n - 1 \in Nat /\ n - 1 \notin S /\ p + (n - 1) \in p..last
          /\ p + (n - 1) = (p + n) - 1 /\ p + n # p
      BY <2>1, <2>2, <2>4
    <3>2. f[(p + n) - 1] = g[(p + n) - 1]
      BY <3>1
    <3>3. /\ f[p + n] = f[(p + n) - 1] \div 128
          /\ g[p + n] = g[(p + n) - 1] \div 128
      BY <2>2, <3>1 DEF IsRest
    <3> QED BY <2>2, <3>2, <3>3
  <2> QED BY <2>2, <2>3, <2>4
<1>2. ASSUME NEW k \in p..last PROVE f[k] = g[k]
  <2>1. k - p \in Nat /\ p + (k - p) = k
    OBVIOUS
  <2>2. k - p \notin S
    BY <1>1, Zenon
  <2> QED BY <2>1, <2>2
<1> QED BY <1>2 DEF IsRest

LEMMA RestIs ==
    ASSUME NEW p \in Int, NEW last \in Int, p <= last, NEW v \in Int
    PROVE  /\ Rest(v, p, last) \in [p..last -> Int]
           /\ IsRest(Rest(v, p, last), v, p, last)
<1> DEFINE f == Rest(v, p, last)
<1>1. f = CHOOSE h : h = [k \in p..last |-> IF k = p THEN v ELSE h[k - 1] \div 128]
  BY Zenon DEF Rest
<1> HIDE DEF f
<1>2. PICK g \in [p..last -> Int] : IsRest(g, v, p, last)
  BY RestExists
<1>3. \E h : h = [k \in p..last |-> IF k = p THEN v ELSE h[k - 1] \div 128]
  BY <1>2, Zenon DEF IsRest
<1>4. f = [k \in p..last |-> IF k = p THEN v ELSE f[k - 1] \div 128]
  BY <1>1, <1>3, Zenon
<1>5. IsRest(f, v, p, last)
  BY <1>4, Zenon DEF IsRest
<1>6. f = g
  BY <1>2, <1>5, RestOne
<1> QED BY <1>2, <1>5, <1>6 DEF f

\* Where a number ends.
LEMMA EndIs ==
    ASSUME NEW bytes \in Seq(0..255), NEW p, HasNumber(bytes, p)
    PROVE  /\ p \in Nat \ {0} /\ p \in 1..Len(bytes) /\ EndOf(bytes, p) \in p..Len(bytes)
           /\ bytes[EndOf(bytes, p)] < 128 /\ Behind(bytes, p) \in 2..(Len(bytes) + 1)
<1> DEFINE S == {k \in p..Len(bytes) : bytes[k] < 128}
<1>1. Len(bytes) \in Nat /\ p \in 1..Len(bytes) /\ S # {}
  BY DEF HasNumber
<1>2. S \subseteq Nat
  BY <1>1
<1>3. \E x \in S : \A y \in S : x <= y
  BY <1>1, <1>2, LeastNat
<1>4. EndOf(bytes, p) \in S
  <2>1. EndOf(bytes, p) = CHOOSE x \in S : \A y \in S : x <= y
    BY Zenon DEF EndOf, Min
  <2> HIDE DEF S
  <2> QED BY <1>3, <2>1
<1> QED BY <1>1, <1>4 DEF Behind

LEMMA Modulus ==
    ASSUME NEW v \in Int
    PROVE  v % WordSize \in Words
BY BitsAssumption DEF Words

\* Seven bits and what is left of a number are the number.
LEMMA Sevens ==
    ASSUME NEW v \in Int
    PROVE  v = (v % 128) + 128 * (v \div 128)
OBVIOUS
LEMMA LastSeven ==
    ASSUME NEW v \in -64..63, NEW byte \in 0..127, byte % 128 = v % 128
    PROVE  v = IF byte < 64 THEN byte ELSE byte - 128
OBVIOUS

LEMMA Decodes ==
    ASSUME Bytes \in Seq(0..255), NEW p, HasNumber(Bytes, p)
    PROVE  /\ Decoded(p, EndOf(Bytes, p)) \in Words
           /\ \A v : Encodes(Bytes, p, v) => Decoded(p, EndOf(Bytes, p)) = v % WordSize
<1> DEFINE last == EndOf(Bytes, p)
           value == Signed(p, last)
<1>1. p \in Int /\ last \in Int /\ p <= last /\ Bytes[last] < 128 /\ p \in p..last /\ last \in p..last
      /\ \A k \in p..last : Bytes[k] \in 0..255
  <2>1. p \in 1..Len(Bytes) /\ last \in p..Len(Bytes) /\ Bytes[last] < 128
    BY EndIs
  <2>2. Len(Bytes) \in Nat
    OBVIOUS
  <2> HIDE DEF last
  <2>3. \A k \in p..last : k \in 1..Len(Bytes)
    BY <2>1, <2>2
  <2>4. \A k \in 1..Len(Bytes) : Bytes[k] \in 0..255
    BY ElementIn
  <2>5. \A k \in p..last : Bytes[k] \in 0..255
    BY <2>3, <2>4
  <2> QED BY <2>1, <2>2, <2>5
<1>2. Decoded(p, last) = value[p] % WordSize
  BY DEF Decoded
<1> HIDE DEF last, value
<1>3. PICK f \in [p..last -> Int] : IsSigned(f, p, last)
  <2>1. \A k \in p..last : Bytes[k] \in Int
    <3>1. 0..255 \subseteq Int
      OBVIOUS
    <3> QED BY <1>1, <3>1, Zenon
  <2> QED BY <1>1, <2>1, SignedExists
<1>4. IsSigned(value, p, last)
  BY <1>3, SignedIs DEF value
<1>5. value[p] = f[p] /\ f[p] \in Int
  BY <1>1, <1>3, <1>4, SignedOne
<1>6. ASSUME NEW v, Encodes(Bytes, p, v)
      PROVE  value[p] = v
  <2> DEFINE rest == Rest(v, p, last)
  <2>1. /\ v \in Int /\ \A k \in p..last : Bytes[k] % 128 = rest[k] % 128
        /\ rest[last] \in -64..63
    BY <1>6 DEF Encodes, last
  <2>2. rest \in [p..last -> Int] /\ IsRest(rest, v, p, last)
    BY <1>1, <2>1, RestIs
  <2> HIDE DEF rest
  <2>3. ASSUME NEW k \in p..last
        PROVE  rest[k] = IF k < last THEN (Bytes[k] % 128) + 128 * rest[k + 1]
                         ELSE IF Bytes[k] < 64 THEN Bytes[k] ELSE Bytes[k] - 128
    <3>1. CASE k < last
      <4>1. k + 1 \in p..last /\ k + 1 # p /\ (k + 1) - 1 = k
        BY <1>1, <3>1
      <4>2. rest[k + 1] = rest[k] \div 128
        BY <2>2, <4>1 DEF IsRest
      <4>3. rest[k] = (rest[k] % 128) + 128 * (rest[k] \div 128)
        BY <2>2, Sevens
      <4> QED BY <2>1, <3>1, <4>2, <4>3
    <3>2. CASE ~(k < last)
      <4>1. k = last
        BY <1>1, <3>2
      <4>2. Bytes[last] \in 0..127 /\ Bytes[last] % 128 = rest[last] % 128
        <5>1. last \in p..last /\ Bytes[last] < 128
          BY <1>1, Zenon
        <5>2. Bytes[last] \in 0..255
          BY <1>1, <5>1, Zenon
        <5>3. Bytes[last] % 128 = rest[last] % 128
          BY <2>1, <5>1, Zenon
        <5>4. Bytes[last] \in 0..127
          <6>1. PICK byte \in 0..255 : byte = Bytes[last]
            BY <5>2, Zenon
          <6>2. byte < 128
            BY <5>1, <6>1, Zenon
          <6>3. byte \in 0..127
            BY <6>2
          <6> QED BY <6>1, <6>3, Zenon
        <5> QED BY <5>3, <5>4, Zenon
      <4>3. rest[last] = IF Bytes[last] < 64 THEN Bytes[last] ELSE Bytes[last] - 128
        BY <2>1, <4>2, LastSeven
      <4> QED BY <3>2, <4>1, <4>3
    <3> QED BY <3>1, <3>2
  <2>4. IsSigned(rest, p, last)
    BY <2>2, <2>3 DEF IsSigned
  <2>5. value[p] = rest[p]
    BY <1>1, <1>4, <2>4, SignedOne
  <2>6. rest[p] = v
    BY <1>1, <2>2 DEF IsRest
  <2> QED BY <2>5, <2>6
<1> QED BY <1>2, <1>5, <1>6, Modulus DEF last

LEMMA EndsIs ==
    ASSUME NEW p, HasNumber(Bytes, p)
    PROVE  Ends(p) # {} /\ Min(Ends(p)) = EndOf(Bytes, p)
<1>1. Ends(p) = {k \in p..Len(Bytes) : Bytes[k] < 128}
  BY DEF Ends
<1> QED BY <1>1, Zenon DEF HasNumber, EndOf

\* x = n * q + r has one r from 0 to n - 1.
LEMMA RemainderIs ==
    ASSUME NEW n \in Nat \ {0}, NEW q \in Int, NEW r \in 0..(n - 1)
    PROVE  (n * q + r) % n = r
<1> DEFINE x == n * q + r
           d == x \div n
           s == x % n
<1>1. n * q \in Int /\ x \in Int
  OBVIOUS
<1>2. d \in Int /\ s \in 0..(n - 1) /\ x = n * d + s
  BY <1>1
<1>3. n * q + r = n * d + s
  BY <1>2
<1> HIDE DEF x, d, s
<1>4. n * (q - d) = s - r
  BY <1>2, <1>3
<1>5. CASE q - d >= 1
  <2>1. n * (q - d) >= n
    BY <1>2, <1>5
  <2> QED BY <1>2, <1>4, <2>1
<1>6. CASE q - d <= -1
  <2>1. n * (q - d) <= -n
    BY <1>2, <1>6
  <2> QED BY <1>2, <1>4, <2>1
<1>7. CASE q = d
  BY <1>2, <1>3, <1>7 DEF s, x
<1> QED BY <1>2, <1>5, <1>6, <1>7

\* A word and a number that was cut down to one.
LEMMA AddModulo ==
    ASSUME NEW v \in Int, NEW u \in Int, NEW n \in Nat \ {0}
    PROVE  (u + (v % n)) % n = (u + v) % n
<1> DEFINE a == v \div n
           w == v % n
           b == (u + w) \div n
           r == (u + w) % n
<1>1. a \in Int /\ w \in 0..(n - 1) /\ v = n * a + w
  OBVIOUS
<1>2. u + w \in Int
  BY <1>1
<1> HIDE DEF a, w
<1>3. b \in Int /\ r \in 0..(n - 1) /\ u + w = n * b + r
  BY <1>2
<1> HIDE DEF b, r
<1>4. u + v = n * (a + b) + r /\ a + b \in Int
  BY <1>1, <1>3
<1>5. (u + v) % n = r
  BY <1>3, <1>4, RemainderIs, Zenon
<1> QED BY <1>5 DEF r, w

\* A word is not cut down.
LEMMA WordModulo ==
    ASSUME NEW w \in Words
    PROVE  w \in Nat /\ w % WordSize = w
BY BitsAssumption DEF Words
\* On a word, a step from one to another leads there.
LEMMA StepModulo ==
    ASSUME NEW v \in Words, NEW w \in Words, NEW step, step = w - v
    PROVE  (v + (step % WordSize)) % WordSize = w
<1>1. v \in Int /\ w \in Int /\ step \in Int /\ v + step = w /\ WordSize \in Nat \ {0}
  BY BitsAssumption DEF Words
<1>2. (v + (step % WordSize)) % WordSize = (v + step) % WordSize
  BY <1>1, AddModulo
<1> QED BY <1>1, <1>2, WordModulo

-----------------------------------------------------------------------------
(***************************************************************************)
(* The iterator.  A number that is there is read, and what it says is put  *)
(* or added to its field; the next one begins behind it.                   *)
(***************************************************************************)
ItFields == {"cur", "ok", "count", "offset", "size", "flags", "delta", "info", "addend",
             "index", "group"}
Numbers == {"count", "offset", "size", "flags", "delta", "info", "addend"}
OfWords(st) == DOMAIN st = ItFields /\ \A f \in ItFields \ {"ok"} : st[f] \in Words

LEMMA ReadIs ==
    ASSUME Bytes \in Seq(0..255), NEW st, DOMAIN st = ItFields, st.ok = TRUE, NEW field \in Numbers,
           HasNumber(Bytes, st.cur)
    PROVE  LET s == Read(st, field)
               number == Decoded(st.cur, EndOf(Bytes, st.cur))
           IN  /\ DOMAIN s = ItFields /\ s.ok = TRUE /\ s.cur = Behind(Bytes, st.cur)
               /\ \A f \in ItFields \ {field, "cur"} : s[f] = st[f]
               /\ field \notin {"offset", "addend"} => s[field] = (0 + number) % WordSize
               /\ field \in {"offset", "addend"} => s[field] = (st[field] + number) % WordSize
<1> DEFINE number == Decoded(st.cur, EndOf(Bytes, st.cur))
           onto == IF field \in {"offset", "addend"} THEN st[field] ELSE 0
           sum == (onto + number) % WordSize
           behind == Behind(Bytes, st.cur)
<1>1. Ends(st.cur) # {} /\ Min(Ends(st.cur)) = EndOf(Bytes, st.cur)
  BY EndsIs
<1>2. Read(st, field) = [st EXCEPT ![field] = sum, !.cur = behind]
  BY <1>1 DEF Read, Behind
<1>3. field \in ItFields /\ field # "cur" /\ field # "ok"
  BY DEF Numbers, ItFields
<1>4. sum = (IF field \in {"offset", "addend"} THEN st[field] + number ELSE 0 + number) % WordSize
  OBVIOUS
<1> HIDE DEF sum, behind
<1> DEFINE s == [st EXCEPT ![field] = sum, !.cur = behind]
<1>5. /\ DOMAIN s = ItFields /\ s.ok = TRUE /\ s.cur = behind /\ s[field] = sum
      /\ \A f \in ItFields \ {field, "cur"} : s[f] = st[f]
  BY <1>3 DEF ItFields
<1> HIDE DEF s
<1>6. Read(st, field) = s
  BY <1>2 DEF s
<1>7. /\ field \notin {"offset", "addend"} => sum = (0 + number) % WordSize
      /\ field \in {"offset", "addend"} => sum = (st[field] + number) % WordSize
  BY <1>4
<1> QED BY <1>5, <1>6, <1>7 DEF behind, number

\* A number is read, behind which s goes on; other fields do not change.
OneRead(st, field, s) ==
    /\ OfWords(s) /\ s.ok = TRUE /\ s.cur = Behind(Bytes, st.cur)
    /\ \A f \in ItFields \ {field, "cur"} : s[f] = st[f]
Holds(s, field, value) == s[field] = value
LEMMA ReadOne ==
    ASSUME Bytes \in Seq(0..255), Len(Bytes) + 1 \in Words,
           NEW st, OfWords(st), st.ok = TRUE, NEW field \in Numbers, HasNumber(Bytes, st.cur),
           NEW s, s = Read(st, field)
    PROVE  /\ OneRead(st, field, s)
           /\ field \notin {"offset", "addend"} => s[field] = Decoded(st.cur, EndOf(Bytes, st.cur))
           /\ field = "offset" =>
                 s[field] = (st[field] + Decoded(st.cur, EndOf(Bytes, st.cur))) % WordSize
<1> DEFINE number == Decoded(st.cur, EndOf(Bytes, st.cur))
<1>1. DOMAIN st = ItFields /\ field \in ItFields \ {"ok", "cur"}
  BY DEF OfWords, Numbers, ItFields
<1> HIDE DEF number
<1>2. /\ DOMAIN s = ItFields /\ s.ok = TRUE /\ s.cur = Behind(Bytes, st.cur)
      /\ \A f \in ItFields \ {field, "cur"} : s[f] = st[f]
      /\ field \notin {"offset", "addend"} => s[field] = (0 + number) % WordSize
      /\ field \in {"offset", "addend"} => s[field] = (st[field] + number) % WordSize
  <2> DEFINE r == Read(st, field)
  <2>1. /\ DOMAIN r = ItFields /\ r.ok = TRUE /\ r.cur = Behind(Bytes, st.cur)
        /\ \A f \in ItFields \ {field, "cur"} : r[f] = st[f]
        /\ field \notin {"offset", "addend"} => r[field] = (0 + number) % WordSize
        /\ field \in {"offset", "addend"} => r[field] = (st[field] + number) % WordSize
    BY <1>1, ReadIs DEF number
  <2> HIDE DEF r
  <2>2. s = r
    BY DEF r
  <2> QED BY <2>1, <2>2
<1>3. number \in Words
  BY Decodes DEF number
<1>4. Words \subseteq Int
  BY BitsAssumption DEF Words
<1>5. st[field] \in Words /\ \A f \in ItFields \ {"ok"} : st[f] \in Words
  BY <1>1 DEF OfWords
<1>6. s[field] \in Words
  <2>1. (0 + number) % WordSize \in Words /\ (st[field] + number) % WordSize \in Words
    <3>1. \A a, b \in Words : 0 + b \in Int /\ a + b \in Int
      BY <1>4
    <3>2. 0 + number \in Int /\ st[field] + number \in Int
      BY <1>3, <1>5, <3>1, Zenon
    <3> QED BY <3>2, Modulus
  <2> QED BY <1>2, <2>1
<1>7. s.cur \in Words
  <2>1. Behind(Bytes, st.cur) \in 2..(Len(Bytes) + 1)
    BY EndIs
  <2> QED BY <1>2, <2>1, BitsAssumption DEF Words
<1>8. OfWords(s)
  <2>1. ASSUME NEW f \in ItFields \ {"ok"} PROVE s[f] \in Words
    <3>1. CASE f = field
      BY <1>6, <3>1
    <3>2. CASE f = "cur"
      BY <1>7, <3>2
    <3>3. CASE f # field /\ f # "cur"
      BY <1>2, <1>5, <3>3
    <3> QED BY <3>1, <3>2, <3>3
  <2> QED BY <1>2, <2>1 DEF OfWords
<1>9. (0 + number) % WordSize = number
  BY <1>3, WordModulo DEF Words
<1> QED BY <1>2, <1>8, <1>9 DEF OneRead, number

\* A number that is not added up, one that is, and one that nothing is known of.
Plain == {"count", "size", "flags", "delta", "info"}
LEMMA ReadPlain ==
    ASSUME Bytes \in Seq(0..255), Len(Bytes) + 1 \in Words,
           NEW st, OfWords(st), st.ok = TRUE, NEW field \in Plain,
           NEW v, Encodes(Bytes, st.cur, v), NEW s, s = Read(st, field)
    PROVE  OneRead(st, field, s) /\ Holds(s, field, v % WordSize)
<1>1. field \in Numbers /\ field \notin {"offset", "addend"}
  BY DEF Plain, Numbers
<1>2. HasNumber(Bytes, st.cur)
  BY Zenon DEF Encodes
<1>3. Decoded(st.cur, EndOf(Bytes, st.cur)) = v % WordSize
  BY <1>2, Decodes
<1>4. OneRead(st, field, s) /\ s[field] = Decoded(st.cur, EndOf(Bytes, st.cur))
  BY <1>1, <1>2, ReadOne, Zenon
<1> QED BY <1>3, <1>4, Zenon DEF Holds
LEMMA ReadOffset ==
    ASSUME Bytes \in Seq(0..255), Len(Bytes) + 1 \in Words,
           NEW st, OfWords(st), st.ok = TRUE,
           NEW v, Encodes(Bytes, st.cur, v), NEW s, s = Read(st, "offset")
    PROVE  OneRead(st, "offset", s) /\ Holds(s, "offset", (st.offset + (v % WordSize)) % WordSize)
<1>1. "offset" \in Numbers
  BY DEF Numbers
<1>2. HasNumber(Bytes, st.cur)
  BY Zenon DEF Encodes
<1>3. Decoded(st.cur, EndOf(Bytes, st.cur)) = v % WordSize
  BY <1>2, Decodes
<1>4. /\ OneRead(st, "offset", s)
      /\ s["offset"] = (st["offset"] + Decoded(st.cur, EndOf(Bytes, st.cur))) % WordSize
  BY <1>1, <1>2, ReadOne, Zenon
<1> QED BY <1>3, <1>4 DEF Holds
LEMMA ReadAddend ==
    ASSUME Bytes \in Seq(0..255), Len(Bytes) + 1 \in Words,
           NEW st, OfWords(st), st.ok = TRUE, HasNumber(Bytes, st.cur),
           NEW s, s = Read(st, "addend")
    PROVE  OneRead(st, "addend", s)
<1>1. "addend" \in Numbers
  BY DEF Numbers
<1> QED BY <1>1, ReadOne, Zenon

-----------------------------------------------------------------------------
(***************************************************************************)
(* The table.  When n relocations of it are returned, the iterator is      *)
(* where the next one begins, with what the group of the last one says.    *)
(***************************************************************************)
Rels == image.linked.android
Layout == image.linked.packed
PackedAt(st, n) ==
    /\ OfWords(st) /\ st.ok = TRUE
    /\ n \in 0..Len(Rels) /\ st.index = n /\ st.count = Layout.count
    /\ st.cur = Layout.at[n + 1]
    /\ st.offset = IF n = 0 THEN Layout.start ELSE Rels[n].offset
    /\ n = 0 => st.group = 0 /\ st.size = 0
    /\ n # 0 => /\ Layout.group[n].first \in 1..n /\ st.group = n - Layout.group[n].first + 1
                /\ st.size = Layout.group[n].size /\ st.flags = Layout.group[n].flags
                /\ ByDelta(st.flags) => st.delta = Layout.group[n].delta % WordSize
                /\ st.info = Rels[n].info

LEMMA GroupIs ==
    ASSUME Bytes \in Seq(0..255), Len(Bytes) + 1 \in Words, self.rela <=> Rela(image),
           NEW st, OfWords(st), st.ok = TRUE, NEW g, GroupSound(image, Bytes, st.cur, g)
    PROVE  LET s == GroupFields(st)
           IN  /\ OfWords(s) /\ s.ok = TRUE /\ s.cur = EntriesAt(Bytes, st.cur, g.flags)
               /\ s.group = 0 /\ s.size = g.size /\ s.flags = g.flags
               /\ s.count = st.count /\ s.offset = st.offset /\ s.index = st.index
               /\ ByDelta(g.flags) => s.delta = g.delta % WordSize
               /\ ByInfo(g.flags) => s.info = g.info % WordSize
<1> DEFINE flags == g.flags
           s1 == Read(st, "size")
           s2 == Read(s1, "flags")
           s3 == ReadIf(s2, ByDelta(flags), "delta")
           s4 == ReadIf(s3, ByInfo(flags), "info")
           s5 == ReadIf(s4, AddendByGroup(flags), "addend")
           s == GroupFields(st)
<1>1. /\ g.size \in Words /\ flags \in Words
      /\ Encodes(Bytes, st.cur, g.size) /\ Encodes(Bytes, Behind(Bytes, st.cur), flags)
      /\ ByDelta(flags) => Encodes(Bytes, DeltaAt(Bytes, st.cur), g.delta)
      /\ ByInfo(flags) => Encodes(Bytes, InfoAt(Bytes, st.cur, flags), g.info)
      /\ AddendByGroup(flags) => Rela(image) /\ HasNumber(Bytes, AddendAt(Bytes, st.cur, flags))
  BY DEF GroupSound
<1>2. "size" \in Plain /\ "flags" \in Plain /\ "delta" \in Plain /\ "info" \in Plain
  BY DEF Plain
<1> HIDE DEF flags, s1, s2, s3, s4, s5, s
<1>4. /\ OfWords(s1) /\ s1.ok = TRUE /\ s1.cur = Behind(Bytes, st.cur)
      /\ s1.size = g.size
      /\ \A f \in ItFields \ {"size", "cur"} : s1[f] = st[f]
  <2>1. OneRead(st, "size", s1) /\ Holds(s1, "size", g.size % WordSize)
    BY <1>1, <1>2, ReadPlain, Zenon DEF s1
  <2> QED BY <1>1, <2>1, WordModulo DEF OneRead, Holds
<1>5. /\ OfWords(s2) /\ s2.ok = TRUE /\ s2.cur = DeltaAt(Bytes, st.cur)
      /\ s2.flags = flags
      /\ \A f \in ItFields \ {"flags", "cur"} : s2[f] = s1[f]
  <2>1. OneRead(s1, "flags", s2) /\ Holds(s2, "flags", flags % WordSize)
    BY <1>1, <1>2, <1>4, ReadPlain, Zenon DEF s2
  <2> QED BY <1>1, <1>4, <2>1, WordModulo DEF OneRead, Holds, DeltaAt
<1>6. /\ OfWords(s3) /\ s3.ok = TRUE /\ s3.cur = InfoAt(Bytes, st.cur, flags)
      /\ ByDelta(flags) => s3.delta = g.delta % WordSize
      /\ \A f \in ItFields \ {"delta", "cur"} : s3[f] = s2[f]
  <2>1. CASE ByDelta(flags)
    <3>1. s3 = Read(s2, "delta") /\ Encodes(Bytes, s2.cur, g.delta)
      BY <1>1, <1>5, <2>1 DEF s3, ReadIf
    <3>2. OneRead(s2, "delta", s3) /\ Holds(s3, "delta", g.delta % WordSize)
      BY <1>2, <1>5, <3>1, ReadPlain, Zenon
    <3> QED BY <1>5, <2>1, <3>2 DEF OneRead, Holds, InfoAt, Past
  <2>2. CASE ~ByDelta(flags)
    BY <1>5, <2>2 DEF s3, ReadIf, InfoAt, Past
  <2> QED BY <2>1, <2>2
<1>7. /\ OfWords(s4) /\ s4.ok = TRUE /\ s4.cur = AddendAt(Bytes, st.cur, flags)
      /\ ByInfo(flags) => s4.info = g.info % WordSize
      /\ \A f \in ItFields \ {"info", "cur"} : s4[f] = s3[f]
  <2>1. CASE ByInfo(flags)
    <3>1. s4 = Read(s3, "info") /\ Encodes(Bytes, s3.cur, g.info)
      BY <1>1, <1>6, <2>1 DEF s4, ReadIf
    <3>2. OneRead(s3, "info", s4) /\ Holds(s4, "info", g.info % WordSize)
      BY <1>2, <1>6, <3>1, ReadPlain, Zenon
    <3> QED BY <1>6, <2>1, <3>2 DEF OneRead, Holds, AddendAt, Past
  <2>2. CASE ~ByInfo(flags)
    BY <1>6, <2>2 DEF s4, ReadIf, AddendAt, Past
  <2> QED BY <2>1, <2>2
<1>8. /\ OfWords(s5) /\ s5.ok = TRUE /\ s5.cur = EntriesAt(Bytes, st.cur, flags)
      /\ \A f \in ItFields \ {"addend", "cur"} : s5[f] = s4[f]
  <2>1. CASE AddendByGroup(flags)
    <3>1. s5 = Read(s4, "addend") /\ HasNumber(Bytes, s4.cur)
      BY <1>1, <1>7, <2>1 DEF s5, ReadIf
    <3>2. OneRead(s4, "addend", s5)
      BY <1>7, <3>1, ReadAddend, Zenon
    <3> QED BY <1>7, <2>1, <3>2 DEF OneRead, EntriesAt, Past
  <2>2. CASE ~AddendByGroup(flags)
    BY <1>7, <2>2 DEF s5, ReadIf, EntriesAt, Past
  <2> QED BY <2>1, <2>2
<1>9. s = [s5 EXCEPT !.group = 0,
                     !.ok = @ /\ (AddendByGroup(flags) => self.rela),
                     !.addend = IF HasAddend(flags) THEN @ ELSE 0]
  BY <1>5, Zenon DEF s, GroupFields, s1, s2, s3, s4, s5
<1>10. DOMAIN s5 = ItFields /\ \A f \in ItFields \ {"ok"} : s5[f] \in Words
  BY <1>8 DEF OfWords
<1>11. /\ DOMAIN s = ItFields /\ s.group = 0 /\ s.addend \in {s5.addend, 0}
       /\ \A f \in ItFields \ {"group", "ok", "addend"} : s[f] = s5[f]
  BY <1>9, <1>10 DEF ItFields
<1>12. s.ok = TRUE
  <2>1. s.ok = (s5.ok /\ (AddendByGroup(flags) => self.rela))
    BY <1>9, <1>10 DEF ItFields
  <2> QED BY <1>1, <1>8, <2>1
<1>13. OfWords(s)
  <2>1. 0 \in Words
    BY BitsAssumption DEF Words
  <2>2. ASSUME NEW f \in ItFields \ {"ok"} PROVE s[f] \in Words
    <3>1. CASE f = "group"
      BY <1>11, <2>1, <3>1
    <3>2. CASE f = "addend"
      BY <1>10, <1>11, <2>1, <3>2 DEF ItFields
    <3>3. CASE f \notin {"group", "addend"}
      BY <1>10, <1>11, <3>3
    <3> QED BY <3>1, <3>2, <3>3
  <2> QED BY <1>11, <2>2 DEF OfWords
<1>14. /\ s.size = g.size /\ s.flags = flags /\ s.cur = EntriesAt(Bytes, st.cur, flags)
       /\ s.count = st.count /\ s.offset = st.offset /\ s.index = st.index
       /\ ByDelta(flags) => s.delta = g.delta % WordSize
       /\ ByInfo(flags) => s.info = g.info % WordSize
  BY <1>4, <1>5, <1>6, <1>7, <1>8, <1>11 DEF ItFields
<1> QED BY <1>11, <1>12, <1>13, <1>14 DEF flags, s

\* Where the entry of the k-th relocation is.
EntryAt(k) ==
    IF k = Layout.group[k].first
    THEN EntriesAt(Bytes, Layout.at[k], Layout.group[k].flags) ELSE Layout.at[k]
PackedTo == /\ Bytes \in Seq(0..255) /\ Len(Bytes) + 1 \in Words
            /\ PackedBytes(image, Bytes) /\ (self.rela <=> Rela(image))
            /\ Rels \in Seq([offset : Words, info : Words])
LEMMA RelWords ==
    ASSUME PackedTo, NEW k \in 1..Len(Rels)
    PROVE  Rels[k].offset \in Words /\ Rels[k].info \in Words
<1>1. Rels \in Seq([offset : Words, info : Words])
  BY DEF PackedTo
<1>2. Rels[k] \in [offset : Words, info : Words]
  BY <1>1, ElementIn
<1> QED BY <1>2

\* The iterator before the entry, with the fields of the group.
Started(start, st, n, k) ==
    /\ OfWords(start) /\ start.ok = TRUE /\ start.cur = EntryAt(k)
    /\ start.index = n /\ start.count = Layout.count /\ start.offset = st.offset
    /\ Layout.group[k].first \in 1..k /\ Layout.group[k].size \in Words
    /\ k < Layout.group[k].first + Layout.group[k].size
    /\ start.group = k - Layout.group[k].first
    /\ start.size = Layout.group[k].size /\ start.flags = Layout.group[k].flags
    /\ ByDelta(start.flags) => start.delta = Layout.group[k].delta % WordSize
    /\ ByInfo(start.flags) => start.info = Rels[k].info
LEMMA StartIs ==
    ASSUME PackedTo, NEW st, NEW n \in Nat, n < Len(Rels), PackedAt(st, n), NEW k, k = n + 1,
           NEW start, start = IF st.group = st.size THEN GroupFields(st) ELSE st
    PROVE  Started(start, st, n, k)
<1> DEFINE g == Layout.group[k]
<1>1. k \in 1..Len(Rels) /\ k - 1 = n /\ k \in Nat \ {0} /\ (k = 1 <=> n = 0) /\ Len(Rels) \in Nat
  BY DEF PackedTo
<1>2. PackedReloc(image, Bytes, k)
  BY <1>1 DEF PackedTo, PackedBytes, Rels
<1>3. /\ g.first \in 1..k /\ k < g.first + g.size
      /\ IF k = g.first THEN Ended(Layout, n) /\ GroupSound(image, Bytes, Layout.at[k], g)
                        ELSE Layout.group[n] = g
      /\ ByInfo(g.flags) => g.info = Rels[k].info
  BY <1>1, <1>2, Zenon DEF PackedReloc, Layout, Rels
<1>4. /\ OfWords(st) /\ st.ok = TRUE /\ st.index = n /\ st.count = Layout.count
      /\ st.cur = Layout.at[k]
      /\ n = 0 => st.group = 0 /\ st.size = 0
      /\ n # 0 => /\ Layout.group[n].first \in 1..n /\ st.group = n - Layout.group[n].first + 1
                  /\ st.size = Layout.group[n].size /\ st.flags = Layout.group[n].flags
                  /\ ByDelta(st.flags) => st.delta = Layout.group[n].delta % WordSize
                  /\ st.info = Rels[n].info
  BY <1>1 DEF PackedAt
<1>5. st.size \in Words /\ st.size \in Nat
  BY <1>4, WordModulo DEF OfWords, ItFields
<1> HIDE DEF g
<1>6. CASE k = g.first
  <2>1. GroupSound(image, Bytes, st.cur, g) /\ Ended(Layout, n)
    BY <1>3, <1>4, <1>6
  <2>2. st.group = st.size
    <3>1. CASE n = 0
      BY <1>4, <3>1
    <3>2. CASE n # 0
      <4>1. PICK f \in 1..n : f = Layout.group[n].first
        BY <1>4, <3>2, Zenon
      <4>2. st.group = n - f + 1 /\ f + st.size = n + 1
        BY <1>4, <2>1, <3>2, <4>1, Zenon DEF Ended
      <4> QED BY <1>5, <4>2
    <3> QED BY <3>1, <3>2
  <2>3. start = GroupFields(st)
    BY <2>2
  <2> DEFINE s == GroupFields(st)
  <2>4. /\ OfWords(s) /\ s.ok = TRUE /\ s.cur = EntriesAt(Bytes, st.cur, g.flags)
        /\ s.group = 0 /\ s.size = g.size /\ s.flags = g.flags
        /\ s.count = st.count /\ s.offset = st.offset /\ s.index = st.index
        /\ ByDelta(g.flags) => s.delta = g.delta % WordSize
        /\ ByInfo(g.flags) => s.info = g.info % WordSize
    BY <1>4, <2>1, GroupIs, Zenon DEF PackedTo
  <2> HIDE DEF s
  <2>5. ByInfo(g.flags) => g.info % WordSize = Rels[k].info
    BY <1>1, <1>3, RelWords, WordModulo
  <2>6. s.size \in Words
    BY <2>4 DEF OfWords, ItFields
  <2>7. start = s /\ k - g.first = 0
    BY <1>1, <1>6, <2>3 DEF s
  <2> QED BY <1>3, <1>4, <1>6, <2>4, <2>5, <2>6, <2>7 DEF Started, EntryAt, g
<1>7. CASE k # g.first
  <2>1. Layout.group[n] = g /\ n # 0
    <3>1. Layout.group[n] = g
      BY <1>3, <1>7, Zenon
    <3>2. PICK f \in 1..k : f = g.first
      BY <1>3, Zenon
    <3>3. f # k
      BY <1>7, <3>2
    <3>4. n # 0
      BY <1>1, <3>3
    <3> QED BY <3>1, <3>4
  <2>2. /\ st.group = n - g.first + 1 /\ st.size = g.size /\ st.flags = g.flags
        /\ ByDelta(st.flags) => st.delta = g.delta % WordSize
        /\ st.info = Rels[n].info
    BY <1>4, <2>1
  <2>3. st.group # st.size /\ st.group = k - g.first
    BY <1>1, <1>3, <1>5, <2>2
  <2>4. start = st
    BY <2>3
  <2>5. ByInfo(g.flags) => Rels[n].info = Rels[k].info
    <3>1. n \in 1..Len(Rels)
      BY <1>1, <2>1
    <3>2. PackedReloc(image, Bytes, n)
      BY <3>1 DEF PackedTo, PackedBytes, Rels
    <3>3. ByInfo(g.flags) => g.info = Rels[n].info
      BY <2>1, <3>2, Zenon DEF PackedReloc, Layout, Rels
    <3> QED BY <1>3, <3>3
  <2> QED BY <1>3, <1>4, <1>5, <1>7, <2>2, <2>3, <2>4, <2>5 DEF Started, EntryAt, g
<1> QED BY <1>6, <1>7

LEMMA AdvancedIs ==
    ASSUME PackedTo, NEW st, NEW n \in Nat, n < Len(Rels), PackedAt(st, n), NEW k, k = n + 1,
           NEW next, next = Advanced(st)
    PROVE  PackedAt(next, k) /\ next.offset = Rels[k].offset /\ next.info = Rels[k].info
<1> DEFINE g == Layout.group[k]
           start == IF st.group = st.size THEN GroupFields(st) ELSE st
           offset == ReadIf(start, ~ByDelta(start.flags), "offset")
           info == ReadIf(offset, ~ByInfo(start.flags), "info")
           last == ReadIf(info, self.rela /\ AddendByEntry(start.flags), "addend")
           step == Rels[k].offset - (IF k = 1 THEN Layout.start ELSE Rels[k - 1].offset)
           infoAt == Past(Bytes, EntryAt(k), ~ByDelta(g.flags))
           addendAt == Past(Bytes, infoAt, ~ByInfo(g.flags))
           own == Rela(image) /\ AddendByEntry(g.flags)
<1>1. k \in 1..Len(Rels) /\ k - 1 = n /\ k \in Nat \ {0} /\ (k = 1 <=> n = 0) /\ Len(Rels) \in Nat
  BY DEF PackedTo
<1>2. PackedReloc(image, Bytes, k)
  BY <1>1 DEF PackedTo, PackedBytes, Rels
<1>3. /\ IF ByDelta(g.flags) THEN g.delta = step ELSE Encodes(Bytes, EntryAt(k), step)
      /\ ~ByInfo(g.flags) => Encodes(Bytes, infoAt, Rels[k].info)
      /\ own => HasNumber(Bytes, addendAt)
      /\ Layout.at[k + 1] = Past(Bytes, addendAt, own)
  BY <1>2, Zenon DEF PackedReloc, Layout, Rels, EntryAt
<1>4. next = [last EXCEPT
                !.offset = IF ByDelta(start.flags) THEN (@ + start.delta) % WordSize ELSE @,
                !.index = @ + 1, !.group = @ + 1]
  BY Zenon DEF Advanced
<1>5. /\ OfWords(start) /\ start.ok = TRUE /\ start.cur = EntryAt(k)
      /\ start.index = n /\ start.count = Layout.count /\ start.offset = st.offset
      /\ g.first \in 1..k /\ g.size \in Words /\ k < g.first + g.size
      /\ start.group = k - g.first /\ start.size = g.size /\ start.flags = g.flags
      /\ ByDelta(start.flags) => start.delta = g.delta % WordSize
      /\ ByInfo(start.flags) => start.info = Rels[k].info
  <2>1. start = IF st.group = st.size THEN GroupFields(st) ELSE st
    OBVIOUS
  <2> HIDE DEF start, offset, info, last, step, infoAt, addendAt
  <2>2. Started(start, st, n, k)
    BY <2>1, StartIs, Zenon
  <2> QED BY <2>2 DEF Started
<1>6. Bytes \in Seq(0..255) /\ Len(Bytes) + 1 \in Words /\ (self.rela <=> Rela(image))
  BY DEF PackedTo
<1>7. Rels[k].offset \in Words /\ Rels[k].info \in Words /\ "info" \in Plain
  BY <1>1, RelWords DEF Plain
<1> HIDE DEF g, start, offset, info, last, step, infoAt, addendAt
<1>8. /\ OfWords(offset) /\ offset.ok = TRUE /\ offset.cur = infoAt
      /\ offset.offset = IF ByDelta(g.flags) THEN st.offset
                         ELSE (st.offset + (step % WordSize)) % WordSize
      /\ \A f \in ItFields \ {"offset", "cur"} : offset[f] = start[f]
  <2>1. CASE ByDelta(g.flags)
    BY <1>5, <2>1 DEF offset, ReadIf, infoAt, Past
  <2>2. CASE ~ByDelta(g.flags)
    <3>1. offset = Read(start, "offset") /\ Encodes(Bytes, start.cur, step)
      BY <1>3, <1>5, <2>2 DEF offset, ReadIf
    <3>2. /\ OneRead(start, "offset", offset)
          /\ Holds(offset, "offset", (start.offset + (step % WordSize)) % WordSize)
      BY <1>5, <1>6, <3>1, ReadOffset, Zenon
    <3> QED BY <1>5, <2>2, <3>2 DEF OneRead, Holds, infoAt, Past
  <2> QED BY <2>1, <2>2
<1>9. /\ OfWords(info) /\ info.ok = TRUE /\ info.cur = addendAt
      /\ info.info = Rels[k].info
      /\ \A f \in ItFields \ {"info", "cur"} : info[f] = offset[f]
  <2>1. CASE ByInfo(g.flags)
    BY <1>5, <1>8, <2>1 DEF info, ReadIf, addendAt, Past, ItFields
  <2>2. CASE ~ByInfo(g.flags)
    <3>1. info = Read(offset, "info") /\ Encodes(Bytes, offset.cur, Rels[k].info)
      BY <1>3, <1>5, <1>8, <2>2 DEF info, ReadIf
    <3>2. OneRead(offset, "info", info) /\ Holds(info, "info", Rels[k].info % WordSize)
      BY <1>6, <1>7, <1>8, <3>1, ReadPlain, Zenon
    <3> QED BY <1>7, <1>8, <2>2, <3>2, WordModulo DEF OneRead, Holds, addendAt, Past
  <2> QED BY <2>1, <2>2
<1>10. /\ OfWords(last) /\ last.ok = TRUE /\ last.cur = Layout.at[k + 1]
       /\ \A f \in ItFields \ {"addend", "cur"} : last[f] = info[f]
  <2>1. CASE own
    <3>1. last = Read(info, "addend") /\ HasNumber(Bytes, info.cur)
      BY <1>3, <1>5, <1>6, <1>9, <2>1 DEF last, ReadIf
    <3>2. OneRead(info, "addend", last)
      BY <1>6, <1>9, <3>1, ReadAddend, Zenon
    <3> QED BY <1>3, <1>9, <2>1, <3>2 DEF OneRead, Past
  <2>2. CASE ~own
    BY <1>3, <1>5, <1>6, <1>9, <2>2 DEF last, ReadIf, Past
  <2> QED BY <2>1, <2>2
<1>11. DOMAIN last = ItFields /\ \A f \in ItFields \ {"ok"} : last[f] \in Words
  BY <1>10 DEF OfWords
<1>12. /\ DOMAIN next = ItFields
       /\ next.offset = IF ByDelta(start.flags) THEN (last.offset + start.delta) % WordSize
                        ELSE last.offset
       /\ next.index = last.index + 1 /\ next.group = last.group + 1
       /\ \A f \in ItFields \ {"offset", "index", "group"} : next[f] = last[f]
  BY <1>4, <1>11 DEF ItFields
<1>13. /\ last.index = n /\ last.count = Layout.count /\ last.group = k - g.first
       /\ last.size = g.size /\ last.flags = g.flags /\ last.info = Rels[k].info
       /\ ByDelta(g.flags) => last.delta = g.delta % WordSize
       /\ last.offset = IF ByDelta(g.flags) THEN st.offset
                        ELSE (st.offset + (step % WordSize)) % WordSize
  BY <1>5, <1>8, <1>9, <1>10 DEF ItFields
<1>14. next.offset = Rels[k].offset
  <2>1. st.offset = (IF k = 1 THEN Layout.start ELSE Rels[k - 1].offset) /\ st.offset \in Words
    BY <1>1 DEF PackedAt, OfWords, ItFields
  <2>2. step = Rels[k].offset - st.offset
    BY <2>1 DEF step
  <2>3. (st.offset + (step % WordSize)) % WordSize = Rels[k].offset
    BY <1>7, <2>1, <2>2, StepModulo
  <2>4. ByDelta(g.flags) => g.delta = step
    BY <1>3
  <2> QED BY <1>5, <1>12, <1>13, <2>3, <2>4
<1>15. OfWords(next)
  <2>1. n + 1 \in Words /\ (k - g.first) + 1 \in Words
    <3>1. Layout.count \in Words /\ Layout.count >= Len(Rels)
      BY DEF PackedTo, PackedBytes, Layout, Rels
    <3> QED BY <1>1, <1>5, <3>1, BitsAssumption DEF Words
  <2>2. ASSUME NEW f \in ItFields \ {"ok"} PROVE next[f] \in Words
    <3>1. CASE f = "offset"
      BY <1>7, <1>14, <3>1
    <3>2. CASE f = "index"
      BY <1>12, <1>13, <2>1, <3>2
    <3>3. CASE f = "group"
      BY <1>12, <1>13, <2>1, <3>3
    <3>4. CASE f \notin {"offset", "index", "group"}
      BY <1>11, <1>12, <3>4
    <3> QED BY <3>1, <3>2, <3>3, <3>4
  <2> QED BY <1>12, <2>2 DEF OfWords
<1>16. /\ next.ok = TRUE /\ next.index = k /\ next.count = Layout.count
       /\ next.cur = Layout.at[k + 1] /\ next.group = (k - g.first) + 1
       /\ next.size = g.size /\ next.flags = g.flags /\ next.info = Rels[k].info
       /\ ByDelta(g.flags) => next.delta = g.delta % WordSize
  BY <1>1, <1>10, <1>12, <1>13 DEF ItFields
<1>17. (k - g.first) + 1 = k - g.first + 1 /\ k \in 0..Len(Rels) /\ k # 0
  BY <1>1, <1>5
<1> QED BY <1>5, <1>14, <1>15, <1>16, <1>17 DEF PackedAt, g

\* Nothing is read after a failure.
LEMMA ReadFails ==
    ASSUME NEW st, DOMAIN st = ItFields, NEW has, NEW field, NEW s, s = ReadIf(st, has, field)
    PROVE  DOMAIN s = ItFields /\ (~st.ok => ~s.ok)
<1>1. CASE ~has
  BY <1>1 DEF ReadIf
<1>2. CASE has
  <2>1. s = Read(st, field)
    BY <1>2 DEF ReadIf
  <2>2. CASE ~st.ok \/ Ends(st.cur) = {}
    BY <2>1, <2>2 DEF Read, ItFields
  <2>3. CASE ~(~st.ok \/ Ends(st.cur) = {})
    <3> DEFINE sum == (IF field \in {"offset", "addend"} THEN st[field] ELSE 0)
                      + Decoded(st.cur, Min(Ends(st.cur)))
    <3>1. s = [st EXCEPT ![field] = sum % WordSize, !.cur = Min(Ends(st.cur)) + 1]
      BY <2>1, <2>3 DEF Read
    <3> HIDE DEF sum
    <3> QED BY <2>3, <3>1
  <2> QED BY <2>2, <2>3
<1> QED BY <1>1, <1>2

\* The group behind the relocations, that a table without addends cannot have.
LEMMA StopIs ==
    ASSUME PackedTo, NEW st, PackedAt(st, Len(Rels)), st.index < st.count,
           NEW next, next = Advanced(st)
    PROVE  ~next.ok
<1> DEFINE n == Len(Rels)
           end == Layout.at[n + 1]
           s1 == Read(st, "size")
           s2 == Read(s1, "flags")
           s3 == ReadIf(s2, ByDelta(s2.flags), "delta")
           s4 == ReadIf(s3, ByInfo(s2.flags), "info")
           s5 == ReadIf(s4, AddendByGroup(s2.flags), "addend")
           start == GroupFields(st)
           offset == ReadIf(start, ~ByDelta(start.flags), "offset")
           info == ReadIf(offset, ~ByInfo(start.flags), "info")
           last == ReadIf(info, self.rela /\ AddendByEntry(start.flags), "addend")
<1>1. n \in Nat
  BY DEF PackedTo
<1>2. /\ OfWords(st) /\ st.ok = TRUE /\ st.index = n /\ st.count = Layout.count /\ st.cur = end
      /\ n = 0 => st.group = 0 /\ st.size = 0
      /\ n # 0 => /\ Layout.group[n].first \in 1..n /\ st.group = n - Layout.group[n].first + 1
                  /\ st.size = Layout.group[n].size
  BY DEF PackedAt
<1>3. /\ Layout.count > n
      /\ Ended(Layout, n) /\ ~Rela(image) /\ HasNumber(Bytes, end)
      /\ Layout.stop \in Words /\ AddendByGroup(Layout.stop)
      /\ Encodes(Bytes, Behind(Bytes, end), Layout.stop)
  <2>1. Layout.count \in Words
    BY DEF PackedTo, PackedBytes, Layout
  <2>2. Layout.count > n
    BY <1>1, <1>2, <2>1 DEF Words
  <2> QED BY <2>2, Zenon DEF PackedTo, PackedBytes, Layout, Rels
<1>4. Bytes \in Seq(0..255) /\ Len(Bytes) + 1 \in Words /\ ~self.rela
  BY <1>3 DEF PackedTo
<1>5. st.group = st.size
  <2>1. st.size \in Nat
    BY <1>2, WordModulo DEF OfWords, ItFields
  <2>2. CASE n = 0
    BY <1>2, <2>2
  <2>3. CASE n # 0
    <3>1. PICK f \in 1..n : f = Layout.group[n].first
      BY <1>2, <2>3, Zenon
    <3>2. st.group = n - f + 1 /\ f + st.size = n + 1
      BY <1>2, <1>3, <2>3, <3>1, Zenon DEF Ended
    <3> QED BY <1>1, <2>1, <3>2
  <2> QED BY <2>2, <2>3
<1>6. next = [last EXCEPT
                !.offset = IF ByDelta(start.flags) THEN (@ + start.delta) % WordSize ELSE @,
                !.index = @ + 1, !.group = @ + 1]
  BY <1>5, Zenon DEF Advanced
<1>7. start = [s5 EXCEPT !.group = 0,
                         !.ok = @ /\ (AddendByGroup(s2.flags) => self.rela),
                         !.addend = IF HasAddend(s2.flags) THEN @ ELSE 0]
  BY Zenon DEF GroupFields
<1> HIDE DEF n, end, s1, s2, s3, s4, s5, start, offset, info, last
<1>8. OneRead(st, "size", s1)
  <2>1. "size" \in Numbers
    BY DEF Numbers
  <2> QED BY <1>2, <1>3, <1>4, <2>1, ReadOne, Zenon DEF s1
<1>9. OfWords(s1) /\ s1.ok = TRUE /\ s1.cur = Behind(Bytes, end)
  BY <1>2, <1>8 DEF OneRead
<1>10. OneRead(s1, "flags", s2) /\ Holds(s2, "flags", Layout.stop % WordSize)
  <2>1. "flags" \in Plain
    BY DEF Plain
  <2>2. Encodes(Bytes, s1.cur, Layout.stop)
    BY <1>3, <1>9
  <2> QED BY <1>4, <1>9, <2>1, <2>2, ReadPlain, Zenon DEF s2
<1>11. DOMAIN s2 = ItFields /\ s2.flags = Layout.stop
  BY <1>3, <1>10, WordModulo DEF OneRead, OfWords, Holds
<1>12. DOMAIN s5 = ItFields
  BY <1>11, ReadFails, Zenon DEF s3, s4, s5
<1>13. DOMAIN start = ItFields /\ ~start.ok
  <2>1. AddendByGroup(s2.flags)
    BY <1>3, <1>11
  <2>2. ~(s5.ok /\ (AddendByGroup(s2.flags) => self.rela))
    BY <1>4, <2>1, Zenon
  <2> QED BY <1>7, <1>12, <2>2 DEF ItFields
<1>14. DOMAIN last = ItFields /\ ~last.ok
  <2>1. DOMAIN offset = ItFields /\ ~offset.ok
    BY <1>13, ReadFails, Zenon DEF offset
  <2>2. DOMAIN info = ItFields /\ ~info.ok
    BY <2>1, ReadFails, Zenon DEF info
  <2> QED BY <2>2, ReadFails, Zenon DEF last
<1> QED BY <1>6, <1>14 DEF ItFields

\* The iterator after its first two numbers.
LEMMA FirstIs ==
    ASSUME PackedTo, NEW s, s = Read(Read(NoIterator, "count"), "offset")
    PROVE  PackedAt(s, 0)
<1> DEFINE s1 == Read(NoIterator, "count")
<1>1. Bytes \in Seq(0..255) /\ Len(Bytes) + 1 \in Words /\ Len(Rels) \in Nat
  BY DEF PackedTo
<1>2. /\ Encodes(Bytes, 1, Layout.count) /\ Encodes(Bytes, Behind(Bytes, 1), Layout.start)
      /\ Layout.at[1] = Behind(Bytes, Behind(Bytes, 1))
      /\ Layout.count \in Words /\ Layout.start \in Words
  BY DEF PackedTo, PackedBytes, Layout
<1>3. OfWords(NoIterator) /\ NoIterator.ok = TRUE /\ NoIterator.cur = 1
  <2>1. 0 \in Words /\ 1 \in Words
    BY BitsAssumption DEF Words
  <2> QED BY <2>1 DEF NoIterator, OfWords, ItFields
<1> HIDE DEF s1
<1>4. OneRead(NoIterator, "count", s1) /\ Holds(s1, "count", Layout.count % WordSize)
  <2>1. "count" \in Plain
    BY DEF Plain
  <2>2. Encodes(Bytes, NoIterator.cur, Layout.count)
    BY <1>2, <1>3
  <2> QED BY <1>1, <1>3, <2>1, <2>2, ReadPlain, Zenon DEF s1
<1>5. /\ OfWords(s1) /\ s1.ok = TRUE /\ s1.cur = Behind(Bytes, 1)
      /\ s1.count = Layout.count /\ s1.offset = 0 /\ s1.index = 0 /\ s1.group = 0 /\ s1.size = 0
  <2>1. \A f \in ItFields \ {"count", "cur"} : s1[f] = NoIterator[f]
    BY <1>4, Zenon DEF OneRead
  <2> QED BY <1>2, <1>3, <1>4, <2>1, WordModulo DEF OneRead, Holds, NoIterator, ItFields
<1>6. /\ OneRead(s1, "offset", s)
      /\ Holds(s, "offset", (s1.offset + (Layout.start % WordSize)) % WordSize)
  <2>1. s = Read(s1, "offset") /\ Encodes(Bytes, s1.cur, Layout.start)
    BY <1>2, <1>5 DEF s1
  <2> QED BY <1>1, <1>5, <2>1, ReadOffset, Zenon
<1>7. s.offset = Layout.start
  <2>1. Layout.start % WordSize = Layout.start /\ 0 + Layout.start = Layout.start
    BY <1>2, WordModulo DEF Words
  <2> QED BY <1>5, <1>6, <2>1 DEF Holds
<1>8. /\ OfWords(s) /\ s.ok = TRUE /\ s.cur = Layout.at[1]
      /\ s.count = Layout.count /\ s.index = 0 /\ s.group = 0 /\ s.size = 0
  BY <1>2, <1>5, <1>6 DEF OneRead, ItFields
<1> QED BY <1>1, <1>7, <1>8 DEF PackedAt

-----------------------------------------------------------------------------
(***************************************************************************)
(* Where the packed table is, and whether it has addends, as the dynamic   *)
(* section says.                                                           *)
(***************************************************************************)
\* The packed tables of the images are sound, see XhElf.
AllPackedSound == \A im \in Images : PackedSound(im)

AndroidRead ==
    /\ pc \notin {"init", "done"} =>
          /\ self.android # None =>
                \E k \in Tagged(image, "ANDROID_REL") : self.android = Target(image, k)
          /\ pc = "dynamic" =>
                /\ (\E k \in Tagged(image, "ANDROID_REL") : k < i) => self.android # None
                /\ self.rela <=> Rela(image) /\ \E k \in Tagged(image, "PLTREL") : k < i
          /\ pc # "dynamic" =>
                /\ Tagged(image, "ANDROID_REL") # {} => self.android # None
                /\ self.rela <=> Rela(image)
    /\ pc \notin Parsing => (self.android # None => self.android.magic)

LEMMA ParsedAndroid ==
    ASSUME NEW entry, DOMAIN self = Fields, entry.tag # "ANDROID_REL"
    PROVE  Parsed(entry).android = self.android
<1> DEFINE table == image.at[Pointer(entry)]
<1>1. CASE entry.tag = "HASH"
  <2>1. Parsed(entry) = [self EXCEPT !.bucket = table.bucket, !.chain = table.chain]
    BY <1>1, ParsedHash
  <2> HIDE DEF table
  <2> QED BY <2>1 DEF Fields
<1>2. CASE entry.tag = "GNU_HASH"
  <2>1. Parsed(entry) = [self EXCEPT !.bucket = table.bucket, !.chain = table.chain,
                                     !.symoffset = table.symoffset, !.bloom = table.bloom,
                                     !.shift = table.shift, !.gnu = TRUE]
    BY <1>2, ParsedGnuHash
  <2> HIDE DEF table
  <2> QED BY <2>1 DEF Fields
<1>3. CASE entry.tag \notin {"HASH", "GNU_HASH"}
  <2> DEFINE Same(t) == t.android = self.android
  <2>1. \A v : /\ Same([self EXCEPT !.strtab = v]) /\ Same([self EXCEPT !.rela = v])
               /\ Same([self EXCEPT !.symtab = v]) /\ Same(self)
               /\ Same([self EXCEPT !.relplt = v]) /\ Same([self EXCEPT !.relplt_sz = v])
               /\ Same([self EXCEPT !.reldyn = v]) /\ Same([self EXCEPT !.reldyn_sz = v])
    BY DEF Fields
  <2> HIDE DEF Same
  <2>2. Same(Parsed(entry))
    BY <1>3, <2>1 DEF Parsed
  <2> QED BY <2>2 DEF Same
<1> QED BY <1>1, <1>2, <1>3

LEMMA ParsedRela ==
    ASSUME NEW entry, DOMAIN self = Fields
    PROVE  Parsed(entry).rela <=> IF entry.tag = "PLTREL" THEN entry.val = 1 ELSE self.rela
<1> DEFINE table == image.at[Pointer(entry)]
<1>1. CASE entry.tag = "HASH"
  <2>1. Parsed(entry) = [self EXCEPT !.bucket = table.bucket, !.chain = table.chain]
    BY <1>1, ParsedHash
  <2> HIDE DEF table
  <2> QED BY <1>1, <2>1 DEF Fields
<1>2. CASE entry.tag = "GNU_HASH"
  <2>1. Parsed(entry) = [self EXCEPT !.bucket = table.bucket, !.chain = table.chain,
                                     !.symoffset = table.symoffset, !.bloom = table.bloom,
                                     !.shift = table.shift, !.gnu = TRUE]
    BY <1>2, ParsedGnuHash
  <2> HIDE DEF table
  <2> QED BY <1>2, <2>1 DEF Fields
<1>3. CASE entry.tag = "PLTREL"
  <2>1. Parsed(entry) = [self EXCEPT !.rela = (entry.val = 1)]
    BY <1>3 DEF Parsed
  <2> QED BY <1>3, <2>1 DEF Fields
<1>4. CASE entry.tag \notin {"HASH", "GNU_HASH", "PLTREL"}
  <2> DEFINE Same(t) == t.rela = self.rela
  <2>1. \A v : /\ Same([self EXCEPT !.strtab = v]) /\ Same([self EXCEPT !.android = v])
               /\ Same([self EXCEPT !.symtab = v]) /\ Same(self)
               /\ Same([self EXCEPT !.relplt = v]) /\ Same([self EXCEPT !.relplt_sz = v])
               /\ Same([self EXCEPT !.reldyn = v]) /\ Same([self EXCEPT !.reldyn_sz = v])
    BY DEF Fields
  <2> HIDE DEF Same
  <2>2. Same(Parsed(entry))
    BY <1>4, <2>1 DEF Parsed
  <2> QED BY <1>4, <2>2 DEF Same
<1> QED BY <1>1, <1>2, <1>3, <1>4

LEMMA AndroidInit == Init => AndroidRead
BY DEF Init, AndroidRead, Parsing

LEMMA AndroidInitElf ==
    ASSUME SelfRead, InitElf
    PROVE  AndroidRead'
<1>1. pc = "init" /\ image' = image
  BY DEF InitElf
<1>2. CASE Accepted(image)
  <2>1. pc' = "dynamic" /\ i' = 1 /\ self' = [NoElf EXCEPT !.bias = Bias(image)]
    BY <1>1, <1>2 DEF InitElf, Goto
  <2>2. self'.android = None /\ self'.rela = FALSE
    BY <2>1 DEF NoElf
  <2>3. \A t : \A k \in Tagged(image', t) : k \in Int /\ ~(k < 1)
    BY <1>1 DEF Tagged, Entries
  <2> QED BY <2>1, <2>2, <2>3 DEF AndroidRead, Parsing
<1>3. CASE ~Accepted(image)
  BY <1>1, <1>3 DEF InitElf, Refused, AndroidRead, Parsing
<1> QED BY <1>2, <1>3

LEMMA AndroidDynamic ==
    ASSUME AllPackedSound, SelfRead, AndroidRead, ParseDynamic
    PROVE  AndroidRead'
<1> DEFINE entry == image.dyn[i]
           Android == Tagged(image, "ANDROID_REL")
           Pltrel == Tagged(image, "PLTREL")
<1>1. /\ pc = "dynamic" /\ image' = image /\ image \in Images
      /\ Accepted(image) /\ DOMAIN self = Fields /\ self.bias = Bias(image)
      /\ i \in Nat \ {0} /\ \A l \in 1..(i - 1) : l \in Entries(image)
  BY DEF SelfRead, ParseDynamic
<1>2. /\ self.android # None => \E k \in Android : self.android = Target(image, k)
      /\ (\E k \in Android : k < i) => self.android # None
      /\ self.rela <=> Rela(image) /\ \E k \in Pltrel : k < i
  BY <1>1 DEF AndroidRead
<1>3. /\ \A t, k : Tagged(image', t) = Tagged(image, t) /\ Target(image', k) = Target(image, k)
      /\ Rela(image') <=> Rela(image)
  BY <1>1
<1>4. image.dyn \in Seq([tag : STRING, val : Nat]) /\ Len(image.dyn) \in Nat
  BY <1>1, ImagesAssumption
<1>5. CASE i > Len(image.dyn) \/ entry.tag = "NULL"
  <2>1. pc' = "check" /\ self' = self
    BY <1>1, <1>5 DEF ParseDynamic, Goto
  <2>2. ASSUME NEW t, NEW k \in Tagged(image, t) PROVE k < i
    <3>1. k \in 1..Len(image.dyn) /\ \A l \in 1..k : image.dyn[l].tag # "NULL"
      BY <2>2 DEF Tagged, Entries
    <3> QED BY <1>1, <1>4, <1>5, <3>1
  <2>3. Rela(image) => \E k \in Pltrel : k < i
    BY <2>2 DEF Rela
  <2>4. Android # {} => \E k \in Android : k < i
    BY <2>2
  <2> QED BY <1>2, <1>3, <2>1, <2>3, <2>4 DEF AndroidRead, Parsing
<1>6. CASE Refused
  BY <1>6 DEF AndroidRead, Refused, Parsing
<1>7. CASE /\ ~(i > Len(image.dyn) \/ entry.tag = "NULL")
           /\ self' = Parsed(entry) /\ i' = i + 1 /\ pc' = pc
  <2>1. i \in Entries(image)
    <3>1. i \in 1..Len(image.dyn)
      BY <1>1, <1>4, <1>7
    <3>2. \A l \in 1..(i - 1) : image.dyn[l].tag # "NULL"
      BY <1>1 DEF Entries
    <3>3. \A l \in 1..i : image.dyn[l].tag # "NULL"
      BY <1>1, <1>7, <3>2
    <3> QED BY <3>1, <3>3 DEF Entries
  <2>2. image.at[Pointer(entry)] = Target(image, i)
    BY <1>1 DEF At, Pointer, Target
  <2>3. \A t : i \in Tagged(image, t) <=> entry.tag = t
    BY <2>1 DEF Tagged
  <2>4. \A t : \A k \in Tagged(image, t) : k < i + 1 => k < i \/ k = i
    <3>1. \A t : \A k \in Tagged(image, t) : k \in Int
      BY DEF Tagged, Entries
    <3> QED BY <1>1, <3>1
  <2>5. /\ i \in Android => Target(image, i) # None
        /\ i \in Pltrel => (entry.val = 1 <=> Rela(image))
    BY <1>1 DEF AllPackedSound, PackedSound
  <2>6. i < i + 1 /\ \A t : \A k \in Tagged(image, t) : k < i => k < i + 1
    <3>1. \A t : \A k \in Tagged(image, t) : k \in Int
      BY DEF Tagged, Entries
    <3> QED BY <1>1, <3>1
  <2> HIDE DEF entry, Android, Pltrel
  <2>7. /\ self'.android # None => \E k \in Android : self'.android = Target(image, k)
        /\ (\E k \in Android : k < i + 1) => self'.android # None
    <3>1. CASE entry.tag = "ANDROID_REL"
      <4>1. self'.android = Target(image, i)
        <5>1. Parsed(entry) = [self EXCEPT !.android = image.at[Pointer(entry)]]
          BY <3>1 DEF Parsed
        <5> QED BY <1>1, <1>7, <2>2, <5>1 DEF Fields
      <4> QED BY <2>3, <2>5, <3>1, <4>1 DEF Android
    <3>2. CASE entry.tag # "ANDROID_REL"
      <4>1. self'.android = self.android
        BY <1>1, <1>7, <3>2, ParsedAndroid
      <4>2. i \notin Android
        BY <2>3, <3>2 DEF Android
      <4> QED BY <1>2, <2>4, <4>1, <4>2 DEF Android
    <3> QED BY <3>1, <3>2
  <2>8. self'.rela <=> Rela(image) /\ \E k \in Pltrel : k < i + 1
    <3>1. CASE entry.tag = "PLTREL"
      <4>1. self'.rela <=> entry.val = 1
        BY <1>1, <1>7, <3>1, ParsedRela
      <4>2. i \in Pltrel
        BY <2>3, <3>1 DEF Pltrel
      <4> QED BY <2>5, <2>6, <4>1, <4>2
    <3>2. CASE entry.tag # "PLTREL"
      <4>1. self'.rela <=> self.rela
        BY <1>1, <1>7, <3>2, ParsedRela
      <4>2. i \notin Pltrel
        BY <2>3, <3>2 DEF Pltrel
      <4>3. (\E k \in Pltrel : k < i + 1) <=> (\E k \in Pltrel : k < i)
        BY <2>4, <2>6, <4>2 DEF Pltrel
      <4> QED BY <1>2, <4>1, <4>3
    <3> QED BY <3>1, <3>2
  <2> QED BY <1>1, <1>3, <1>7, <2>7, <2>8 DEF AndroidRead, Parsing, Android, Pltrel
<1> QED BY <1>1, <1>5, <1>6, <1>7 DEF ParseDynamic, Goto

LEMMA AndroidOther ==
    ASSUME SelfRead, PagesInv, AndroidRead, [Next]_vars, ~InitElf, ~ParseDynamic
    PROVE  AndroidRead'
<1>1. CASE UNCHANGED vars
  BY <1>1 DEF vars, AndroidRead, At, Target, Rela, Tagged, Entries
<1>2. CASE ~UNCHANGED vars
  <2>1. UNCHANGED <<image, self>> /\ pc \notin {"init", "dynamic"}
    BY <1>2 DEF Next, Idle, CheckElf, NextHook, SysvLookup, GnuBloom, GnuLookup, GnuUndef, LeavePlt,
                PackedInit, Return, AllHooked, PltTable, DynTable, PackedTable, Looking, Walking,
                Faults, Compare, Unlock, SaveOld, WriteNew, Restore, Replacing
  <2>2. pc' # "dynamic" /\ (pc = "done" => pc' = "done")
    <3>1. CASE Faults \/ Compare \/ Unlock \/ SaveOld \/ WriteNew \/ Restore
      <4>1. pc \in InSlot
        BY <3>1 DEF Faults, Compare, Unlock, SaveOld, WriteNew, Restore, InSlot
      <4>2. pc' \in {"crashed", "save", "unlock", "write", "restore", "return", slot.next}
        BY <3>1 DEF Faults, Compare, Unlock, SaveOld, WriteNew, Restore, Fail, Goto
      <4>3. slot.next \in GoOn
        BY <4>1 DEF PagesInv, SlotKnown
      <4> QED BY <4>1, <4>2, <4>3 DEF GoOn, InSlot
    <3>2. CASE PltTable \/ DynTable \/ PackedTable
      BY <3>2 DEF PltTable, DynTable, PackedTable, Examine, Goto
    <3>3. CASE CheckElf \/ NextHook \/ SysvLookup \/ GnuBloom \/ GnuLookup \/ GnuUndef \/ LeavePlt
               \/ PackedInit \/ Return \/ AllHooked
      BY <3>3 DEF CheckElf, NextHook, SysvLookup, GnuBloom, GnuLookup, GnuUndef, LeavePlt,
                  PackedInit, Return, AllHooked, Goto, Refused, Found, LookOn, NotFound
    <3> QED BY <1>2, <3>1, <3>2, <3>3 DEF Next, Idle
  <2>3. /\ \A t, k : Tagged(image', t) = Tagged(image, t) /\ Target(image', k) = Target(image, k)
        /\ Rela(image') <=> Rela(image)
    BY <2>1
  <2>4. pc' \notin Parsing => (self.android # None => self.android.magic)
    <3>1. CASE CheckElf
      BY <3>1 DEF CheckElf, Refused, Goto, Parsing
    <3>2. CASE ~CheckElf
      <4>1. pc # "check"
        BY <1>2, <3>2 DEF Next, Idle, InitElf, ParseDynamic, NextHook, SysvLookup, GnuBloom,
                GnuLookup, GnuUndef, LeavePlt, PackedInit, Return, AllHooked, PltTable, DynTable,
                PackedTable, Faults, Compare, Unlock, SaveOld, WriteNew, Restore
      <4> QED BY <2>1, <2>2, <4>1 DEF AndroidRead, Parsing
    <3> QED BY <3>1, <3>2
  <2> QED BY <2>1, <2>2, <2>3, <2>4 DEF AndroidRead, Parsing
<1> QED BY <1>1, <1>2

\* Where the packed table is gone through, it is as it was linked.
LEMMA PackedIs ==
    ASSUME AllPackedSound, SelfRead, AndroidRead, pc \notin Parsing
    PROVE  IF self.android = None THEN Rels = <<>> ELSE PackedTo
<1>1. image \in Images /\ Accepted(image)
  BY DEF SelfRead, Parsing
<1>2. /\ self.android # None =>
            self.android.magic /\ \E k \in Tagged(image, "ANDROID_REL") : self.android = Target(image, k)
      /\ Tagged(image, "ANDROID_REL") # {} => self.android # None
      /\ self.rela <=> Rela(image)
  BY DEF AndroidRead, Parsing
<1>3. /\ Tagged(image, "ANDROID_REL") = {} => Rels = <<>>
      /\ \A k \in Tagged(image, "ANDROID_REL") :
            Target(image, k).magic => PackedBytes(image, Target(image, k).bytes)
      /\ Rels \in Seq([offset : Words, info : Words])
  BY <1>1, Zenon DEF AllPackedSound, PackedSound, Rels
<1>4. self.android # None => PackedBytes(image, Bytes)
  BY <1>2, <1>3, Zenon DEF Bytes
<1>5. \A bytes : PackedBytes(image, bytes) => bytes \in Seq(0..255) /\ Len(bytes) + 1 \in Words
  BY Zenon DEF PackedBytes
<1> QED BY <1>2, <1>3, <1>4, <1>5, Zenon DEF PackedTo

-----------------------------------------------------------------------------
(***************************************************************************)
(* What is returned is what was linked, one after the other; in the table  *)
(* the iterator is where the next one begins.                              *)
(***************************************************************************)
PackedRelocs == Seq([offset : Words, info : Words])
FirstRels(s) ==
    /\ s \in PackedRelocs /\ Len(s) <= Len(Rels)
    /\ \A k \in 1..Len(s) : s[k] = Rels[k]
PackedGo ==
    /\ FirstRels(given)
    /\ pc = "packed" \/ Replaces("packed") => self.android # None /\ PackedAt(it, Len(given))
    /\ pc \notin {"packed", "return", "crashed"} \cup Begun /\ ~Replaces("packed") => given = <<>>
    /\ pc = "return" /\ result = "ok" /\ symidx # None => given = Rels
PackedInv == HashInv /\ AndroidRead /\ PackedGo

LEMMA PackedRels ==
    ASSUME AllPackedSound, image \in Images
    PROVE  Rels \in PackedRelocs /\ Len(Rels) \in Nat
<1>1. Rels \in PackedRelocs
  BY Zenon DEF AllPackedSound, PackedSound, PackedRelocs, Rels
<1> QED BY <1>1 DEF PackedRelocs

LEMMA FirstNone ==
    ASSUME AllPackedSound, image \in Images
    PROVE  FirstRels(<<>>)
BY PackedRels DEF FirstRels, PackedRelocs

LEMMA PackedStart ==
    ASSUME AllPackedSound
    PROVE  Init => PackedInv
<1> SUFFICES ASSUME Init PROVE PackedInv
  OBVIOUS
<1>1. HashInv /\ AndroidRead
  BY HashInit, AndroidInit
<1>2. PackedGo
  BY FirstNone DEF Init, PackedGo, Replaces, InSlot, Begun, Parsing
<1> QED BY <1>1, <1>2 DEF PackedInv

\* Steps that do not go on in the table.
LEMMA PackedVoid ==
    ASSUME AllPackedSound, PackedInv, image' = image,
           given' = <<>> \/ (given' = given /\ pc' \in {"return", "crashed"} \cup Begun),
           pc' # "packed", ~(Replaces("packed"))',
           pc' = "return" => result' # "ok" \/ symidx' = None
    PROVE  PackedGo'
<1>1. image \in Images
  BY DEF PackedInv, HashInv, SelfRead
<1>2. Rels' = Rels
  BY DEF Rels
<1>3. FirstRels(<<>>)
  BY <1>1, FirstNone
<1>4. FirstRels(given)
  BY DEF PackedInv, PackedGo
<1>5. (FirstRels(given))'
  BY <1>2, <1>3, <1>4 DEF FirstRels
<1> QED BY <1>5 DEF PackedGo

LEMMA PackedElsewhere ==
    ASSUME AllPackedSound, PackedInv,
           \/ InitElf \/ ParseDynamic \/ CheckElf \/ NextHook \/ Return \/ AllHooked
           \/ SysvLookup \/ GnuBloom \/ GnuLookup \/ GnuUndef \/ LeavePlt
    PROVE  PackedGo'
<1>1. pc' \notin InSlot /\ pc' # "packed" /\ image' = image
  BY DEF InitElf, ParseDynamic, CheckElf, NextHook, Return, AllHooked, SysvLookup, GnuBloom, GnuLookup,
         GnuUndef, LeavePlt, Refused, Looking, Walking, Goto, Found, LookOn, NotFound, InSlot
<1>2. ~(Replaces("packed"))'
  BY <1>1 DEF Replaces
<1>3. CASE InitElf \/ ParseDynamic \/ CheckElf \/ Return \/ AllHooked
  <2>1. given' = given /\ pc' \in Begun /\ pc' # "return"
    BY <1>3 DEF InitElf, ParseDynamic, CheckElf, Return, AllHooked, Hooking, Refused, Goto, Begun, Parsing
  <2> QED BY <1>1, <1>2, <2>1, PackedVoid
<1>4. CASE NextHook
  <2>1. given' = <<>> /\ pc' # "return"
    BY <1>4 DEF NextHook, Goto
  <2> QED BY <1>1, <1>2, <2>1, PackedVoid
<1>5. CASE SysvLookup \/ GnuBloom \/ GnuLookup \/ GnuUndef
  <2>1. given' = given /\ pc \in Search
    BY <1>5 DEF SysvLookup, GnuBloom, GnuLookup, GnuUndef, Looking, Search
  <2>2. given = <<>> /\ symidx = None
    BY <2>1 DEF PackedInv, PackedGo, HashInv, Finding, Looked, Search, Replaces, InSlot, Begun, Parsing
  <2>3. pc' = "return" => symidx' = None
    BY <1>5, <2>2 DEF SysvLookup, GnuBloom, GnuLookup, GnuUndef, Found, LookOn, NotFound, Goto
  <2> QED BY <1>1, <1>2, <2>1, <2>2, <2>3, PackedVoid
<1>6. CASE LeavePlt
  <2>1. given' = given /\ pc = "leaveplt" /\ pc' # "return"
    BY <1>6 DEF LeavePlt, Walking, Goto
  <2>2. given = <<>>
    BY <2>1 DEF PackedInv, PackedGo, Replaces, InSlot, Begun, Parsing
  <2> QED BY <1>1, <1>2, <2>1, <2>2, PackedVoid
<1> QED BY <1>3, <1>4, <1>5, <1>6

LEMMA PackedPlain ==
    ASSUME AllPackedSound, PackedInv, PltTable \/ DynTable
    PROVE  PackedGo'
<1>1. given' = given /\ pc \in {"plt", "dyn"} /\ image' = image
  BY DEF PltTable, DynTable, Walking
<1>2. given = <<>>
  BY <1>1 DEF PackedInv, PackedGo, Replaces, InSlot, Begun, Parsing
<1>3. \/ pc' \in {pc, "leaveplt", "packed0"}
      \/ pc' = "return" /\ result' = "error"
      \/ pc' = "compare" /\ slot'.next \in {"leaveplt", "dyn"}
  <2>1. CASE PltTable
    <3>1. pc' = "leaveplt" \/ Examine(image.at[self.relplt + i'], TRUE, "leaveplt")
      BY <2>1 DEF PltTable, Goto
    <3> QED BY <3>1, ExamineIs
  <2>2. CASE DynTable
    <3>1. pc' = "packed0" \/ Examine(image.at[self.reldyn + i'], FALSE, "dyn")
      BY <2>2 DEF DynTable, Goto
    <3> QED BY <3>1, ExamineIs
  <2> QED BY <2>1, <2>2
<1>4. pc' # "packed" /\ ~(Replaces("packed"))' /\ (pc' = "return" => result' # "ok")
  BY <1>1, <1>3 DEF Replaces, InSlot
<1> QED BY <1>1, <1>2, <1>4, PackedVoid

LEMMA PackedBegin ==
    ASSUME AllPackedSound, PackedInv, PackedInit
    PROVE  PackedGo'
<1>1. /\ pc = "packed0" /\ UNCHANGED <<image, self, given>>
      /\ IF self.android = None THEN pc' = "return"
         ELSE pc' = "packed" /\ it' = Read(Read(NoIterator, "count"), "offset")
  BY DEF PackedInit, Walking, Goto
<1>2. given = <<>> /\ FirstRels(given)
  BY <1>1 DEF PackedInv, PackedGo, Replaces, InSlot, Begun, Parsing
<1>3. IF self.android = None THEN Rels = <<>> ELSE PackedTo
  BY <1>1, PackedIs DEF PackedInv, HashInv, Parsing
<1>4. Rels' = Rels /\ (FirstRels(given))'
  BY <1>1, <1>2 DEF Rels, FirstRels
<1>5. CASE self.android = None
  <2>1. pc' = "return" /\ given' = Rels'
    BY <1>1, <1>2, <1>3, <1>4, <1>5
  <2> QED BY <1>4, <2>1 DEF PackedGo, Replaces, InSlot
<1>6. CASE self.android # None
  <2>1. PackedAt(it', 0) /\ Len(given) = 0
    BY <1>1, <1>2, <1>3, <1>6, FirstIs
  <2>2. (PackedAt(it, Len(given)))'
    <3>1. \A s : (PackedAt(s, 0))' <=> PackedAt(s, 0)
      BY <1>1, <1>4 DEF PackedAt, Layout
    <3> QED BY <1>1, <2>1, <3>1 DEF PackedAt, Layout, Rels
  <2> QED BY <1>1, <1>4, <1>6, <2>2 DEF PackedGo, Replaces, InSlot
<1> QED BY <1>5, <1>6

\* A turn of the loop that hands out a relocation, hands out the next one.
LEMMA PackedTurn ==
    ASSUME AllPackedSound, PackedInv, pc = "packed", it.index < it.count,
           NEW next, next = Advanced(it), next.ok
    PROVE  /\ Len(given) + 1 \in 1..Len(Rels) /\ PackedAt(next, Len(given) + 1)
           /\ next.offset = Rels[Len(given) + 1].offset
           /\ next.info = Rels[Len(given) + 1].info
<1> DEFINE n == Len(given)
<1>1. FirstRels(given) /\ self.android # None /\ PackedAt(it, n)
  BY DEF PackedInv, PackedGo
<1>2. PackedTo
  BY <1>1, PackedIs DEF PackedInv, HashInv, Parsing
<1>3. n \in Nat /\ n <= Len(Rels) /\ Len(Rels) \in Nat
  BY <1>1, <1>2 DEF FirstRels, PackedRelocs, PackedTo
<1> HIDE DEF n
<1>4. n < Len(Rels)
  <2>1. CASE n = Len(Rels)
    <3>1. PackedAt(it, Len(Rels))
      BY <1>1, <2>1
    <3>2. ~next.ok
      BY <1>2, <3>1, StopIs, Zenon
    <3> QED BY <3>2
  <2> QED BY <1>3, <2>1
<1>5. PackedAt(next, n + 1) /\ next.offset = Rels[n + 1].offset /\ next.info = Rels[n + 1].info
  BY <1>1, <1>2, <1>3, <1>4, AdvancedIs
<1> QED BY <1>3, <1>4, <1>5 DEF n

LEMMA PackedGoesOn ==
    ASSUME AllPackedSound, PackedInv, PackedTable
    PROVE  PackedGo'
<1> DEFINE next == Advanced(it)
           rel == [offset |-> next.offset, info |-> next.info]
           n == Len(given)
<1>1. /\ pc = "packed" /\ UNCHANGED <<image, self, symidx>>
      /\ IF it.index < it.count /\ next.ok
         THEN it' = next /\ given' = Append(given, rel) /\ Examine(rel, FALSE, "packed")
         ELSE pc' = "return" /\ UNCHANGED given
  BY DEF PackedTable, Walking, Goto
<1>2. /\ FirstRels(given) /\ self.android # None /\ PackedAt(it, n)
  BY <1>1 DEF PackedInv, PackedGo
<1>3. PackedTo
  BY <1>1, <1>2, PackedIs DEF PackedInv, HashInv, Parsing
<1>4. n \in Nat /\ n <= Len(Rels) /\ Len(Rels) \in Nat /\ given \in PackedRelocs /\ Rels \in PackedRelocs
  BY <1>2, <1>3 DEF FirstRels, PackedRelocs, PackedTo
<1>5. Rels' = Rels /\ \A s : (FirstRels(s))' <=> FirstRels(s)
  BY <1>1 DEF Rels, FirstRels
<1>6. it.index = n /\ it.count = Layout.count /\ Layout.count >= Len(Rels)
  BY <1>2, <1>3 DEF PackedAt, PackedTo, PackedBytes, Layout, Rels
<1> HIDE DEF next, n
<1>7. CASE it.index < it.count /\ next.ok
  <2>1. n + 1 \in 1..Len(Rels) /\ n < Len(Rels)
    BY <1>1, <1>4, <1>7, PackedTurn DEF next, n
  <2>2. PackedAt(next, n + 1) /\ next.offset = Rels[n + 1].offset /\ next.info = Rels[n + 1].info
    BY <1>1, <1>7, PackedTurn DEF next, n
  <2>3. n + 1 \in 1..Len(Rels)
    BY <2>1
  <2>4. rel = Rels[n + 1] /\ rel \in [offset : Words, info : Words]
    <3>1. Rels[n + 1] \in [offset : Words, info : Words]
      BY <1>4, <2>3, ElementIn DEF PackedRelocs
    <3> QED BY <2>2, <3>1
  <2> HIDE DEF rel
  <2>5. given' = Append(given, rel) /\ it' = next /\ Examine(rel, FALSE, "packed")
    BY <1>1, <1>7, Zenon
  <2>6. Len(given') = n + 1 /\ given' \in PackedRelocs
    BY <1>4, <2>4, <2>5 DEF PackedRelocs, n
  <2>7. FirstRels(given')
    <3>1. ASSUME NEW k \in 1..(n + 1) PROVE given'[k] = Rels[k]
      <4>1. CASE k = n + 1
        BY <1>4, <2>4, <2>5, <4>1 DEF PackedRelocs, n
      <4>2. CASE k # n + 1
        <5>1. k \in 1..n
          BY <1>4, <4>2
        <5>2. given'[k] = given[k]
          BY <1>4, <2>5, <5>1 DEF PackedRelocs, n
        <5> QED BY <1>2, <5>1, <5>2 DEF FirstRels, n
      <4> QED BY <4>1, <4>2
    <3> QED BY <1>4, <2>3, <2>6, <3>1 DEF FirstRels
  <2>8. (FirstRels(given))'
    BY <1>5, <2>7 DEF FirstRels
  <2>9. (PackedAt(it, Len(given)))'
    <3>1. PackedAt(it', Len(given'))
      BY <2>2, <2>5, <2>6
    <3> QED BY <1>1, <1>5, <3>1 DEF PackedAt, Layout
  <2>10. \/ UNCHANGED pc
         \/ pc' = "return" /\ result' = "error"
         \/ pc' = "compare" /\ slot'.next = "packed"
    BY <2>5, ExamineIs
  <2> QED BY <1>1, <1>2, <2>8, <2>9, <2>10 DEF PackedGo, Replaces, InSlot
<1>8. CASE ~(it.index < it.count /\ next.ok)
  <2>1. pc' = "return" /\ given' = given
    BY <1>1, <1>8, Zenon
  <2>2. n = Len(Rels)
    <3>1. CASE n < Len(Rels)
      <4>1. PackedAt(next, n + 1)
        BY <1>2, <1>3, <1>4, <3>1, AdvancedIs DEF next
      <4>2. next.ok = TRUE
        BY <4>1 DEF PackedAt
      <4>3. Layout.count \in Int
        BY <1>3, BitsAssumption DEF PackedTo, PackedBytes, Layout, Words
      <4> QED BY <1>4, <1>6, <1>8, <3>1, <4>2, <4>3
    <3> QED BY <1>4, <3>1
  <2>3. given = Rels
    BY <1>2, <1>4, <2>2 DEF FirstRels, PackedRelocs, n
  <2> QED BY <1>2, <1>5, <2>1, <2>3 DEF PackedGo, Replaces, InSlot, FirstRels
<1> QED BY <1>7, <1>8

\* While a slot is replaced, the iterator stays where the next one begins.
LEMMA PackedSlots ==
    ASSUME AllPackedSound, PackedInv, SlotStep
    PROVE  PackedGo'
<1>1. /\ UNCHANGED <<image, self, symidx, it, given>> /\ pc \in InSlot
      /\ pc' \in {"crashed", "save", "unlock", "write", "restore", "return", slot.next}
      /\ pc' = "return" => result' = "error"
  <2>1. /\ UNCHANGED <<image, self, symidx, it, given>> /\ pc \in InSlot
        /\ pc' \in {"crashed", "save", "unlock", "write", "restore", "return", slot.next}
    BY DEF SlotStep, Faults, Compare, Unlock, SaveOld, WriteNew, Restore, Replacing, InSlot, Fail, Goto
  <2>2. slot.next # "return"
    BY <2>1 DEF PackedInv, HashInv, PagesInv, SlotKnown, GoOn
  <2>3. pc' = "return" => result' = "error"
    BY <2>2 DEF SlotStep, Faults, Compare, Unlock, SaveOld, WriteNew, Restore, Fail, Goto
  <2> QED BY <2>1, <2>3
<1>2. slot'.next = slot.next /\ slot.next \in GoOn
  BY <1>1
     DEF SlotStep, Faults, Compare, Unlock, SaveOld, WriteNew, Restore, Replacing, Fail,
         PackedInv, HashInv, PagesInv, SlotKnown
<1>3. Rels' = Rels /\ (FirstRels(given))'
  BY <1>1 DEF Rels, FirstRels, PackedInv, PackedGo
<1>4. (PackedAt(it, Len(given)))' <=> PackedAt(it, Len(given))
  BY <1>1, <1>3 DEF PackedAt, Layout
<1>5. CASE slot.next = "packed"
  <2>1. self.android # None /\ PackedAt(it, Len(given))
    BY <1>1, <1>5 DEF PackedInv, PackedGo, Replaces
  <2>2. pc' \in {"packed", "return", "crashed"} \/ (Replaces("packed"))'
    BY <1>1, <1>2, <1>5 DEF Replaces, InSlot
  <2> QED BY <1>1, <1>3, <1>4, <2>1, <2>2 DEF PackedGo
<1>6. CASE slot.next # "packed"
  <2>1. given = <<>>
    BY <1>1, <1>6 DEF PackedInv, PackedGo, Replaces, InSlot, Begun, Parsing
  <2>2. pc' # "packed" /\ ~(Replaces("packed"))' /\ (pc' = "return" => result' # "ok")
    BY <1>1, <1>2, <1>6 DEF Replaces, InSlot, GoOn
  <2> QED BY <1>1, <2>1, <2>2, PackedVoid
<1> QED BY <1>5, <1>6

LEMMA PackedNext ==
    ASSUME AllHashesSound, AllPackedSound, PackedInv, [Next]_vars
    PROVE  PackedInv'
<1>1. HashInv /\ AndroidRead /\ PackedGo /\ SelfRead /\ PagesInv
  BY DEF PackedInv, HashInv
<1>2. HashInv'
  BY <1>1, HashNext
<1>3. AndroidRead'
  BY <1>1, AndroidInitElf, AndroidDynamic, AndroidOther
<1>4. CASE UNCHANGED vars
  <2>1. UNCHANGED <<image, self, pc, symidx, it, given, slot, result>>
    BY <1>4 DEF vars
  <2>2. Rels' = Rels /\ Layout' = Layout
    BY <2>1 DEF Rels, Layout
  <2>3. /\ ((FirstRels(given))' <=> FirstRels(given))
        /\ ((PackedAt(it, Len(given)))' <=> PackedAt(it, Len(given)))
        /\ ((Replaces("packed"))' <=> Replaces("packed"))
    BY <2>1, <2>2 DEF FirstRels, PackedAt, Replaces
  <2>4. PackedGo'
    BY <1>1, <2>1, <2>2, <2>3 DEF PackedGo
  <2> QED BY <1>2, <1>3, <2>4 DEF PackedInv
<1>5. CASE ~UNCHANGED vars
  <2>1. PackedGo'
    BY <1>5, PackedElsewhere, PackedPlain, PackedBegin, PackedGoesOn, PackedSlots
       DEF Next, Idle, SlotStep
  <2> QED BY <1>2, <1>3, <2>1 DEF PackedInv
<1> QED BY <1>4, <1>5

LEMMA PackedKnown ==
    ASSUME AllPackedSound, PackedInv
    PROVE  PackedExact
<1>1. Rels \in PackedRelocs /\ Len(Rels) \in Nat /\ FirstRels(given)
  BY PackedRels DEF PackedInv, HashInv, SelfRead, PackedGo
<1>2. given \in PackedRelocs /\ Len(given) \in Nat /\ Len(given) <= Len(Rels)
  BY <1>1 DEF FirstRels, PackedRelocs
<1>3. IsPrefix(given, Rels)
  <2>1. \A k \in 1..Len(given) : given[k] = Rels[k]
    BY <1>1 DEF FirstRels
  <2> QED BY <1>1, <1>2, <2>1 DEF IsPrefix, PackedRelocs
<1>4. pc = "return" /\ result = "ok" /\ symidx # None => given = Rels
  BY DEF PackedInv, PackedGo
<1> QED BY <1>3, <1>4 DEF PackedExact, Rels

\* The packed table hands out the relocations that were encoded, in order and all of
\* them, however they were put into groups, in any image whose packed table is sound
\* (96-255).
THEOREM PackedIsExact == AllHashesSound /\ AllPackedSound => (Spec => []PackedExact)
<1> SUFFICES ASSUME AllHashesSound, AllPackedSound PROVE Spec => []PackedExact
  OBVIOUS
<1>1. PackedInv /\ [Next]_vars => PackedInv'
  BY PackedNext
<1>2. PackedInv => PackedExact
  BY PackedKnown
<1> QED BY <1>1, <1>2, PackedStart, PTL DEF Spec

-----------------------------------------------------------------------------
(***************************************************************************)
(* The values of the variables.                                            *)
(***************************************************************************)
Steps == {"init", "dynamic", "check", "next", "sysv", "bloom", "gnu", "undef", "plt", "leaveplt",
          "dyn", "packed0", "packed", "compare", "unlock", "save", "write", "restore", "return",
          "done", "crashed"}
TypeInv ==
    /\ PackedInv
    /\ pc \in Steps /\ i \in Nat /\ OfWords(it) /\ result \in {"none", "ok", "error"}

LEMMA TypeInit ==
    ASSUME AllPackedSound
    PROVE  Init => TypeInv
<1> SUFFICES ASSUME Init PROVE TypeInv
  OBVIOUS
<1>1. OfWords(NoIterator)
  <2>1. 0 \in Words /\ 1 \in Words
    BY BitsAssumption DEF Words
  <2> QED BY <2>1 DEF NoIterator, OfWords, ItFields
<1> QED BY <1>1, PackedStart DEF Init, TypeInv, Steps

LEMMA StepTypes ==
    ASSUME TypeInv, [Next]_vars
    PROVE  pc' \in Steps /\ result' \in {"none", "ok", "error"}
<1>1. pc \in Steps /\ result \in {"none", "ok", "error"}
  BY DEF TypeInv
<1>2. CASE UNCHANGED vars
  BY <1>1, <1>2 DEF vars
<1>3. CASE InitElf \/ ParseDynamic \/ CheckElf \/ NextHook \/ Return \/ AllHooked
  BY <1>1, <1>3 DEF InitElf, ParseDynamic, CheckElf, NextHook, Return, AllHooked, Refused, Going, Goto,
                    Steps
<1>4. CASE SysvLookup \/ GnuBloom \/ GnuLookup \/ GnuUndef
  BY <1>1, <1>4 DEF SysvLookup, GnuBloom, GnuLookup, GnuUndef, Looking, Found, LookOn, NotFound, Goto,
                    Steps
<1>5. CASE LeavePlt \/ PackedInit
  BY <1>1, <1>5 DEF LeavePlt, PackedInit, Goto, Steps
<1>6. CASE PltTable \/ DynTable \/ PackedTable
  <2>1. ASSUME NEW rel, NEW isPlt, NEW next \in Steps, Examine(rel, isPlt, next)
        PROVE  pc' \in Steps /\ result' \in {"none", "ok", "error"}
    BY <1>1, <2>1 DEF Examine, Goto, Steps
  <2>2. {"leaveplt", "dyn", "packed"} \subseteq Steps
    BY DEF Steps
  <2>3. CASE PltTable
    BY <1>1, <2>1, <2>2, <2>3 DEF PltTable, Goto
  <2>4. CASE DynTable
    <3>1. (pc' = "packed0" /\ UNCHANGED result) \/ (\E rel : Examine(rel, FALSE, "dyn"))
      BY <2>4 DEF DynTable, Goto
    <3> QED BY <1>1, <2>1, <2>2, <3>1 DEF Steps
  <2>5. CASE PackedTable
    <3>1. (pc' = "return" /\ UNCHANGED result) \/ (\E rel : Examine(rel, FALSE, "packed"))
      BY <2>5 DEF PackedTable, Goto
    <3> QED BY <1>1, <2>1, <2>2, <3>1 DEF Steps
  <2> QED BY <1>6, <2>3, <2>4, <2>5
<1>7. CASE SlotStep
  <2>1. pc \in InSlot
    BY <1>7 DEF SlotStep, Faults, Compare, Unlock, SaveOld, WriteNew, Restore, InSlot
  <2>2. slot.next \in Steps
    BY <2>1 DEF TypeInv, PackedInv, HashInv, PagesInv, SlotKnown, GoOn, Steps
  <2> QED BY <1>1, <1>7, <2>2
          DEF SlotStep, Faults, Compare, Unlock, SaveOld, WriteNew, Restore, Fail, Goto, Steps
<1> QED BY <1>2, <1>3, <1>4, <1>5, <1>6, <1>7 DEF Next, Idle, SlotStep

\* In the lookups, where the counter is is known; elsewhere it counts.
LEMMA CounterNat ==
    ASSUME TypeInv, HashInv', [Next]_vars
    PROVE  i' \in Nat
<1>1. i \in Nat
  BY DEF TypeInv
<1>2. CASE pc' \in {"sysv", "gnu", "undef"}
  <2>1. (pc \notin {"init", "done"} => (self.gnu => GnuSound(image.names, self)))'
    BY DEF HashInv, SelfRead
  <2>2. (Ahead)'
    BY DEF HashInv, Finding
  <2>3. CASE pc' = "sysv"
    BY <2>2, <2>3 DEF Ahead, Indices
  <2>4. CASE pc' # "sysv"
    <3>1. self'.gnu /\ GnuSound(image'.names, self')
      BY <1>2, <2>1, <2>2, <2>4 DEF Ahead, GnuSound, LowBit
    <3>2. self'.symoffset \in Int /\ self'.symoffset >= 0
      BY <3>1 DEF GnuSound
    <3> QED BY <1>2, <2>2, <2>4, <3>2 DEF Ahead
  <2> QED BY <2>3, <2>4
<1>3. CASE pc' \notin {"sysv", "gnu", "undef"}
  <2>1. i' \in {0, 1, i, i + 1}
    <3>1. CASE UNCHANGED vars
      BY <3>1 DEF vars
    <3>2. CASE InitElf \/ ParseDynamic \/ CheckElf \/ NextHook \/ Return \/ AllHooked
      BY <1>3, <3>2 DEF InitElf, ParseDynamic, CheckElf, NextHook, Return, AllHooked, Goto
    <3>3. CASE SysvLookup \/ GnuBloom \/ GnuLookup \/ GnuUndef
      BY <1>3, <3>3 DEF SysvLookup, GnuBloom, GnuLookup, GnuUndef, Found, LookOn, NotFound, Goto
    <3>4. CASE LeavePlt \/ PackedInit \/ PltTable \/ DynTable \/ PackedTable
      BY <3>4 DEF LeavePlt, PackedInit, PltTable, DynTable, PackedTable
    <3>5. CASE SlotStep
      BY <3>5 DEF SlotStep, Faults, Compare, Unlock, SaveOld, WriteNew, Restore, Replacing
    <3> QED BY <3>1, <3>2, <3>3, <3>4, <3>5 DEF Next, Idle, SlotStep
  <2> QED BY <1>1, <2>1
<1> QED BY <1>2, <1>3

LEMMA IteratorWords ==
    ASSUME AllPackedSound, TypeInv, PackedInv', [Next]_vars
    PROVE  OfWords(it')
<1>1. OfWords(it) /\ PackedInv
  BY DEF TypeInv
<1>2. CASE PackedInit
  <2>1. it' = it \/ pc' = "packed"
    BY <1>2 DEF PackedInit, Goto
  <2>2. (pc = "packed" => OfWords(it))'
    BY DEF PackedInv, PackedGo, PackedAt, OfWords
  <2> QED BY <1>1, <2>1, <2>2 DEF OfWords
<1>3. CASE PackedTable
  <2> DEFINE next == Advanced(it)
  <2>1. pc = "packed" /\ (it' = it \/ (it.index < it.count /\ next.ok /\ it' = next))
    BY <1>3 DEF PackedTable
  <2> HIDE DEF next
  <2>2. CASE it.index < it.count /\ next.ok /\ it' = next
    <3>1. PackedAt(next, Len(given) + 1)
      BY <1>1, <2>1, <2>2, PackedTurn DEF next
    <3> QED BY <2>2, <3>1 DEF PackedAt
  <2> QED BY <1>1, <2>1, <2>2
<1>4. CASE ~PackedInit /\ ~PackedTable
  <2>1. UNCHANGED it
    BY <1>4 DEF Next, Idle, vars, InitElf, ParseDynamic, CheckElf, NextHook, SysvLookup, GnuBloom,
                GnuLookup, GnuUndef, LeavePlt, Return, AllHooked, PltTable, DynTable, Looking, Walking,
                Hooking, Faults, Compare, Unlock, SaveOld, WriteNew, Restore, Replacing
  <2> QED BY <1>1, <2>1
<1> QED BY <1>2, <1>3, <1>4

LEMMA TypeNext ==
    ASSUME AllHashesSound, AllPackedSound, TypeInv, [Next]_vars
    PROVE  TypeInv'
<1>1. PackedInv' /\ HashInv'
  BY PackedNext DEF TypeInv, PackedInv
<1>2. (OfWords(it))'
  BY <1>1, IteratorWords DEF OfWords
<1> QED BY <1>1, <1>2, StepTypes, CounterNat DEF TypeInv

LEMMA TypeKnown ==
    ASSUME TypeInv
    PROVE  TypeOK
<1>1. symidx \in {None} \cup Nat
  <2>1. symidx # None => symidx \in Indices(image.names)
    BY DEF TypeInv, PackedInv, HashInv, Finding, Looked, Named
  <2> QED BY <2>1 DEF Indices
<1>2. prot \in [DOMAIN image.prot -> Protections]
  BY DEF TypeInv, PackedInv, HashInv, PagesInv
<1>3. \A field \in DOMAIN it \ {"ok"} : it[field] \in Words
  BY DEF TypeInv, OfWords
<1> QED BY <1>1, <1>2, <1>3 DEF TypeInv, TypeOK, Steps

\* The variables take the values they should in any image whose hash tables and
\* packed table are sound: no lookup leaves the symbols, and what the iterator
\* computes stays in a word (96-445).
THEOREM TypeCorrect == AllHashesSound /\ AllPackedSound => (Spec => []TypeOK)
<1> SUFFICES ASSUME AllHashesSound, AllPackedSound PROVE Spec => []TypeOK
  OBVIOUS
<1>1. TypeInv /\ [Next]_vars => TypeInv'
  BY TypeNext
<1>2. TypeInv => TypeOK
  BY TypeKnown
<1> QED BY <1>1, <1>2, TypeInit, PTL DEF Spec

-----------------------------------------------------------------------------
(***************************************************************************)
(* The slots, with all of this.                                            *)
(***************************************************************************)
SlotsInv == HashInv /\ TablesRead /\ WalkInv /\ MemInv

LEMMA SlotsInit == Init => SlotsInv
BY HashInit, WalkInit DEF SlotsInv

LEMMA TablesNext ==
    ASSUME AllRelocsSound, SlotsInv, [Next]_vars
    PROVE  TablesRead'
BY TablesInitElf, TablesDynamic, TablesOther DEF SlotsInv, HashInv

LEMMA WalkNext ==
    ASSUME AllHashesSound, AllRelocsSound, SlotsInv, PackedExact', [Next]_vars
    PROVE  WalkInv'
<1>1. Known /\ PagesInv /\ WalkInv /\ MemInv
  BY DEF SlotsInv, Known, HashInv
<1>2. CASE UNCHANGED vars
  <2>1. UNCHANGED <<image, todo, i, pc, slot, mem, given, symidx, result>>
    BY <1>2 DEF vars
  <2>2. (DynUpTo(i + 1))' = DynUpTo(i + 1) /\ GivenSlots' = GivenSlots
    <3>1. Name' = Name
      BY <2>1 DEF Name
    <3> QED BY <2>1, <3>1 DEF DynUpTo, GivenSlots
  <2>3. /\ Name' = Name
        /\ (PltSlots(image, Name, 2))' = PltSlots(image, Name, 2)
        /\ (DynSlots(image, Name, 2))' = DynSlots(image, Name, 2)
        /\ (AndroidSlots(image, Name))' = AndroidSlots(image, Name)
    BY <2>1, SameSlots
  <2>4. \A S : ((Written(S))' <=> Written(S)) /\ ((WrittenBut(S))' <=> WrittenBut(S))
    BY <2>1, <2>3 DEF Written, WrittenBut
  <2>5. PltWalk'
    BY <1>1, <2>1, <2>3 DEF WalkInv, PltWalk, Replaces
  <2>6. PltDone' /\ DynDone' /\ AllDone'
    BY <1>1, <2>1, <2>2, <2>3, <2>4 DEF WalkInv, PltDone, DynDone, AllDone, Replaces
  <2>7. DynWalk'
    BY <1>1, <2>1, <2>2, <2>3, <2>4 DEF WalkInv, DynWalk, Replaces
  <2>8. PackedWalk'
    BY <1>1, <2>1, <2>2, <2>3, <2>4 DEF WalkInv, PackedWalk, Replaces
  <2> QED BY <2>5, <2>6, <2>7, <2>8 DEF WalkInv
<1>3. CASE InitElf \/ ParseDynamic \/ CheckElf \/ Return \/ AllHooked
  BY <1>1, <1>3, WalkParse
<1>4. CASE NextHook \/ SysvLookup \/ GnuBloom \/ GnuLookup \/ GnuUndef
  BY <1>1, <1>4, WalkLook
<1>5. CASE PltTable \/ LeavePlt \/ DynTable \/ PackedInit \/ PackedTable
  BY <1>1, <1>5, WalkPlt, WalkLeavePlt, WalkDyn, WalkPackedInit, WalkPacked
<1>6. CASE SlotStep
  BY <1>1, <1>6, WalkSlots
<1> QED BY <1>2, <1>3, <1>4, <1>5, <1>6 DEF Next, Idle, SlotStep

LEMMA MemNext ==
    ASSUME AllHashesSound, AllRelocsSound, SlotsInv, [Next]_vars
    PROVE  MemInv'
<1>1. Known /\ WalkInv /\ MemInv
  BY DEF SlotsInv, Known
<1>2. CASE UNCHANGED vars
  <2>1. UNCHANGED <<image, todo, pc, slot, mem, old>>
    BY <1>2 DEF vars
  <2>2. Name' = Name
    BY <2>1 DEF Name
  <2> QED BY <1>1, <2>1, <2>2 DEF MemInv, SlotsKept, OldKept, SlotNow
<1>3. CASE \/ InitElf \/ ParseDynamic \/ CheckElf
           \/ NextHook \/ SysvLookup \/ GnuBloom \/ GnuLookup \/ GnuUndef
           \/ LeavePlt \/ PackedInit \/ Return \/ AllHooked
  <2>1. UNCHANGED <<image, mem, old>> /\ pc' \notin InSlot
    BY <1>3, NoSlotSteps
  <2> QED BY <1>1, <2>1, MemKept DEF InSlot
<1>4. CASE PltTable \/ DynTable \/ PackedTable
  <2>1. UNCHANGED <<image, mem, old>> /\ (pc' \in InSlot => pc' = "compare")
    BY <1>4, TableSteps
  <2> QED BY <1>1, <2>1, MemKept DEF InSlot
<1>5. CASE SlotStep
  BY <1>1, <1>5, MemSlots
<1> QED BY <1>2, <1>3, <1>4, <1>5 DEF Next, Idle, SlotStep

LEMMA SlotsNext ==
    ASSUME AllHashesSound, AllRelocsSound, SlotsInv, PackedExact', [Next]_vars
    PROVE  SlotsInv'
BY HashNext, TablesNext, WalkNext, MemNext DEF SlotsInv

LEMMA Replaced ==
    ASSUME SlotsInv, PackedExact
    PROVE  SlotsReplaced
<1>1. ASSUME pc = "return", result = "ok", symidx # None, NEW a \in Slots(image, Name, 2)
      PROVE  mem[a] = New(Name)
  <2>1. /\ Written(PltSlots(image, Name, 2)) /\ Written(DynSlots(image, Name, 2))
        /\ Written(GivenSlots) /\ given = image.linked.android
    BY <1>1 DEF SlotsInv, WalkInv, AllDone, PackedExact
  <2>2. AndroidSlots(image, Name) \subseteq GivenSlots
    <3>1. \A k \in For(image, image.linked.android, Name, FALSE) : k <= Len(given)
      <4>1. Len(given) \in Nat
        BY DEF SlotsInv, WalkInv, PackedWalk, Relocs
      <4>2. \A k \in 1..Len(given) : k <= Len(given)
        BY <4>1
      <4> QED BY <2>1, <4>2, ForIndex, Zenon
    <3>2. For(image, image.linked.android, Name, FALSE) \subseteq
             {k \in For(image, image.linked.android, Name, FALSE) : k <= Len(given)}
      BY <3>1
    <3> QED BY <3>2, SlotsOfSub DEF AndroidSlots, GivenSlots
  <2> QED BY <1>1, <2>1, <2>2 DEF Slots, Written
<1>2. ASSUME NEW a \in DOMAIN mem, NEW n \in Names, mem[a] = New(n)
      PROVE  a \in Slots(image, n, 2)
  BY <1>2 DEF SlotsInv, MemInv, SlotsKept, New, Original
<1> QED BY <1>1, <1>2 DEF SlotsReplaced, AllReplaced

LEMMA Kept ==
    ASSUME SlotsInv
    PROVE  OldBeforeNew
<1>1. ASSUME NEW a \in DOMAIN mem, NEW n \in Names, mem[a] = New(n)
      PROVE  old[n] # None
  BY <1>1 DEF SlotsInv, MemInv, SlotsKept, New, Original
<1> QED BY <1>1 DEF OldBeforeNew, SlotsInv, MemInv, OldKept

\* A hook that succeeds has replaced every slot of the symbol but those of the first
\* relocation of a plain table, and no hook touches another slot, in any image whose
\* tables are sound (979-1042).
THEOREM HookReplacesSlots ==
    AllHashesSound /\ AllRelocsSound /\ AllPackedSound => (Spec => []SlotsReplaced)
<1> SUFFICES ASSUME AllHashesSound, AllRelocsSound, AllPackedSound
             PROVE  Spec => []SlotsReplaced
  OBVIOUS
<1>1. PackedInv /\ [Next]_vars => PackedInv'
  BY PackedNext
<1>2. PackedInv => PackedExact
  BY PackedKnown
<1>3. SlotsInv /\ PackedExact' /\ [Next]_vars => SlotsInv'
  BY SlotsNext
<1>4. SlotsInv /\ PackedExact => SlotsReplaced
  BY Replaced
<1> QED BY <1>1, <1>2, <1>3, <1>4, PackedStart, SlotsInit, PTL DEF Spec

\* A thread that gets into the new function through a slot finds the original one in
\* *old_func, in the same images (447-496).
THEOREM OldIsSetFirst ==
    AllHashesSound /\ AllRelocsSound /\ AllPackedSound => (Spec => []OldBeforeNew)
<1> SUFFICES ASSUME AllHashesSound, AllRelocsSound, AllPackedSound
             PROVE  Spec => []OldBeforeNew
  OBVIOUS
<1>1. PackedInv /\ [Next]_vars => PackedInv'
  BY PackedNext
<1>2. PackedInv => PackedExact
  BY PackedKnown
<1>3. SlotsInv /\ PackedExact' /\ [Next]_vars => SlotsInv'
  BY SlotsNext
<1>4. SlotsInv => OldBeforeNew
  BY Kept
<1> QED BY <1>1, <1>2, <1>3, <1>4, PackedStart, SlotsInit, PTL DEF Spec
=============================================================================
