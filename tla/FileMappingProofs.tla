--------------------------- MODULE FileMappingProofs ---------------------------
(***************************************************************************)
(* Proofs about FileMapping, for any threads, descriptors and addresses    *)
(* and files of any length: its types; that a lookup finds the handle of   *)
(* its descriptor and nothing is left behind, if the engine opens no file  *)
(* before bootstrap is through; and that the hooks implement PlainFiles.   *)
(***************************************************************************)
EXTENDS FileMapping, TLAPS

-----------------------------------------------------------------------------
(***************************************************************************)
(* The inductive invariants: TypeInv and SafeInv whether or not the engine *)
(* is early, Inv if it is not.                                             *)
(***************************************************************************)
OnFd == {"lookup", "lseek", "read", "rewind", "found", "fclose"}

\* A call is on a descriptor, or has an address of its own.
Shaped(call) ==
    /\ call.pc \notin OnFd => call.fd = None
    /\ call.pc \in OnFd => call.fd \in Fds
    /\ call.pc \in {"save", "fclose", "delete"} => call.self \in Addrs
    /\ call.pc = "fclose" => call.op = "close"
Shape == \A t \in Threads : Shaped(th[t])

\* What is used is open, and is closed by none while others use it.
Sharable(fd) == use_shared_mem /\ KindOf(fd) \notin Kinds
UsedOpen == \A t \in Threads : th[t].fd # None => fd_table[th[t].fd] # None
Exclusive ==
    \A t, u \in Threads :
        (t # u /\ th[t].fd # None /\ th[t].fd = th[u].fd) =>
            Sharable(th[t].fd) /\ th[t].op # "close"

\* What bootstrap has set up of the two.
SetUp ==
    /\ use_shared_mem => ashmem
    /\ ashmem => fds_dir = None /\ init_pc \in {"ashmem", "done"}
    /\ init_pc = "ashmem" => ~use_shared_mem

TypeInv == TypeOK /\ SetUp /\ Shape /\ UsedOpen /\ Exclusive

\* A handle hides behind a descriptor, and a call that has found a handle has
\* that of its descriptor.
Hides(fd) == fd_table[fd] # None /\ KindOf(fd) \in Kinds
Maps ==
    \A t \in Threads :
        (th[t].pc \in OnFd /\ Mapped(t)) => Hides(th[t].fd) /\ Opened(t).self = th[t].self

\* A FileExtraData that is in use is there, and has one owner: a descriptor, or a
\* call that opens or has closed one.
Holds(t) == th[t].pc \in {"save", "delete"}
Live ==
    /\ \A fd \in Fds : Hides(fd) => mem[fd_table[fd].self] # None
    /\ \A t \in Threads : Holds(t) => mem[th[t].self] # None
    /\ \A x \in lost : mem[x] # None
OneOwner ==
    /\ \A fd, gd \in Fds :
          (Hides(fd) /\ Hides(gd) /\ fd_table[fd].self = fd_table[gd].self) => fd = gd
    /\ \A fd \in Fds, t \in Threads : Hides(fd) /\ Holds(t) => fd_table[fd].self # th[t].self
    /\ \A t, u \in Threads : Holds(t) /\ Holds(u) /\ th[t].self = th[u].self => t = u

SafeInv == TypeInv /\ Maps /\ Live /\ OneOwner

\* Before bootstrap is through nothing is open.
Quiet ==
    ~Started =>
        /\ \A fd \in Fds : fd_table[fd] = None
        /\ \A x \in Addrs : mem[x] = None
        /\ \A t \in Threads : th[t].pc = "idle"

\* All handles hide behind descriptors of the one kind.
Missed(fd) == Hides(fd) /\ fd_table[fd].self \in lost
Backed ==
    \A fd \in Fds :
        Hides(fd) => /\ KindOf(fd) = "shm" <=> use_shared_mem
                     /\ KindOf(fd) = "short" => Missed(fd)

\* What a call knows of its descriptor on its way through get_mapping.
KnowsOf(t) ==
    /\ At(t, "save") => mem[th[t].self] = 0
    /\ th[t].pc \in {"lseek", "read", "rewind"} => ~use_shared_mem
    /\ At(t, "read") => Opened(t).pos = 0
    /\ At(t, "rewind") => Opened(t).pos \in {0, 1}
    /\ th[t].pc \in {"rewind", "found"} => Mapped(t) \/ ~Hides(th[t].fd) \/ Missed(th[t].fd)
Knows == \A t \in Threads : KnowsOf(t)

\* A file that holds a FileExtraData is at its start whenever it is looked at, if
\* no lookup of it has failed.
LookedAt(fd) == \E t \in Threads : At(t, "rewind") /\ th[t].fd = fd
AtStart ==
    \A fd \in Fds :
        (Hides(fd) /\ KindOf(fd) = "map" /\ ~LookedAt(fd) /\ ~Missed(fd)) => fd_table[fd].pos = 0

\* A FileExtraData that is there has an owner, or was lost.
Owner(x) ==
    \/ \E fd \in Fds : Hides(fd) /\ fd_table[fd].self = x
    \/ \E t \in Threads : Holds(t) /\ th[t].self = x
Owned == \A x \in Addrs : mem[x] # None => Owner(x) \/ x \in lost

\* The directory names descriptors that are open and not being closed, and what was
\* lost, but nothing that is being deleted.
Closing(fd) == \E t \in Threads : At(t, "fclose") /\ th[t].fd = fd
Names(x) == x = "stale" \/ \E fd \in Fds : Hides(fd) /\ ~Closing(fd) /\ fd_table[fd].self = x
Named ==
    fds_dir # None =>
        /\ \A x \in fds_dir : Names(x) \/ x \in lost
        /\ \A t \in Threads : th[t].pc \in {"fclose", "delete"} => th[t].self \notin fds_dir

Inv ==
    /\ SafeInv /\ ~Early
    /\ Quiet /\ Backed /\ Knows /\ AtStart /\ Owned /\ Named

-----------------------------------------------------------------------------
(***************************************************************************)
(* Types, and who is on a descriptor.                                      *)
(***************************************************************************)
LEMMA InitType == Init => TypeInv
<1> SUFFICES ASSUME Init PROVE TypeInv
  OBVIOUS
<1>1. th = [t \in Threads |-> NoCall] /\ NoCall \in Call
  BY LengthAssumption DEF Init, NoCall, Call
<1>2. th \in [Threads -> Call] /\ \A t \in Threads : th[t] = NoCall
  BY <1>1
<1>3. TypeOK
  BY <1>2 DEF TypeOK, Init
<1>4. Shape /\ UsedOpen /\ Exclusive
  BY <1>2 DEF Shape, Shaped, UsedOpen, Exclusive, NoCall, OnFd
<1> QED
  BY <1>3, <1>4 DEF TypeInv, SetUp, Init

\* A description is of a real file, or of a mapping.
LEMMA DescriptionKinds ==
    ASSUME NEW d \in Description
    PROVE  /\ d # None
           /\ d.kind \in Kinds => d \in [kind : Kinds, pos : {0, 1}, self : Addrs]
           /\ d.kind \notin Kinds => d \in [kind : {"apk", "other"}, pos : 0..Length]
           /\ d.pos \in 0..Length
BY NoneAssumption, LengthAssumption DEF Description, Kinds

LEMMA PosType ==
    ASSUME NEW d \in Description, NEW pos \in 0..Length,
           d.kind \in Kinds => pos \in {0, 1}
    PROVE  /\ [d EXCEPT !.pos = pos] \in Description
           /\ [d EXCEPT !.pos = pos].kind = d.kind
           /\ [d EXCEPT !.pos = pos].pos = pos
           /\ d.kind \in Kinds => [d EXCEPT !.pos = pos].self = d.self
<1>1. CASE d.kind \in Kinds
  BY <1>1, DescriptionKinds DEF Description
<1>2. CASE d.kind \notin Kinds
  BY <1>2, DescriptionKinds DEF Description
<1> QED
  BY <1>1, <1>2

LEMMA OpenedType ==
    ASSUME TypeInv, NEW t \in Threads, th[t].pc \in OnFd
    PROVE  /\ th[t].fd \in Fds /\ Opened(t) \in Description /\ Opened(t) # None
           /\ th[t] \in Call
<1>1. th[t] \in Call /\ th[t].fd \in Fds
  BY DEF TypeInv, TypeOK, Shape, Shaped
<1>2. th[t].fd # None
  BY <1>1, NoneAssumption
<1>3. fd_table[th[t].fd] \in Description /\ fd_table[th[t].fd] # None
  BY <1>1, <1>2 DEF TypeInv, TypeOK, UsedOpen
<1> QED
  BY <1>1, <1>3 DEF Opened

LEMMA SetPosType ==
    ASSUME TypeInv, NEW t \in Threads, th[t].pc \in OnFd,
           NEW pos \in 0..Length, KindOf(th[t].fd) \in Kinds => pos \in {0, 1}, SetPos(t, pos)
    PROVE  /\ fd_table' \in [Fds -> Description \cup {None}]
           /\ \A fd \in Fds \ {th[t].fd} : fd_table'[fd] = fd_table[fd]
           /\ fd_table'[th[t].fd] # None
           /\ fd_table'[th[t].fd].kind = Opened(t).kind
           /\ fd_table'[th[t].fd].pos = pos
           /\ Hides(th[t].fd) => fd_table'[th[t].fd].self = Opened(t).self
<1> DEFINE fd == th[t].fd
           new == [Opened(t) EXCEPT !.pos = pos]
<1>1. fd \in Fds /\ Opened(t) \in Description /\ Opened(t) = fd_table[fd]
  BY OpenedType DEF Opened
<1>2. new \in Description /\ new # None /\ new.kind = Opened(t).kind /\ new.pos = pos
      /\ (Opened(t).kind \in Kinds => new.self = Opened(t).self)
  BY <1>1, PosType, DescriptionKinds DEF KindOf
<1>3. fd_table \in [Fds -> Description \cup {None}]
  BY DEF TypeInv, TypeOK
<1>4. fd_table' = [fd_table EXCEPT ![fd] = new]
  BY DEF SetPos, Opened
<1> HIDE DEF new
<1>5. fd_table' \in [Fds -> Description \cup {None}] /\ fd_table'[fd] = new
      /\ \A gd \in Fds \ {fd} : fd_table'[gd] = fd_table[gd]
  BY <1>1, <1>2, <1>3, <1>4
<1>6. fd_table'[fd].kind = fd_table[fd].kind
  BY <1>1, <1>2, <1>5
<1> QED
  BY <1>1, <1>2, <1>5, <1>6 DEF KindOf, Hides

LEMMA SetPosHides ==
    ASSUME TypeInv, NEW t \in Threads, th[t].pc \in OnFd,
           NEW pos \in 0..Length, KindOf(th[t].fd) \in Kinds => pos \in {0, 1}, SetPos(t, pos)
    PROVE  /\ fd_table' \in [Fds -> Description \cup {None}]
           /\ \A fd \in Fds : fd_table[fd] # None => /\ fd_table'[fd] # None
                                                     /\ fd_table'[fd].kind = fd_table[fd].kind
           /\ \A fd \in Fds : (Hides(fd)' <=> Hides(fd))
                              /\ (Hides(fd) => fd_table'[fd].self = fd_table[fd].self)
<1>1. th[t].fd \in Fds /\ fd_table[th[t].fd] # None
  BY OpenedType DEF Opened
<1> QED
  BY <1>1, SetPosType DEF Opened, Hides, KindOf

\* A call moves on, and what the other calls use stays open.
LEMMA CallMoves ==
    ASSUME TypeInv, NEW t \in Threads, NEW call \in Call, Shaped(call), Step(t, call),
           use_shared_mem' = use_shared_mem,
           \A u \in Threads \ {t} :
              th[u].fd # None => /\ fd_table'[th[u].fd] # None
                                 /\ fd_table'[th[u].fd].kind = fd_table[th[u].fd].kind,
           call.fd # None => /\ fd_table'[call.fd] # None
                             /\ fd_table'[call.fd].kind = fd_table[call.fd].kind,
           \A u \in Threads \ {t} :
              (call.fd # None /\ th[u].fd = call.fd) =>
                  Sharable(call.fd) /\ call.op # "close" /\ th[u].op # "close"
    PROVE  /\ th' \in [Threads -> Call] /\ Shape' /\ UsedOpen' /\ Exclusive'
           /\ th'[t] = call
           /\ \A u \in Threads \ {t} : th'[u] = th[u]
<1>1. th' \in [Threads -> Call] /\ th'[t] = call /\ \A u \in Threads \ {t} : th'[u] = th[u]
  BY DEF Step, TypeInv, TypeOK
<1>2. Shape'
  BY <1>1 DEF Shape, Shaped, TypeInv
<1>3. UsedOpen'
  BY <1>1 DEF UsedOpen, TypeInv
<1>4. Exclusive'
  <2> SUFFICES ASSUME NEW u \in Threads, NEW v \in Threads, u # v,
                      (th[u].fd)' # None, (th[u].fd)' = (th[v].fd)'
               PROVE  (Sharable(th[u].fd) /\ th[u].op # "close")'
    BY DEF Exclusive
  <2>1. CASE u = t
    BY <2>1, <1>1 DEF Sharable, KindOf
  <2>2. CASE v = t
    BY <2>2, <1>1 DEF Sharable, KindOf
  <2>3. CASE u # t /\ v # t
    BY <2>3, <1>1 DEF Sharable, KindOf, TypeInv, Exclusive
  <2> QED
    BY <2>1, <2>2, <2>3
<1> QED
  BY <1>1, <1>2, <1>3, <1>4

\* A call moves on with the descriptor it is on, or with none.
LEMMA CallGoesOn ==
    ASSUME TypeInv, NEW t \in Threads, NEW call \in Call, Shaped(call), Step(t, call),
           use_shared_mem' = use_shared_mem,
           \A fd \in Fds : fd_table[fd] # None => /\ fd_table'[fd] # None
                                                  /\ fd_table'[fd].kind = fd_table[fd].kind,
           call.fd # None => call.fd = th[t].fd /\ call.op = th[t].op
    PROVE  /\ th' \in [Threads -> Call] /\ Shape' /\ UsedOpen' /\ Exclusive'
           /\ th'[t] = call
           /\ \A u \in Threads \ {t} : th'[u] = th[u]
<1>1. \A u \in Threads : th[u].fd # None => th[u].fd \in Fds /\ fd_table[th[u].fd] # None
  BY DEF TypeInv, Shape, Shaped, UsedOpen, TypeOK, Call
<1>2. \A u \in Threads : th[u].fd # None => /\ fd_table'[th[u].fd] # None
                                            /\ fd_table'[th[u].fd].kind = fd_table[th[u].fd].kind
  BY <1>1
<1>3. \A u \in Threads \ {t} :
          (call.fd # None /\ th[u].fd = call.fd) =>
              Sharable(call.fd) /\ call.op # "close" /\ th[u].op # "close"
  BY DEF TypeInv, Exclusive
<1> QED
  BY <1>2, <1>3, CallMoves

\* The edits of a call.
LEMMA CallEdit ==
    ASSUME NEW call \in Call, NEW step \in OnFd \cup {"delete"}, NEW self \in Addrs \cup {None}
    PROVE  /\ [call EXCEPT !.pc = step] \in Call
           /\ [call EXCEPT !.pc = step].pc = step
           /\ [call EXCEPT !.pc = step].fd = call.fd
           /\ [call EXCEPT !.pc = step].op = call.op
           /\ [call EXCEPT !.pc = step].self = call.self
           /\ [call EXCEPT !.pc = step, !.self = self] \in Call
           /\ [call EXCEPT !.pc = step, !.self = self].pc = step
           /\ [call EXCEPT !.pc = step, !.self = self].fd = call.fd
           /\ [call EXCEPT !.pc = step, !.self = self].op = call.op
           /\ [call EXCEPT !.pc = step, !.self = self].self = self
           /\ [call EXCEPT !.pc = step, !.fd = None] \in Call
           /\ [call EXCEPT !.pc = step, !.fd = None].pc = step
           /\ [call EXCEPT !.pc = step, !.fd = None].fd = None
           /\ [call EXCEPT !.pc = step, !.fd = None].op = call.op
           /\ [call EXCEPT !.pc = step, !.fd = None].self = call.self
BY DEF Call, OnFd

LEMMA NoCallType == NoCall \in Call /\ Shaped(NoCall) /\ NoCall.pc = "idle" /\ NoCall.fd = None
BY LengthAssumption DEF NoCall, Call, Shaped, OnFd

LEMMA SelfOfType ==
    ASSUME TypeInv, NEW t \in Threads, th[t].pc \in OnFd, NEW kind \in Kinds
    PROVE  SelfOf(t, kind) \in Addrs \cup {None}
BY OpenedType, DescriptionKinds DEF SelfOf

LEMMA RestKeeps ==
    /\ UNCHANGED setup => /\ ashmem' = ashmem /\ use_shared_mem' = use_shared_mem
                          /\ fds_dir' = fds_dir /\ init_pc' = init_pc /\ hooked' = hooked
    /\ UNCHANGED engine => /\ fd_table' = fd_table /\ mem' = mem /\ th' = th
                           /\ lost' = lost /\ reply' = reply /\ alive' = alive
BY DEF setup, engine

\* Which steps lose no handle.
LEMMA LostStays ==
    ASSUME NEW t \in Threads,
           \/ OpenReal(t) \/ OpenApk(t) \/ SaveMem(t) \/ SaveFails(t) \/ Begin(t)
           \/ LookupFile(t) \/ LookupPos(t) \/ LookupRewind(t)
           \/ ReadReal(t) \/ ReadShadow(t) \/ SeekReal(t) \/ SeekShadow(t)
           \/ CloseReal(t) \/ CleanMapping(t) \/ CleanClose(t)
    PROVE  lost' = lost
BY DEF OpenReal, OpenApk, SaveMem, SaveFails, ExitNow, Begin, LookupFile, LookupPos, LookupRewind,
       ReadReal, ReadShadow, SeekReal, SeekShadow, CloseReal, CleanMapping, CleanClose

LEMMA BootstrapType == TypeInv /\ Bootstrap => TypeInv'
<1> SUFFICES ASSUME TypeInv, Bootstrap PROVE TypeInv'
  OBVIOUS
<1>1. UNCHANGED engine /\ UNCHANGED ashmem
  BY DEF Bootstrap, InitAshmem, InitDir, InitUnlink, InstallHook
<1>2. use_shared_mem => use_shared_mem'
  BY DEF Bootstrap, InitAshmem, InitDir, InitUnlink, InstallHook, TypeInv, SetUp
<1>3. Shape' /\ UsedOpen' /\ Exclusive'
  BY <1>1, <1>2, RestKeeps DEF TypeInv, Shape, Shaped, UsedOpen, Exclusive, Sharable, KindOf
<1>4. TypeOK' /\ SetUp'
  <2> USE <1>1, RestKeeps DEF TypeInv, TypeOK, SetUp
  <2>1. CASE InitAshmem
    <3>1. /\ UNCHANGED <<ashmem, fds_dir, hooked, engine>>
          /\ use_shared_mem' \in BOOLEAN /\ (use_shared_mem' => ashmem)
          /\ init_pc' = IF ashmem THEN "done" ELSE "dir"
      BY <2>1 DEF InitAshmem
    <3>2. SetUp'
      BY <3>1
    <3> QED
      BY <3>1, <3>2
  <2>2. CASE InitDir
    BY <2>2 DEF InitDir
  <2>3. CASE InitUnlink
    BY <2>3 DEF InitUnlink
  <2>4. CASE InstallHook
    BY <2>4 DEF InstallHook
  <2> QED
    BY <2>1, <2>2, <2>3, <2>4 DEF Bootstrap
<1> QED
  BY <1>3, <1>4 DEF TypeInv

\* A step of a call, as far as the types of the rest go.
LEMMA StepType ==
    ASSUME TypeInv, UNCHANGED setup, alive' \in BOOLEAN,
           th' \in [Threads -> Call], Shape', UsedOpen', Exclusive',
           fd_table' \in [Fds -> Description \cup {None}],
           mem' \in [Addrs -> 0..Length \cup {None}], lost' \subseteq Addrs
    PROVE  TypeInv'
BY RestKeeps DEF TypeInv, TypeOK, SetUp

\* A new descriptor: none was on it.
LEMMA NewFdType ==
    ASSUME TypeInv, NEW fd \in Fds, NEW d \in Description, NewFd(fd, d)
    PROVE  /\ fd_table' \in [Fds -> Description \cup {None}]
           /\ fd_table[fd] = None /\ fd_table'[fd] = d /\ d # None
           /\ \A gd \in Fds \ {fd} : fd_table'[gd] = fd_table[gd]
           /\ \A gd \in Fds : fd_table[gd] # None => /\ fd_table'[gd] # None
                                                     /\ fd_table'[gd].kind = fd_table[gd].kind
           /\ \A t \in Threads : th[t].fd # fd
<1>1. fd_table \in [Fds -> Description \cup {None}]
  BY DEF TypeInv, TypeOK
<1>2. fd # None /\ d # None
  BY NoneAssumption
<1>3. \A t \in Threads : th[t].fd # fd
  BY <1>2 DEF TypeInv, UsedOpen, NewFd
<1> QED
  BY <1>1, <1>2, <1>3 DEF NewFd

LEMMA RealFileType ==
    ASSUME NEW kind \in {"apk", "other"}
    PROVE  RealFile(kind, 0) \in Description /\ RealFile(kind, 0).kind = kind
           /\ RealFile(kind, 0).pos = 0
BY LengthAssumption DEF RealFile, Description

LEMMA HiddenType ==
    ASSUME NEW kind \in Kinds, NEW self \in Addrs
    PROVE  /\ [kind |-> kind, pos |-> 0, self |-> self] \in Description
BY DEF Description

LEMMA OpenType ==
    ASSUME TypeInv, NEW t \in Threads,
           OpenReal(t) \/ OpenApk(t) \/ SaveMem(t) \/ SaveFile(t) \/ SaveFails(t)
    PROVE  TypeInv'
<1>1. ASSUME OpenReal(t) PROVE TypeInv'
  <2>1. PICK fd \in Fds, kind \in {"apk", "other"} :
            NewFd(fd, RealFile(kind, 0)) /\ Returns(t, "open", kind, 0)
    BY <1>1 DEF OpenReal
  <2>2. UNCHANGED setup /\ mem' = mem /\ alive' = alive /\ Step(t, NoCall)
    BY <1>1, <2>1 DEF OpenReal, Returns
  <2>3. th' \in [Threads -> Call] /\ Shape' /\ UsedOpen' /\ Exclusive'
    BY <2>1, <2>2, NewFdType, RealFileType, NoCallType, CallGoesOn, RestKeeps
  <2>4. fd_table' \in [Fds -> Description \cup {None}]
    BY <2>1, NewFdType, RealFileType
  <2> QED
    BY <1>1, <2>2, <2>3, <2>4, StepType, LostStays DEF TypeInv, TypeOK
<1>2. ASSUME OpenApk(t) PROVE TypeInv'
  <2>1. PICK self \in Addrs :
            /\ mem' = [mem EXCEPT ![self] = 0]
            /\ Step(t, [NoCall EXCEPT !.pc = "save", !.op = "open", !.self = self])
    BY <1>2 DEF OpenApk
  <2> DEFINE call == [NoCall EXCEPT !.pc = "save", !.op = "open", !.self = self]
  <2>2. call \in Call /\ Shaped(call) /\ call.fd = None
    <3>1. call \in Call /\ call.pc = "save" /\ call.fd = None /\ call.self = self
      BY NoCallType DEF Call
    <3> QED
      BY <3>1 DEF Shaped, OnFd
  <2>3. UNCHANGED setup /\ fd_table' = fd_table /\ alive' = alive
    BY <1>2 DEF OpenApk
  <2> HIDE DEF call
  <2>4. th' \in [Threads -> Call] /\ Shape' /\ UsedOpen' /\ Exclusive'
    BY <2>1, <2>2, <2>3, CallGoesOn, RestKeeps DEF call
  <2>5. mem' \in [Addrs -> 0..Length \cup {None}]
    <3>1. 0 \in 0..Length
      BY LengthAssumption
    <3> QED
      BY <2>1, <3>1 DEF TypeInv, TypeOK
  <2> QED
    BY <1>2, <2>3, <2>4, <2>5, StepType, LostStays DEF TypeInv, TypeOK
<1>3. ASSUME NEW kind \in Kinds, Saved(t, kind), At(t, "save"), UNCHANGED <<mem, alive>>,
             use_shared_mem' = use_shared_mem
      PROVE  /\ th' \in [Threads -> Call] /\ Shape' /\ UsedOpen' /\ Exclusive'
             /\ fd_table' \in [Fds -> Description \cup {None}]
  <2>1. PICK fd \in Fds :
            /\ NewFd(fd, [kind |-> kind, pos |-> 0, self |-> th[t].self])
            /\ Returns(t, "open", "shadow", 0)
    BY <1>3 DEF Saved
  <2>2. th[t].self \in Addrs
    BY <1>3 DEF At, TypeInv, Shape, Shaped
  <2>3. [kind |-> kind, pos |-> 0, self |-> th[t].self] \in Description
    BY <2>2, HiddenType
  <2> QED
    BY <1>3, <2>1, <2>3, NewFdType, NoCallType, CallGoesOn DEF Returns
<1>4. ASSUME SaveMem(t) PROVE TypeInv'
  <2>1. UNCHANGED setup /\ mem' = mem /\ alive' = alive
    BY <1>4 DEF SaveMem
  <2>2. /\ th' \in [Threads -> Call] /\ Shape' /\ UsedOpen' /\ Exclusive'
        /\ fd_table' \in [Fds -> Description \cup {None}]
    BY <1>4, <2>1, <1>3, RestKeeps DEF SaveMem, Kinds
  <2> QED
    BY <1>4, <2>1, <2>2, StepType, LostStays DEF TypeInv, TypeOK
<1>5. ASSUME SaveFile(t) PROVE TypeInv'
  <2>1. th[t].self \in Addrs
    BY <1>5 DEF SaveFile, At, TypeInv, Shape, Shaped
  <2>2. /\ th' \in [Threads -> Call] /\ Shape' /\ UsedOpen' /\ Exclusive'
        /\ fd_table' \in [Fds -> Description \cup {None}]
    BY <1>5, <1>3 DEF SaveFile, Kinds
  <2>3. /\ fds_dir' \subseteq Addrs \cup {"stale"} /\ ~use_shared_mem /\ fds_dir # None
        /\ lost' \subseteq Addrs
        /\ UNCHANGED <<ashmem, use_shared_mem, init_pc, hooked, mem, alive>>
    BY <1>5, <2>1 DEF SaveFile, TypeInv, TypeOK
  <2>4. TypeOK'
    BY <2>2, <2>3 DEF TypeInv, TypeOK
  <2>5. SetUp'
    BY <2>3 DEF TypeInv, SetUp
  <2> QED
    BY <2>2, <2>4, <2>5 DEF TypeInv
<1>6. ASSUME SaveFails(t) PROVE TypeInv'
  <2>1. UNCHANGED <<setup, fd_table, mem, th>> /\ alive' \in BOOLEAN
    BY <1>6 DEF SaveFails, ExitNow
  <2>2. Shape' /\ UsedOpen' /\ Exclusive'
    BY <2>1, RestKeeps DEF TypeInv, Shape, Shaped, UsedOpen, Exclusive, Sharable, KindOf
  <2> QED
    BY <1>6, <2>1, <2>2, StepType, LostStays DEF TypeInv, TypeOK
<1> QED
  BY <1>1, <1>2, <1>4, <1>5, <1>6

\* Whoever begins a call on a descriptor finds none on it, or shares it.
LEMMA MayCallMeans ==
    ASSUME NEW op, NEW fd, MayCall(op, fd), NEW u \in Threads, th[u].fd = fd
    PROVE  Sharable(fd) /\ op # "close" /\ th[u].op # "close"
BY DEF MayCall, CallsOn, Sharable

LEMMA BeginType ==
    ASSUME TypeInv, NEW t \in Threads, Begin(t)
    PROVE  /\ TypeInv' /\ UNCHANGED setup /\ fd_table' = fd_table /\ mem' = mem
           /\ lost' = lost /\ alive' = alive /\ th[t].pc = "idle"
           /\ th'[t].pc \in {"lookup", "found"} /\ th'[t].self = None
           /\ hooked = Ops => th'[t].pc = "lookup"
           /\ \A u \in Threads \ {t} : th'[u] = th[u]
<1>1. PICK fd \in Fds, op \in Ops \ {"open"}, to \in 0..Length :
          /\ MayCall(op, fd)
          /\ Step(t, [pc |-> IF op \in hooked THEN "lookup" ELSE "found", op |-> op, fd |-> fd,
                      to |-> to, self |-> None])
  BY DEF Begin
<1> DEFINE call == [pc |-> IF op \in hooked THEN "lookup" ELSE "found", op |-> op, fd |-> fd,
                    to |-> to, self |-> None]
<1>2. /\ call \in Call /\ call.pc \in {"lookup", "found"}
      /\ call.fd = fd /\ call.op = op /\ call.self = None
      /\ hooked = Ops => call.pc = "lookup"
  BY DEF Call, Ops
<1> HIDE DEF call
<1>3. Shaped(call)
  BY <1>2 DEF Shaped, OnFd
<1>4. UNCHANGED setup /\ fd_table' = fd_table /\ mem' = mem /\ lost' = lost /\ alive' = alive
  BY DEF Begin
<1>5. fd_table[fd] # None
  BY <1>1 DEF MayCall
<1>6. \A u \in Threads : th[u].fd # None => fd_table[th[u].fd] # None
  BY DEF TypeInv, UsedOpen
<1>7. /\ th' \in [Threads -> Call] /\ Shape' /\ UsedOpen' /\ Exclusive'
      /\ th'[t] = call /\ \A u \in Threads \ {t} : th'[u] = th[u]
  BY <1>1, <1>2, <1>3, <1>4, <1>5, <1>6, MayCallMeans, CallMoves, RestKeeps DEF call
<1>8. TypeInv'
  BY <1>4, <1>7, StepType DEF TypeInv, TypeOK
<1> QED
  BY <1>2, <1>4, <1>7, <1>8 DEF Begin, At

LEMMA LookupType ==
    ASSUME TypeInv, NEW t \in Threads, Lookup(t)
    PROVE  /\ TypeInv' /\ UNCHANGED setup /\ mem' = mem /\ alive' = alive
           /\ th[t].pc \in OnFd \ {"fclose"} /\ th'[t].pc \in OnFd \ {"fclose"}
           /\ th'[t].fd = th[t].fd
           /\ \A u \in Threads \ {t} : th'[u] = th[u]
           /\ \A fd \in Fds : (Hides(fd)' <=> Hides(fd))
                              /\ (Hides(fd) => fd_table'[fd].self = fd_table[fd].self)
           /\ \/ lost' = lost
              \/ Hides(th[t].fd) /\ lost' = lost \cup {Opened(t).self}
<1>1. th[t].pc \in OnFd \ {"fclose"}
  BY DEF Lookup, LookupMem, LookupFile, LookupPos, LookupRead, LookupRewind, At, OnFd
<1>2. /\ UNCHANGED setup /\ mem' = mem /\ alive' = alive
      /\ th[t].fd \in Fds /\ th[t] \in Call
  BY <1>1, OpenedType DEF Lookup, LookupMem, LookupFile, LookupPos, LookupRead, LookupRewind
<1>3. \E step \in OnFd \ {"fclose"}, self \in Addrs \cup {None} :
          th' = [th EXCEPT ![t] = [th[t] EXCEPT !.pc = step, !.self = self]]
  <2>1. th[t] = [th[t] EXCEPT !.self = th[t].self] /\ th[t].self \in Addrs \cup {None}
    BY <1>2 DEF Call
  <2>2. \A step : [th[t] EXCEPT !.pc = step] = [th[t] EXCEPT !.pc = step, !.self = th[t].self]
    BY <1>2 DEF Call
  <2>3. SelfOf(t, "shm") \in Addrs \cup {None} /\ SelfOf(t, "map") \in Addrs \cup {None}
    BY <1>1, SelfOfType DEF Kinds
  <2>4. CASE LookupMem(t)
    <3>1. Found(t, SelfOf(t, "shm")) \/ Found(t, None)
      BY <2>4 DEF LookupMem
    <3> QED
      BY <2>3, <3>1 DEF Found, Step, OnFd
  <2>5. CASE LookupFile(t)
    BY <2>1, <2>2, <2>5 DEF LookupFile, Goto, Step, OnFd
  <2>6. CASE LookupPos(t)
    <3>1. CASE Found(t, None)
      BY <3>1 DEF Found, Step, OnFd
    <3>2. CASE Goto(t, "read")
      BY <2>1, <2>2, <3>2 DEF Goto, Step, OnFd
    <3> QED
      BY <2>6, <3>1, <3>2 DEF LookupPos
  <2>7. CASE LookupRead(t)
    <3>1. \/ Step(t, [th[t] EXCEPT !.pc = "rewind", !.self = SelfOf(t, "map")])
          \/ Step(t, [th[t] EXCEPT !.pc = "rewind", !.self = None])
      BY <2>7 DEF LookupRead
    <3> QED
      BY <2>3, <3>1 DEF Step, OnFd
  <2>8. CASE LookupRewind(t)
    BY <2>1, <2>8 DEF LookupRewind, Found, Step, OnFd
  <2> QED
    BY <2>4, <2>5, <2>6, <2>7, <2>8 DEF Lookup
<1>4. PICK step \in OnFd \ {"fclose"}, self \in Addrs \cup {None} :
          th' = [th EXCEPT ![t] = [th[t] EXCEPT !.pc = step, !.self = self]]
  BY <1>3
<1>5. /\ fd_table' \in [Fds -> Description \cup {None}]
      /\ \A fd \in Fds : fd_table[fd] # None => /\ fd_table'[fd] # None
                                                /\ fd_table'[fd].kind = fd_table[fd].kind
      /\ \A fd \in Fds : (Hides(fd)' <=> Hides(fd))
                         /\ (Hides(fd) => fd_table'[fd].self = fd_table[fd].self)
  <2>1. CASE fd_table' = fd_table
    BY <2>1 DEF TypeInv, TypeOK, Hides, KindOf
  <2>2. CASE \E pos \in {0, 1} : SetPos(t, pos)
    <3>1. 0 \in 0..Length /\ 1 \in 0..Length
      BY LengthAssumption
    <3>2. PICK pos \in {0, 1} : SetPos(t, pos)
      BY <2>2
    <3>3. pos \in 0..Length
      BY <3>1
    <3> QED
      BY <1>1, <1>2, <3>2, <3>3, SetPosHides
  <2> QED
    BY <2>1, <2>2 DEF Lookup, LookupMem, LookupFile, LookupPos, LookupRead, LookupRewind
<1> DEFINE call == [th[t] EXCEPT !.pc = step, !.self = self]
<1>6. call \in Call /\ call.pc = step /\ call.fd = th[t].fd /\ call.op = th[t].op
  BY <1>2 DEF Call, OnFd
<1> HIDE DEF call
<1>7. Shaped(call) /\ Step(t, call)
  BY <1>2, <1>4, <1>6 DEF Shaped, OnFd, Step, call
<1>8. /\ th' \in [Threads -> Call] /\ Shape' /\ UsedOpen' /\ Exclusive'
      /\ th'[t] = call /\ \A u \in Threads \ {t} : th'[u] = th[u]
  BY <1>2, <1>5, <1>6, <1>7, CallGoesOn, RestKeeps
<1>9. lost' = lost \/ (Hides(th[t].fd) /\ lost' = lost \cup {Opened(t).self})
  <2>1. CASE LookupMem(t) \/ LookupRead(t)
    <3>1. lost' = lost \/ Loses(t)
      BY <2>1 DEF LookupMem, LookupRead
    <3>2. CASE Loses(t)
      BY <1>1, <3>2, OpenedType DEF Loses, Hides, KindOf, Opened
    <3> QED
      BY <3>1, <3>2
  <2> QED
    BY <2>1, LostStays DEF Lookup
<1>10. lost' \subseteq Addrs
  <2>1. Hides(th[t].fd) => Opened(t).self \in Addrs
    BY <1>1, OpenedType, DescriptionKinds DEF Hides, KindOf, Opened
  <2> QED
    BY <1>9, <2>1 DEF TypeInv, TypeOK
<1>11. TypeInv'
  BY <1>2, <1>5, <1>8, <1>10, StepType DEF TypeInv, TypeOK
<1> QED
  BY <1>1, <1>2, <1>5, <1>6, <1>8, <1>9, <1>11

\* A call that closes is alone on its descriptor.
LEMMA CloseAlone ==
    ASSUME TypeInv, NEW t \in Threads, th[t].pc \in OnFd, th[t].op = "close", CloseFd(th[t].fd)
    PROVE  /\ fd_table' \in [Fds -> Description \cup {None}]
           /\ fd_table'[th[t].fd] = None
           /\ \A fd \in Fds \ {th[t].fd} : fd_table'[fd] = fd_table[fd]
           /\ \A u \in Threads \ {t} :
                 /\ th[u].fd # th[t].fd
                 /\ th[u].fd # None => fd_table'[th[u].fd] = fd_table[th[u].fd]
                                       /\ fd_table'[th[u].fd] # None
<1>1. th[t].fd \in Fds /\ th[t].fd # None
  BY OpenedType, NoneAssumption
<1>2. \A u \in Threads \ {t} : th[u].fd # th[t].fd
  BY <1>1 DEF TypeInv, Exclusive
<1>3. \A u \in Threads : th[u].fd # None => th[u].fd \in Fds /\ fd_table[th[u].fd] # None
  BY DEF TypeInv, Shape, Shaped, UsedOpen
<1>4. fd_table \in [Fds -> Description \cup {None}]
  BY DEF TypeInv, TypeOK
<1> QED
  BY <1>1, <1>2, <1>3, <1>4 DEF CloseFd

\* The position after a read.
LEMMA AfterType ==
    ASSUME NEW pos \in 0..Length
    PROVE  After(pos) \in 0..Length
BY LengthAssumption DEF After

LEMMA MappedType ==
    ASSUME TypeInv, NEW t \in Threads, Mapped(t)
    PROVE  th[t].self \in Addrs
BY DEF TypeInv, TypeOK, Call, Mapped

LEMMA ServeRealType ==
    ASSUME TypeInv, NEW t \in Threads, ReadReal(t) \/ SeekReal(t)
    PROVE  /\ TypeInv' /\ UNCHANGED setup /\ mem' = mem /\ lost' = lost /\ alive' = alive
           /\ th' = [th EXCEPT ![t] = NoCall] /\ th[t].pc = "found" /\ ~Mapped(t)
           /\ \E pos \in 0..Length : SetPos(t, pos) /\ (KindOf(th[t].fd) \in Kinds => pos \in {0, 1})
<1>1. /\ th[t].pc = "found" /\ ~Mapped(t) /\ UNCHANGED setup /\ mem' = mem /\ alive' = alive
      /\ Step(t, NoCall)
  BY DEF ReadReal, SeekReal, At, Returns
<1>2. th[t].pc \in OnFd
  BY <1>1 DEF OnFd
<1>3. Opened(t) \in Description /\ th[t] \in Call /\ Opened(t).pos \in 0..Length
  BY <1>2, OpenedType, DescriptionKinds
<1>4. 0 \in 0..Length /\ 1 \in 0..Length /\ th[t].to \in 0..Length
  BY <1>3, LengthAssumption DEF Call
<1>5. \E pos \in 0..Length : SetPos(t, pos) /\ (KindOf(th[t].fd) \in Kinds => pos \in {0, 1})
  <2>1. CASE ReadReal(t)
    <3> DEFINE pos == IF KindOf(th[t].fd) \in Kinds THEN 1 ELSE After(Opened(t).pos)
    <3>1. pos \in 0..Length /\ SetPos(t, pos) /\ (KindOf(th[t].fd) \in Kinds => pos \in {0, 1})
      BY <1>3, <1>4, <2>1, AfterType DEF ReadReal
    <3> QED
      BY <3>1
  <2>2. CASE SeekReal(t)
    <3> DEFINE pos == IF KindOf(th[t].fd) \in Kinds /\ th[t].to > 0 THEN 1 ELSE th[t].to
    <3>1. pos \in 0..Length /\ SetPos(t, pos) /\ (KindOf(th[t].fd) \in Kinds => pos \in {0, 1})
      BY <1>3, <1>4, <2>2 DEF SeekReal
    <3> QED
      BY <3>1
  <2> QED
    BY <2>1, <2>2
<1>6. PICK pos \in 0..Length : SetPos(t, pos) /\ (KindOf(th[t].fd) \in Kinds => pos \in {0, 1})
  BY <1>5
<1>7. /\ fd_table' \in [Fds -> Description \cup {None}]
      /\ \A fd \in Fds : fd_table[fd] # None => /\ fd_table'[fd] # None
                                                /\ fd_table'[fd].kind = fd_table[fd].kind
  BY <1>2, <1>6, SetPosType DEF Opened
<1>8. th' \in [Threads -> Call] /\ Shape' /\ UsedOpen' /\ Exclusive'
  BY <1>1, <1>7, NoCallType, CallGoesOn, RestKeeps
<1>9. TypeInv'
  BY <1>1, <1>7, <1>8, StepType, LostStays DEF TypeInv, TypeOK
<1> QED
  BY <1>1, <1>5, <1>9, LostStays DEF Step

LEMMA ServeShadowType ==
    ASSUME TypeInv, NEW t \in Threads, ReadShadow(t) \/ SeekShadow(t), mem[th[t].self] # None
    PROVE  /\ TypeInv' /\ UNCHANGED setup /\ fd_table' = fd_table /\ alive' = alive
           /\ lost' = lost /\ th' = [th EXCEPT ![t] = NoCall] /\ th[t].pc = "found"
           /\ th[t].self \in Addrs
           /\ \A x \in Addrs \ {th[t].self} : mem'[x] = mem[x]
           /\ mem'[th[t].self] # None
<1>1. /\ th[t].pc = "found" /\ UNCHANGED setup /\ fd_table' = fd_table /\ alive' = alive
      /\ lost' = lost /\ Step(t, NoCall) /\ th[t].self \in Addrs
  BY MappedType DEF ReadShadow, SeekShadow, At, Returns
<1>2. th[t].to \in 0..Length
  BY DEF TypeInv, TypeOK, Call
<1>3. mem \in [Addrs -> 0..Length \cup {None}]
  BY DEF TypeInv, TypeOK
<1>4. th' \in [Threads -> Call] /\ Shape' /\ UsedOpen' /\ Exclusive'
  BY <1>1, NoCallType, CallGoesOn, RestKeeps
<1>5. CASE SeekShadow(t)
  <2>1. mem' = [mem EXCEPT ![th[t].self] = th[t].to]
    BY <1>5 DEF SeekShadow
  <2>2. mem' \in [Addrs -> 0..Length \cup {None}]
    BY <1>1, <1>2, <1>3, <2>1
  <2>3. TypeInv'
    BY <1>1, <1>4, <2>2, StepType DEF TypeInv, TypeOK
  <2> QED
    BY <1>1, <1>2, <1>3, <2>1, <2>3, NoneAssumption DEF Step
<1>6. CASE ReadShadow(t)
  <2>1. mem' = [mem EXCEPT ![th[t].self] = After(@)]
    BY <1>6 DEF ReadShadow
  <2>2. After(mem[th[t].self]) \in 0..Length /\ After(mem[th[t].self]) # None
    BY <1>1, <1>3, AfterType, NoneAssumption
  <2>3. mem' \in [Addrs -> 0..Length \cup {None}]
    BY <1>1, <1>3, <2>1, <2>2
  <2>4. TypeInv'
    BY <1>1, <1>4, <2>3, StepType DEF TypeInv, TypeOK
  <2> QED
    BY <1>1, <1>3, <2>1, <2>2, <2>4 DEF Step
<1> QED
  BY <1>5, <1>6

LEMMA CloseType ==
    ASSUME TypeInv, NEW t \in Threads, CloseReal(t) \/ CleanClose(t)
    PROVE  /\ TypeInv' /\ UNCHANGED setup /\ mem' = mem /\ lost' = lost /\ alive' = alive
           /\ th[t].pc \in OnFd /\ th[t].op = "close" /\ CloseFd(th[t].fd)
           /\ th'[t] \in Call /\ th'[t].fd = None
           /\ \A u \in Threads \ {t} : th'[u] = th[u]
           /\ CloseReal(t) => ~Mapped(t) /\ th[t].pc = "found" /\ th'[t].pc = "idle"
           /\ CleanClose(t) => /\ th[t].pc = "fclose" /\ th'[t].pc = "delete"
                               /\ th'[t].self = th[t].self
<1>1. th[t].pc \in {"found", "fclose"} /\ th[t].op = "close"
  BY DEF CloseReal, CleanClose, At, TypeInv, Shape, Shaped
<1>2. th[t].pc \in OnFd
  BY <1>1 DEF OnFd
<1>3. /\ UNCHANGED setup /\ mem' = mem /\ lost' = lost /\ alive' = alive /\ CloseFd(th[t].fd)
      /\ th[t] \in Call /\ \A u \in Threads : th[u].fd # None => th[u].fd \in Fds
  BY <1>2, OpenedType DEF CloseReal, CleanClose, TypeInv, TypeOK, Call
<1>4. PICK call \in Call :
          /\ Step(t, call) /\ Shaped(call) /\ call.fd = None
          /\ CloseReal(t) => ~Mapped(t) /\ th[t].pc = "found" /\ call.pc = "idle"
          /\ CleanClose(t) => th[t].pc = "fclose" /\ call.pc = "delete" /\ call.self = th[t].self
  <2>1. CASE CloseReal(t)
    <3>1. ~At(t, "fclose")
      BY <2>1 DEF CloseReal, At
    <3> QED
      BY <2>1, <3>1, NoCallType DEF CloseReal, CleanClose, Returns, At
  <2>2. CASE CleanClose(t)
    <3> DEFINE call == [th[t] EXCEPT !.pc = "delete", !.fd = None]
    <3>1. /\ call \in Call /\ call.fd = None /\ call.pc = "delete"
          /\ call.self = th[t].self
      BY <1>3 DEF Call
    <3>2. th[t].pc = "fclose" /\ th[t].self \in Addrs /\ Step(t, call)
      BY <2>2 DEF CleanClose, At, TypeInv, Shape, Shaped
    <3> HIDE DEF call
    <3>3. Shaped(call)
      BY <3>1, <3>2 DEF Shaped, OnFd
    <3>4. ~CloseReal(t)
      BY <3>2 DEF CloseReal, At
    <3> QED
      BY <3>1, <3>2, <3>3, <3>4
  <2> QED
    BY <2>1, <2>2
<1>5. /\ fd_table' \in [Fds -> Description \cup {None}]
      /\ \A u \in Threads \ {t} :
            th[u].fd # None => fd_table'[th[u].fd] # None /\
                               fd_table'[th[u].fd].kind = fd_table[th[u].fd].kind
  BY <1>1, <1>2, <1>3, CloseAlone
<1>6. /\ th' \in [Threads -> Call] /\ Shape' /\ UsedOpen' /\ Exclusive'
      /\ th'[t] = call /\ \A u \in Threads \ {t} : th'[u] = th[u]
  BY <1>3, <1>4, <1>5, CallMoves, RestKeeps
<1>7. TypeInv'
  BY <1>3, <1>5, <1>6, StepType DEF TypeInv, TypeOK
<1> QED
  BY <1>1, <1>2, <1>3, <1>4, <1>6, <1>7

LEMMA CleanMappingType ==
    ASSUME TypeInv, NEW t \in Threads, CleanMapping(t)
    PROVE  /\ TypeInv' /\ fd_table' = fd_table /\ mem' = mem /\ lost' = lost /\ alive' = alive
           /\ use_shared_mem' = use_shared_mem /\ init_pc' = init_pc /\ hooked' = hooked
           /\ th[t].pc = "found" /\ th'[t].pc = "fclose" /\ Mapped(t) /\ th[t].self \in Addrs
           /\ th'[t].fd = th[t].fd /\ th'[t].self = th[t].self
           /\ \A u \in Threads \ {t} : th'[u] = th[u]
<1>1. /\ UNCHANGED <<ashmem, use_shared_mem, init_pc, hooked, fd_table, mem, lost, reply, alive>>
      /\ th[t].pc = "found" /\ th[t].op = "close" /\ Mapped(t) /\ Goto(t, "fclose")
  BY DEF CleanMapping, At
<1>2. th[t].self \in Addrs /\ th[t] \in Call /\ th[t].fd \in Fds
  BY <1>1, MappedType, OpenedType DEF OnFd
<1> DEFINE call == [th[t] EXCEPT !.pc = "fclose"]
<1>3. /\ call \in Call /\ call.pc = "fclose" /\ call.op = "close"
      /\ call.self = th[t].self /\ call.fd = th[t].fd
  BY <1>1, <1>2 DEF Call
<1>4. Step(t, call)
  BY <1>1 DEF Goto
<1> HIDE DEF call
<1>5. Shaped(call)
  BY <1>2, <1>3 DEF Shaped, OnFd
<1>6. /\ th' \in [Threads -> Call] /\ Shape' /\ UsedOpen' /\ Exclusive'
      /\ th'[t] = call /\ \A u \in Threads \ {t} : th'[u] = th[u]
  BY <1>1, <1>3, <1>4, <1>5, CallGoesOn
<1>7. fds_dir' = fds_dir \/ (fds_dir # None /\ fds_dir' \subseteq fds_dir /\ ~use_shared_mem)
  BY DEF CleanMapping
<1>8. TypeOK'
  BY <1>1, <1>6, <1>7 DEF TypeInv, TypeOK
<1>9. SetUp'
  BY <1>1, <1>7 DEF TypeInv, SetUp
<1> QED
  BY <1>1, <1>2, <1>3, <1>6, <1>8, <1>9 DEF TypeInv

LEMMA CleanDeleteType ==
    ASSUME TypeInv, NEW t \in Threads, CleanDelete(t)
    PROVE  /\ TypeInv' /\ UNCHANGED setup /\ fd_table' = fd_table /\ alive' = alive
           /\ th' = [th EXCEPT ![t] = NoCall] /\ th[t].pc = "delete"
           /\ th[t].self \in Addrs
           /\ \A x \in Addrs \ {th[t].self} : mem'[x] = mem[x]
           /\ mem'[th[t].self] = None
           /\ lost' = lost \ {th[t].self}
<1>1. /\ UNCHANGED setup /\ fd_table' = fd_table /\ alive' = alive /\ Step(t, NoCall)
      /\ mem' = [mem EXCEPT ![th[t].self] = None] /\ th[t].pc = "delete"
      /\ lost' = lost \ {th[t].self}
  BY DEF CleanDelete, At
<1>2. th[t].self \in Addrs
  BY <1>1 DEF TypeInv, Shape, Shaped
<1>3. mem \in [Addrs -> 0..Length \cup {None}]
  BY DEF TypeInv, TypeOK
<1>4. mem' \in [Addrs -> 0..Length \cup {None}]
  BY <1>1, <1>2, <1>3
<1>5. th' \in [Threads -> Call] /\ Shape' /\ UsedOpen' /\ Exclusive'
  BY <1>1, NoCallType, CallGoesOn, RestKeeps
<1>6. TypeInv'
  BY <1>1, <1>4, <1>5, StepType DEF TypeInv, TypeOK
<1> QED
  BY <1>1, <1>2, <1>3, <1>6 DEF Step

-----------------------------------------------------------------------------
(***************************************************************************)
(* A FileExtraData in use is there, and has one owner.                     *)
(***************************************************************************)
\* A call moves on, and no descriptor comes, goes or hides another handle.
LEMMA SafeFrame ==
    ASSUME SafeInv, TypeInv', NEW t \in Threads,
           \A u \in Threads \ {t} : th'[u] = th[u],
           \A fd \in Fds : (Hides(fd)' <=> Hides(fd))
                           /\ (Hides(fd) => fd_table'[fd].self = fd_table[fd].self),
           \A x \in Addrs : mem[x] # None => mem'[x] # None,
           \A x \in lost' : x \in lost \/ mem[x] # None,
           th'[t].pc \in {"save", "delete"} => Holds(t) /\ th'[t].self = th[t].self,
           (th'[t].pc \in OnFd /\ th'[t].self # None) =>
              Hides(th'[t].fd) /\ fd_table[th'[t].fd].self = th'[t].self
    PROVE  SafeInv'
<1>1. \A u \in Threads : th[u].pc \in OnFd => th[u].fd \in Fds
  BY DEF SafeInv, TypeInv, Shape, Shaped
<1>2. \A u \in Threads : th'[u].pc \in OnFd => th'[u].fd \in Fds
  BY DEF TypeInv, Shape, Shaped
<1>3. \A u \in Threads : Holds(u) => th[u].self \in Addrs
  BY DEF SafeInv, TypeInv, Shape, Shaped, Holds
<1>4. \A fd \in Fds : Hides(fd) => fd_table[fd].self \in Addrs
  BY DescriptionKinds DEF SafeInv, TypeInv, TypeOK, Hides, KindOf
<1>5. Maps'
  <2> SUFFICES ASSUME NEW u \in Threads, th'[u].pc \in OnFd, th'[u].self # None
               PROVE  (Hides(th[u].fd) /\ fd_table[th[u].fd].self = th[u].self)'
    BY DEF Maps, Mapped, Opened
  <2>1. PICK fd \in Fds : fd = th'[u].fd
    BY <1>2
  <2>2. Hides(fd) /\ fd_table[fd].self = th'[u].self
    BY <2>1 DEF SafeInv, Maps, Mapped, Opened
  <2>3. Hides(fd)' /\ fd_table'[fd].self = th'[u].self
    BY <2>2
  <2> QED
    BY <2>1, <2>3 DEF Hides, KindOf
<1>6. \A u \in Threads : Holds(u)' => Holds(u) /\ th'[u].self = th[u].self
  BY DEF Holds
<1>7. Live'
  <2>1. lost' \subseteq Addrs
    BY DEF TypeInv, TypeOK
  <2> QED
    BY <1>3, <1>4, <1>6, <2>1 DEF SafeInv, Live
<1>8. OneOwner'
  BY <1>6 DEF SafeInv, OneOwner
<1> QED
  BY <1>5, <1>7, <1>8 DEF SafeInv

LEMMA InitSafe == Init => SafeInv
<1> SUFFICES ASSUME Init PROVE SafeInv
  OBVIOUS
<1>1. /\ \A t \in Threads : th[t].pc = "idle" /\ th[t].fd = None
      /\ \A fd \in Fds : fd_table[fd] = None
      /\ lost = {}
  BY DEF Init, NoCall
<1> QED
  BY <1>1, InitType DEF SafeInv, Maps, Live, OneOwner, Hides, Holds, OnFd

LEMMA BootstrapSafe == SafeInv /\ Bootstrap => SafeInv'
<1> SUFFICES ASSUME SafeInv, Bootstrap PROVE SafeInv'
  OBVIOUS
<1>1. fd_table' = fd_table /\ mem' = mem /\ th' = th /\ lost' = lost
  BY RestKeeps DEF Bootstrap, InitAshmem, InitDir, InitUnlink, InstallHook
<1> QED
  BY <1>1, BootstrapType DEF SafeInv, Maps, Mapped, Opened, Live, OneOwner, Hides, KindOf, Holds

\* The thread of a call that is over.
LEMMA NoCallStep ==
    ASSUME TypeInv, NEW t \in Threads, Step(t, NoCall)
    PROVE  /\ th'[t] = NoCall /\ th'[t].pc = "idle" /\ th'[t].fd = None
           /\ \A u \in Threads \ {t} : th'[u] = th[u]
BY NoCallType DEF TypeInv, TypeOK, Step

\* No two of the descriptors, and no call and a descriptor, have an address twice.
LEMMA FdsSelfs ==
    ASSUME TypeInv
    PROVE  /\ \A fd \in Fds : Hides(fd) => fd_table[fd].self \in Addrs
           /\ \A u \in Threads : Holds(u) => th[u].self \in Addrs
           /\ \A u \in Threads : th[u].pc \in OnFd => th[u].fd \in Fds /\ fd_table[th[u].fd] # None
<1>1. \A fd \in Fds : Hides(fd) => fd_table[fd].self \in Addrs
  BY DescriptionKinds DEF TypeInv, TypeOK, Hides, KindOf
<1> QED
  BY <1>1, OpenedType DEF Opened, TypeInv, Shape, Shaped, Holds

LEMMA OpenRealSafe ==
    ASSUME SafeInv, NEW t \in Threads, OpenReal(t)
    PROVE  SafeInv'
<1>1. PICK fd \in Fds, kind \in {"apk", "other"} :
          NewFd(fd, RealFile(kind, 0)) /\ Returns(t, "open", kind, 0)
  BY DEF OpenReal
<1>2. mem' = mem /\ TypeInv /\ TypeInv' /\ Step(t, NoCall)
  BY <1>1, OpenType DEF OpenReal, SafeInv, Returns
<1>3. ~Hides(fd) /\ ~Hides(fd)'
  BY <1>1, <1>2, NewFdType, RealFileType DEF Hides, KindOf, Kinds
<1>4. \A gd \in Fds \ {fd} : fd_table'[gd] = fd_table[gd]
  BY <1>1, <1>2, NewFdType, RealFileType
<1>5. \A gd \in Fds : (Hides(gd)' <=> Hides(gd))
                      /\ (Hides(gd) => fd_table'[gd].self = fd_table[gd].self)
  BY <1>3, <1>4 DEF Hides, KindOf
<1>6. th'[t].pc = "idle" /\ \A u \in Threads \ {t} : th'[u] = th[u]
  BY <1>2, NoCallStep
<1>7. th'[t].pc \notin {"save", "delete"} /\ th'[t].pc \notin OnFd
  BY <1>6 DEF OnFd
<1> QED
  BY <1>2, <1>5, <1>6, <1>7, SafeFrame, LostStays

LEMMA OpenApkSafe ==
    ASSUME SafeInv, NEW t \in Threads, OpenApk(t)
    PROVE  SafeInv'
<1>1. PICK self \in Addrs :
          /\ mem[self] = None
          /\ mem' = [mem EXCEPT ![self] = 0]
          /\ Step(t, [NoCall EXCEPT !.pc = "save", !.op = "open", !.self = self])
  BY DEF OpenApk
<1>2. fd_table' = fd_table /\ TypeInv /\ TypeInv' /\ th[t].pc = "idle"
  BY OpenType DEF OpenApk, SafeInv, At
<1>3. /\ th'[t] = [NoCall EXCEPT !.pc = "save", !.op = "open", !.self = self]
      /\ \A u \in Threads \ {t} : th'[u] = th[u]
  BY <1>1, <1>2 DEF TypeInv, TypeOK, Step
<1>4. th'[t].pc = "save" /\ th'[t].self = self
  BY <1>3, NoCallType DEF Call
<1>5. mem'[self] # None /\ \A x \in Addrs : mem[x] # None => x # self /\ mem'[x] # None
  BY <1>1, <1>2, NoneAssumption, LengthAssumption DEF TypeInv, TypeOK
<1>6. \A fd \in Fds : (Hides(fd)' <=> Hides(fd))
                      /\ (Hides(fd) => fd_table'[fd].self = fd_table[fd].self
                                       /\ fd_table[fd].self \in Addrs /\ fd_table[fd].self # self)
  BY <1>1, <1>2, FdsSelfs DEF Hides, KindOf, SafeInv, Live
<1>7. \A u \in Threads \ {t} : (Holds(u)' <=> Holds(u)) /\ th'[u].self = th[u].self
                               /\ (Holds(u) => th[u].self \in Addrs /\ th[u].self # self)
  BY <1>1, <1>2, <1>3, FdsSelfs DEF Holds, SafeInv, Live
<1>8. Maps'
  <2> SUFFICES ASSUME NEW u \in Threads, (th[u].pc \in OnFd /\ Mapped(u))'
               PROVE  (Hides(th[u].fd) /\ Opened(u).self = th[u].self)'
    BY DEF Maps
  <2>1. u # t
    BY <1>4 DEF OnFd
  <2>2. th'[u] = th[u]
    BY <1>3, <2>1
  <2>3. Hides(th[u].fd) /\ Opened(u).self = th[u].self
    BY <2>2 DEF SafeInv, Maps, Mapped
  <2> QED
    BY <1>2, <2>2, <2>3 DEF Hides, KindOf, Opened
<1>9. Live'
  <2>1. lost' = lost /\ lost \subseteq Addrs
    BY <1>2, LostStays DEF TypeInv, TypeOK
  <2> QED
    BY <1>4, <1>5, <1>6, <1>7, <2>1 DEF SafeInv, Live
<1>10. OneOwner'
  BY <1>4, <1>6, <1>7 DEF SafeInv, OneOwner
<1> QED
  BY <1>2, <1>8, <1>9, <1>10 DEF SafeInv

\* The descriptor takes the handle over from the call.
LEMMA SavedSafe ==
    ASSUME SafeInv, NEW t \in Threads, SaveMem(t) \/ SaveFile(t)
    PROVE  /\ SafeInv' /\ mem' = mem /\ use_shared_mem' = use_shared_mem /\ alive' = alive
           /\ init_pc' = init_pc /\ hooked' = hooked /\ At(t, "save") /\ th[t].self \in Addrs
           /\ th'[t].pc = "idle" /\ \A u \in Threads \ {t} : th'[u] = th[u]
           /\ \E fd \in Fds :
                 /\ fd_table[fd] = None /\ Hides(fd)' /\ (\A u \in Threads : th[u].fd # fd)
                 /\ fd_table'[fd].pos = 0 /\ fd_table'[fd].self = th[t].self
                 /\ fd_table'[fd].kind \in IF SaveMem(t) THEN {"shm"} ELSE {"map", "short"}
                 /\ lost' = IF fd_table'[fd].kind = "short" THEN lost \cup {th[t].self} ELSE lost
                 /\ \A gd \in Fds \ {fd} : fd_table'[gd] = fd_table[gd]
<1>1. PICK kind \in Kinds :
          /\ Saved(t, kind)
          /\ kind \in IF SaveMem(t) THEN {"shm"} ELSE {"map", "short"}
          /\ lost' = IF kind = "short" THEN lost \cup {th[t].self} ELSE lost
  BY DEF SaveMem, SaveFile, Kinds
<1>2. PICK fd \in Fds :
          /\ NewFd(fd, [kind |-> kind, pos |-> 0, self |-> th[t].self])
          /\ Returns(t, "open", "shadow", 0)
  BY <1>1 DEF Saved
<1>3. /\ mem' = mem /\ TypeInv /\ TypeInv' /\ Step(t, NoCall) /\ At(t, "save")
      /\ use_shared_mem' = use_shared_mem /\ init_pc' = init_pc /\ hooked' = hooked
      /\ alive' = alive
  BY <1>2, OpenType, RestKeeps DEF SaveMem, SaveFile, SafeInv, Returns
<1>4. th[t].self \in Addrs
  BY <1>3 DEF At, TypeInv, Shape, Shaped
<1> DEFINE new == [kind |-> kind, pos |-> 0, self |-> th[t].self]
<1>5. new \in Description /\ new.kind = kind /\ new.pos = 0 /\ new.self = th[t].self
  BY <1>4, HiddenType
<1> HIDE DEF new
<1>6. /\ fd_table[fd] = None /\ fd_table'[fd] = new /\ new # None
      /\ \A gd \in Fds \ {fd} : fd_table'[gd] = fd_table[gd]
      /\ \A u \in Threads : th[u].fd # fd
  BY <1>2, <1>3, <1>5, NewFdType DEF new
<1>7. Hides(fd)' /\ ~Hides(fd) /\ fd_table'[fd].self = th[t].self
  BY <1>5, <1>6 DEF Hides, KindOf
<1>8. th'[t].pc = "idle" /\ \A u \in Threads \ {t} : th'[u] = th[u]
  BY <1>3, NoCallStep
<1>9. ~Holds(t)' /\ Holds(t)
  BY <1>3, <1>8 DEF Holds, At
<1>10. \A u \in Threads \ {t} : (Holds(u)' <=> Holds(u)) /\ th'[u].self = th[u].self
  BY <1>8 DEF Holds
<1>11. \A gd \in Fds \ {fd} : (Hides(gd)' <=> Hides(gd)) /\ fd_table'[gd].self = fd_table[gd].self
  BY <1>6 DEF Hides, KindOf
<1>12. Maps'
  <2> SUFFICES ASSUME NEW u \in Threads, th'[u].pc \in OnFd, th'[u].self # None
               PROVE  (Hides(th[u].fd) /\ fd_table[th[u].fd].self = th[u].self)'
    BY DEF Maps, Mapped, Opened
  <2>1. u # t /\ th'[u] = th[u]
    BY <1>8 DEF OnFd
  <2>2. /\ th[u].fd \in Fds \ {fd} /\ Hides(th[u].fd) /\ fd_table[th[u].fd].self = th[u].self
    BY <1>3, <1>6, <2>1, FdsSelfs DEF SafeInv, Maps, Mapped, Opened
  <2> QED
    BY <1>6, <2>1, <2>2 DEF Hides, KindOf
<1>13. Live'
  <2>1. \A x \in lost' : x \in lost \/ x = th[t].self
    BY <1>1
  <2> QED
    BY <1>3, <1>7, <1>9, <1>10, <1>11, <2>1 DEF SafeInv, Live
<1>14. OneOwner'
  BY <1>7, <1>9, <1>10, <1>11 DEF SafeInv, OneOwner
<1> QED
  BY <1>1, <1>3, <1>4, <1>5, <1>6, <1>7, <1>8, <1>12, <1>13, <1>14 DEF SafeInv

\* What get_mapping can have found.
LEMMA LookupFinds ==
    ASSUME TypeInv, NEW t \in Threads, Lookup(t)
    PROVE  \/ th'[t].self = None \/ th'[t].self = th[t].self
           \/ Hides(th[t].fd) /\ th'[t].self = Opened(t).self
<1>1. th[t].pc \in OnFd /\ th[t] \in Call /\ Opened(t) # None /\ th \in [Threads -> Call]
  BY LookupType, OpenedType DEF TypeInv, TypeOK
<1>2. \A step, self : th' = [th EXCEPT ![t] = [th[t] EXCEPT !.pc = step, !.self = self]]
                      => th'[t].self = self
  BY <1>1 DEF Call
<1>3. \A step : th' = [th EXCEPT ![t] = [th[t] EXCEPT !.pc = step]] => th'[t].self = th[t].self
  BY <1>1 DEF Call
<1>4. \A kind \in Kinds : SelfOf(t, kind) = None
                          \/ (Hides(th[t].fd) /\ SelfOf(t, kind) = Opened(t).self)
  BY <1>1 DEF SelfOf, Hides, KindOf, Opened
<1>5. CASE LookupMem(t)
  <2>1. Found(t, SelfOf(t, "shm")) \/ Found(t, None)
    BY <1>5 DEF LookupMem
  <2> QED
    BY <1>2, <1>4, <2>1 DEF Found, Step, Kinds
<1>6. CASE LookupFile(t)
  BY <1>3, <1>6 DEF LookupFile, Goto, Step
<1>7. CASE LookupPos(t)
  <2>1. Found(t, None) \/ Goto(t, "read")
    BY <1>7 DEF LookupPos
  <2> QED
    BY <1>2, <1>3, <2>1 DEF Found, Goto, Step
<1>8. CASE LookupRead(t)
  <2>1. \/ Step(t, [th[t] EXCEPT !.pc = "rewind", !.self = SelfOf(t, "map")])
        \/ Step(t, [th[t] EXCEPT !.pc = "rewind", !.self = None])
    BY <1>8 DEF LookupRead
  <2> QED
    BY <1>2, <1>4, <2>1 DEF Step, Kinds
<1>9. CASE LookupRewind(t)
  BY <1>2, <1>9 DEF LookupRewind, Found, Step
<1> QED
  BY <1>5, <1>6, <1>7, <1>8, <1>9 DEF Lookup

LEMMA CallSafe ==
    ASSUME SafeInv, NEW t \in Threads, Begin(t) \/ Lookup(t)
    PROVE  SafeInv'
<1>1. TypeInv
  BY DEF SafeInv
<1>2. CASE Begin(t)
  <2>1. /\ TypeInv' /\ fd_table' = fd_table /\ mem' = mem /\ lost' = lost
        /\ th'[t].pc \in {"lookup", "found"} /\ th'[t].self = None
        /\ \A u \in Threads \ {t} : th'[u] = th[u]
    BY <1>1, <1>2, BeginType
  <2>2. \A fd \in Fds : (Hides(fd)' <=> Hides(fd))
                        /\ (Hides(fd) => fd_table'[fd].self = fd_table[fd].self)
    BY <2>1 DEF Hides, KindOf
  <2> QED
    BY <2>1, <2>2, SafeFrame
<1>3. CASE Lookup(t)
  <2>1. /\ TypeInv' /\ mem' = mem
        /\ th[t].pc \in OnFd /\ th'[t].pc \in OnFd /\ th'[t].fd = th[t].fd
        /\ \A u \in Threads \ {t} : th'[u] = th[u]
        /\ \A fd \in Fds : (Hides(fd)' <=> Hides(fd))
                           /\ (Hides(fd) => fd_table'[fd].self = fd_table[fd].self)
        /\ lost' = lost \/ (Hides(th[t].fd) /\ lost' = lost \cup {Opened(t).self})
    BY <1>1, <1>3, LookupType
  <2>2. th'[t].self # None =>
            Hides(th'[t].fd) /\ fd_table[th'[t].fd].self = th'[t].self
    BY <1>1, <1>3, <2>1, LookupFinds DEF SafeInv, Maps, Mapped, Opened
  <2>3. th'[t].pc \notin {"save", "delete"}
    BY <2>1 DEF OnFd
  <2>4. \A x \in lost' : x \in lost \/ mem[x] # None
    BY <1>1, <2>1, FdsSelfs DEF SafeInv, Live, Opened
  <2> QED
    BY <2>1, <2>2, <2>3, <2>4, SafeFrame
<1> QED
  BY <1>2, <1>3

\* A handle that a call has found is there.
LEMMA FoundLive ==
    ASSUME SafeInv, NEW t \in Threads, th[t].pc \in OnFd, Mapped(t)
    PROVE  /\ th[t].self \in Addrs /\ mem[th[t].self] # None
           /\ th[t].fd \in Fds /\ Hides(th[t].fd) /\ fd_table[th[t].fd].self = th[t].self
BY FdsSelfs DEF SafeInv, Maps, Live, Opened

LEMMA ServeSafe ==
    ASSUME SafeInv, NEW t \in Threads,
           ReadReal(t) \/ SeekReal(t) \/ ReadShadow(t) \/ SeekShadow(t) \/ CleanMapping(t)
    PROVE  SafeInv'
<1>1. TypeInv
  BY DEF SafeInv
<1>2. CASE ReadReal(t) \/ SeekReal(t)
  <2>1. /\ TypeInv' /\ mem' = mem /\ th' = [th EXCEPT ![t] = NoCall] /\ th[t].pc \in OnFd
        /\ lost' = lost
        /\ \E pos \in 0..Length : SetPos(t, pos) /\ (KindOf(th[t].fd) \in Kinds => pos \in {0, 1})
    BY <1>1, <1>2, ServeRealType DEF OnFd
  <2>2. th'[t].pc = "idle" /\ \A u \in Threads \ {t} : th'[u] = th[u]
    BY <1>1, <2>1, NoCallStep DEF Step
  <2>3. \A fd \in Fds : (Hides(fd)' <=> Hides(fd))
                        /\ (Hides(fd) => fd_table'[fd].self = fd_table[fd].self)
    BY <1>1, <2>1, SetPosHides
  <2>4. th'[t].pc \notin OnFd \cup {"save", "delete"}
    BY <2>2 DEF OnFd
  <2> QED
    BY <2>1, <2>2, <2>3, <2>4, SafeFrame
<1>3. CASE ReadShadow(t) \/ SeekShadow(t)
  <2>1. th[t].pc \in OnFd /\ Mapped(t)
    BY <1>3 DEF ReadShadow, SeekShadow, At, OnFd
  <2>2. mem[th[t].self] # None
    BY <2>1, FoundLive
  <2>3. /\ TypeInv' /\ fd_table' = fd_table /\ lost' = lost /\ th' = [th EXCEPT ![t] = NoCall]
        /\ \A x \in Addrs : mem[x] # None => mem'[x] # None
    BY <1>1, <1>3, <2>2, ServeShadowType
  <2>4. th'[t].pc = "idle" /\ \A u \in Threads \ {t} : th'[u] = th[u]
    BY <1>1, <2>3, NoCallStep DEF Step
  <2>5. \A fd \in Fds : (Hides(fd)' <=> Hides(fd))
                        /\ (Hides(fd) => fd_table'[fd].self = fd_table[fd].self)
    BY <2>3 DEF Hides, KindOf
  <2>6. th'[t].pc \notin OnFd \cup {"save", "delete"}
    BY <2>4 DEF OnFd
  <2> QED
    BY <2>3, <2>4, <2>5, <2>6, SafeFrame
<1>4. CASE CleanMapping(t)
  <2>1. /\ TypeInv' /\ fd_table' = fd_table /\ mem' = mem /\ lost' = lost
        /\ th[t].pc \in OnFd /\ Mapped(t) /\ th'[t].pc = "fclose"
        /\ th'[t].fd = th[t].fd /\ th'[t].self = th[t].self
        /\ \A u \in Threads \ {t} : th'[u] = th[u]
    BY <1>1, <1>4, CleanMappingType DEF OnFd
  <2>2. \A fd \in Fds : (Hides(fd)' <=> Hides(fd))
                        /\ (Hides(fd) => fd_table'[fd].self = fd_table[fd].self)
    BY <2>1 DEF Hides, KindOf
  <2>3. Hides(th'[t].fd) /\ fd_table[th'[t].fd].self = th'[t].self
    BY <2>1, FoundLive
  <2> QED
    BY <2>1, <2>2, <2>3, SafeFrame
<1> QED
  BY <1>2, <1>3, <1>4

\* A descriptor goes; its handle with it, but for clean_mapping_data, which takes
\* the handle over.
LEMMA CloseSafe ==
    ASSUME SafeInv, NEW t \in Threads, CloseReal(t) \/ CleanClose(t)
    PROVE  SafeInv'
<1>1. TypeInv
  BY DEF SafeInv
<1>2. /\ TypeInv' /\ mem' = mem /\ lost' = lost
      /\ th[t].pc \in OnFd /\ th[t].op = "close" /\ CloseFd(th[t].fd)
      /\ \A u \in Threads \ {t} : th'[u] = th[u]
      /\ CloseReal(t) => th'[t].pc = "idle"
      /\ CleanClose(t) => /\ th[t].pc = "fclose" /\ th'[t].pc = "delete"
                          /\ th'[t].self = th[t].self
  BY <1>1, CloseType
<1>3. PICK fd \in Fds : fd = th[t].fd
  BY <1>1, <1>2, FdsSelfs
<1>4. /\ fd_table'[fd] = None
      /\ \A gd \in Fds \ {fd} : fd_table'[gd] = fd_table[gd]
      /\ \A u \in Threads \ {t} : th[u].fd # fd
  BY <1>1, <1>2, <1>3, CloseAlone
<1>5. ~Hides(fd)' /\ \A gd \in Fds \ {fd} : (Hides(gd)' <=> Hides(gd))
  BY <1>4 DEF Hides, KindOf
<1>6. th'[t].pc \notin OnFd \cup {"save"}
  BY <1>2 DEF OnFd
<1>7. Maps'
  <2> SUFFICES ASSUME NEW u \in Threads, th'[u].pc \in OnFd, th'[u].self # None
               PROVE  (Hides(th[u].fd) /\ fd_table[th[u].fd].self = th[u].self)'
    BY DEF Maps, Mapped, Opened
  <2>1. u # t /\ th'[u] = th[u]
    BY <1>2, <1>6
  <2>2. th[u].fd \in Fds \ {fd} /\ Hides(th[u].fd) /\ fd_table[th[u].fd].self = th[u].self
    BY <1>1, <1>4, <2>1, FdsSelfs DEF SafeInv, Maps, Mapped, Opened
  <2> QED
    BY <1>4, <2>1, <2>2 DEF Hides, KindOf
<1>8. \A u \in Threads \ {t} : (Holds(u)' <=> Holds(u)) /\ th'[u].self = th[u].self
  BY <1>2 DEF Holds
<1>9. CASE CloseReal(t)
  <2>1. ~Holds(t)'
    BY <1>2, <1>9 DEF Holds
  <2>2. Live' /\ OneOwner'
    BY <1>2, <1>4, <1>5, <1>8, <2>1 DEF SafeInv, Live, OneOwner
  <2> QED
    BY <1>2, <1>7, <2>2 DEF SafeInv
<1>10. CASE CleanClose(t)
  <2>1. Mapped(t)
    BY <1>1, <1>2, <1>10, NoneAssumption DEF TypeInv, Shape, Shaped, Mapped
  <2>2. Hides(fd) /\ fd_table[fd].self = th[t].self /\ th'[t].self = th[t].self
        /\ mem[th[t].self] # None
    BY <1>2, <1>3, <1>10, <2>1, FoundLive
  <2>3. Live'
    BY <1>2, <1>4, <1>5, <1>8, <2>2 DEF SafeInv, Live
  <2>4. OneOwner'
    BY <1>4, <1>5, <1>8, <2>2 DEF SafeInv, OneOwner
  <2> QED
    BY <1>2, <1>7, <2>3, <2>4 DEF SafeInv
<1> QED
  BY <1>9, <1>10

LEMMA DeleteSafe ==
    ASSUME SafeInv, NEW t \in Threads, CleanDelete(t)
    PROVE  SafeInv'
<1>1. TypeInv
  BY DEF SafeInv
<1>2. /\ TypeInv' /\ fd_table' = fd_table /\ th' = [th EXCEPT ![t] = NoCall]
      /\ th[t].pc = "delete" /\ th[t].self \in Addrs
      /\ \A x \in Addrs \ {th[t].self} : mem'[x] = mem[x]
      /\ lost' = lost \ {th[t].self} /\ lost \subseteq Addrs
  BY <1>1, CleanDeleteType DEF TypeInv, TypeOK
<1>3. th'[t].pc = "idle" /\ \A u \in Threads \ {t} : th'[u] = th[u]
  BY <1>1, <1>2, NoCallStep DEF Step
<1>4. Holds(t) /\ ~Holds(t)'
  BY <1>2, <1>3 DEF Holds
<1>5. \A fd \in Fds : (Hides(fd)' <=> Hides(fd)) /\ fd_table'[fd].self = fd_table[fd].self
                      /\ (Hides(fd) => fd_table[fd].self \in Addrs \ {th[t].self})
  BY <1>1, <1>2, <1>4, FdsSelfs DEF Hides, KindOf, SafeInv, OneOwner
<1>6. \A u \in Threads \ {t} : (Holds(u)' <=> Holds(u)) /\ th'[u].self = th[u].self
                               /\ (Holds(u) => th[u].self \in Addrs \ {th[t].self})
  BY <1>1, <1>2, <1>3, <1>4, FdsSelfs DEF Holds, SafeInv, OneOwner
<1>7. Maps'
  BY <1>2, <1>3 DEF SafeInv, Maps, Mapped, Opened, OnFd, Hides, KindOf
<1>8. Live'
  BY <1>2, <1>4, <1>5, <1>6 DEF SafeInv, Live
<1>9. OneOwner'
  BY <1>4, <1>5, <1>6 DEF SafeInv, OneOwner
<1> QED
  BY <1>2, <1>7, <1>8, <1>9 DEF SafeInv

LEMMA NothingSafe ==
    ASSUME SafeInv, UNCHANGED <<setup, fd_table, mem, lost, th>>, alive' \in BOOLEAN
    PROVE  SafeInv'
<1>1. Shape' /\ UsedOpen' /\ Exclusive'
  BY RestKeeps DEF SafeInv, TypeInv, Shape, Shaped, UsedOpen, Exclusive, Sharable, KindOf
<1>2. TypeInv'
  BY <1>1, StepType DEF SafeInv, TypeInv, TypeOK
<1> QED
  BY <1>2 DEF SafeInv, Maps, Mapped, Opened, Live, OneOwner, Hides, KindOf, Holds

LEMMA SafeNext == SafeInv /\ [Next]_vars => SafeInv'
<1> SUFFICES ASSUME SafeInv, [Next]_vars PROVE SafeInv'
  OBVIOUS
<1>1. CASE UNCHANGED vars
  BY <1>1, NothingSafe DEF vars, SafeInv, TypeInv, TypeOK
<1>2. CASE Exited
  BY <1>2, NothingSafe DEF Exited, vars, SafeInv, TypeInv, TypeOK
<1>3. ASSUME NEW t \in Threads, SaveFails(t) PROVE SafeInv'
  BY <1>3, NothingSafe DEF SaveFails, ExitNow
<1> QED
  BY <1>1, <1>2, <1>3, BootstrapSafe, OpenRealSafe, OpenApkSafe, SavedSafe, CallSafe, ServeSafe,
     CloseSafe, DeleteSafe DEF Next, Serve

THEOREM Safe == Spec => []SafeInv
BY InitSafe, SafeNext, PTL DEF Spec

\* Types, whether or not the engine is early.
THEOREM Typed == Spec => []TypeOK
<1>1. SafeInv => TypeOK
  BY DEF SafeInv, TypeInv
<1> QED
  BY <1>1, Safe, PTL

\* A handle that a call is about to use is that of its descriptor and has not been
\* deleted, even if the engine is early and hooks are missing: get_mapping,
\* clean_mapping_data and the hooks around them (bootstrap.cpp:170-258).
FoundHandleLives ==
    \A t \in Threads :
        (At(t, "found") /\ Mapped(t)) => /\ Opened(t).self = th[t].self
                                         /\ mem[th[t].self] # None
THEOREM HandlesLive == Spec => []FoundHandleLives
<1>1. SafeInv => FoundHandleLives
  BY FoundLive DEF FoundHandleLives, At, OnFd, Opened
<1> QED
  BY <1>1, Safe, PTL

-----------------------------------------------------------------------------
(***************************************************************************)
(* Lookups and what is left behind, if the engine is not early.            *)
(***************************************************************************)
LEMMA InitInv == Init /\ ~Early => Inv
<1> SUFFICES ASSUME Init, ~Early PROVE Inv
  OBVIOUS
<1>1. /\ \A t \in Threads : th[t].pc = "idle" /\ th[t].fd = None
      /\ \A fd \in Fds : fd_table[fd] = None
      /\ \A x \in Addrs : mem[x] = None
      /\ fds_dir # None => \A x \in fds_dir : x = "stale"
  BY DEF Init, NoCall
<1> QED
  BY <1>1, InitSafe DEF Inv, Quiet, Backed, Knows, KnowsOf, At, AtStart, Owned, Named, Names,
                        Hides, Missed

\* Whoever does something, bootstrap is through.
LEMMA StartedFirst ==
    ASSUME Inv, NEW t \in Threads,
           \/ OpenReal(t) \/ OpenApk(t) \/ SaveMem(t) \/ SaveFile(t) \/ SaveFails(t)
           \/ Begin(t) \/ Lookup(t) \/ Serve(t)
    PROVE  /\ Started /\ Started' /\ Quiet' /\ hooked = Ops
           /\ use_shared_mem' = use_shared_mem
<1>1. th[t].pc = "idle" => Started
  <2> SUFFICES ASSUME th[t].pc = "idle" PROVE Engine
    BY DEF Engine, Inv
  <2> QED
    BY DEF OpenReal, OpenApk, SaveMem, SaveFile, SaveFails, Begin, Lookup, LookupMem, LookupFile,
           LookupPos, LookupRead, LookupRewind, Serve, ReadReal, ReadShadow, SeekReal, SeekShadow,
           CloseReal, CleanMapping, CleanClose, CleanDelete, At
<1>2. Started
  BY <1>1 DEF Inv, Quiet
<1>3. init_pc' = init_pc /\ hooked' = hooked /\ use_shared_mem' = use_shared_mem
  BY RestKeeps DEF OpenReal, OpenApk, SaveMem, SaveFile, SaveFails, ExitNow, Begin, Lookup,
         LookupMem, LookupFile, LookupPos, LookupRead, LookupRewind, Serve, ReadReal, ReadShadow,
         SeekReal, SeekShadow, CloseReal, CleanMapping, CleanClose, CleanDelete
<1> QED
  BY <1>2, <1>3 DEF Started, Quiet

LEMMA BootstrapInv == Inv /\ Bootstrap => Inv'
<1> SUFFICES ASSUME Inv, Bootstrap PROVE Inv'
  OBVIOUS
<1>1. ~Started
  BY DEF Bootstrap, InitAshmem, InitDir, InitUnlink, InstallHook, Started
<1>2. fd_table' = fd_table /\ mem' = mem /\ th' = th
  BY RestKeeps DEF Bootstrap, InitAshmem, InitDir, InitUnlink, InstallHook
<1>3. /\ \A t \in Threads : th'[t].pc = "idle"
      /\ \A fd \in Fds : fd_table'[fd] = None
      /\ \A x \in Addrs : mem'[x] = None /\ mem[x] = None
  BY <1>1, <1>2 DEF Inv, Quiet
<1>4. \A x : Names(x) \/ x \in lost => x = "stale"
  BY <1>2, <1>3 DEF Names, Hides, Inv, SafeInv, TypeInv, TypeOK, Live
<1>5. Named'
  <2>1. fds_dir' # None => \A x \in fds_dir' : x = "stale"
    BY <1>4 DEF Inv, Named, Bootstrap, InitAshmem, InitDir, InitUnlink, InstallHook
  <2>2. \A t \in Threads : th'[t].pc \notin {"fclose", "delete"}
    BY <1>3
  <2> QED
    BY <2>1, <2>2 DEF Named, Names
<1> QED
  BY <1>3, <1>5, BootstrapSafe DEF Inv, Quiet, Backed, Knows, KnowsOf, At, AtStart, Owned, Hides

\* A handle that was lost stays so while a descriptor leads to it.
MissedStays == \A fd \in Fds : (Missed(fd) /\ Hides(fd)') => Missed(fd)'

LEMMA MissedStay ==
    ASSUME lost \subseteq lost',
           \A fd \in Fds : (Hides(fd) /\ Hides(fd)') => fd_table'[fd].self = fd_table[fd].self
    PROVE  MissedStays
BY DEF MissedStays, Missed

\* What the other calls know stays true.
LEMMA KnowsFrame ==
    ASSUME Inv, TypeInv', NEW t \in Threads, use_shared_mem' = use_shared_mem,
           \A u \in Threads \ {t} : th'[u] = th[u],
           \A fd \in Fds, u \in Threads \ {t} :
              th[u].fd = fd => /\ Hides(fd)' <=> Hides(fd)
                               /\ fd_table'[fd] = fd_table[fd] \/ use_shared_mem,
           MissedStays,
           \A u \in Threads \ {t} : At(u, "save") => mem'[th[u].self] = mem[th[u].self],
           KnowsOf(t)'
    PROVE  Knows'
<1> SUFFICES ASSUME NEW u \in Threads \ {t} PROVE KnowsOf(u)'
  BY DEF Knows
<1>1. KnowsOf(u) /\ th'[u] = th[u]
  BY DEF Inv, Knows
<1>2. CASE th[u].pc \in OnFd
  <2>1. PICK fd \in Fds : fd = th[u].fd
    BY <1>2, FdsSelfs DEF Inv, SafeInv
  <2>2. Hides(fd)' <=> Hides(fd)
    BY <2>1
  <2>3. th[u].pc \in {"read", "rewind"} => fd_table'[fd] = fd_table[fd]
    BY <1>1, <2>1 DEF KnowsOf
  <2>4. (Hides(th[u].fd))' <=> Hides(th[u].fd)
    BY <1>1, <2>1, <2>2 DEF Hides, KindOf
  <2>5. Missed(fd) => (Missed(fd))'
    BY <2>2 DEF MissedStays, Missed
  <2>6. Missed(th[u].fd) => (Missed(th[u].fd))'
    BY <1>1, <2>1, <2>5 DEF Missed, Hides, KindOf
  <2> QED
    BY <1>1, <1>2, <2>1, <2>3, <2>4, <2>6 DEF KnowsOf, At, Opened, Mapped, OnFd
<1>3. CASE th[u].pc \notin OnFd
  BY <1>1, <1>3 DEF KnowsOf, At, OnFd
<1> QED
  BY <1>2, <1>3

\* A step of one call during which descriptors keep their handles, and handles
\* their owners.
LEMMA InvFrame ==
    ASSUME Inv, SafeInv', Quiet', NEW t \in Threads,
           use_shared_mem' = use_shared_mem, fds_dir' = fds_dir,
           \A u \in Threads \ {t} : th'[u] = th[u],
           \A fd \in Fds : /\ Hides(fd)' <=> Hides(fd)
                           /\ Hides(fd) => /\ fd_table'[fd].self = fd_table[fd].self
                                           /\ fd_table'[fd].kind = fd_table[fd].kind,
           \A x \in Addrs : mem'[x] # None => mem[x] # None,
           lost \subseteq lost',
           th[t].pc \notin {"save", "delete", "fclose"},
           th'[t].pc \notin {"save", "delete", "fclose"},
           Knows', AtStart'
    PROVE  Inv'
<1>1. Backed'
  BY DEF Inv, Backed, KindOf, Missed
<1>2. \A u \in Threads : (Holds(u)' <=> Holds(u)) /\ (Holds(u) => th'[u].self = th[u].self)
  BY DEF Holds
<1>3. Owned'
  BY <1>2 DEF Inv, Owned, Owner
<1>4. \A fd \in Fds : Closing(fd)' <=> Closing(fd)
  BY DEF Closing, At
<1>5. Named'
  <2>1. \A u \in Threads : th'[u].pc \in {"fclose", "delete"} => th'[u] = th[u]
    OBVIOUS
  <2>2. \A x : Names(x) => (Names(x))'
    BY <1>4 DEF Names
  <2> QED
    BY <2>1, <2>2 DEF Inv, Named
<1> QED
  BY <1>1, <1>3, <1>5 DEF Inv

LEMMA AtStartKept ==
    ASSUME Inv, NEW t \in Threads, fd_table' = fd_table, MissedStays, ~At(t, "rewind"),
           \A u \in Threads \ {t} : th'[u] = th[u]
    PROVE  AtStart'
<1>1. \A fd \in Fds : LookedAt(fd) => LookedAt(fd)'
  BY DEF LookedAt, At
<1>2. \A fd \in Fds : Missed(fd) => (Missed(fd))'
  BY DEF MissedStays, Missed, Hides, KindOf
<1> QED
  BY <1>1, <1>2 DEF Inv, AtStart, Hides, KindOf

LEMMA BeginInv ==
    ASSUME Inv, NEW t \in Threads, Begin(t)
    PROVE  Inv'
<1>1. SafeInv /\ TypeInv /\ SafeInv' /\ TypeInv'
  BY CallSafe DEF Inv, SafeInv
<1>2. Quiet' /\ hooked = Ops
  BY StartedFirst
<1>3. /\ UNCHANGED setup /\ fd_table' = fd_table /\ mem' = mem /\ th[t].pc = "idle"
      /\ th'[t].pc = "lookup"
      /\ \A u \in Threads \ {t} : th'[u] = th[u]
  BY <1>1, <1>2, BeginType
<1>4. /\ use_shared_mem' = use_shared_mem /\ fds_dir' = fds_dir
      /\ \A fd \in Fds : Hides(fd)' <=> Hides(fd)
      /\ lost' = lost /\ MissedStays
  BY <1>3, RestKeeps, LostStays, MissedStay DEF Hides, KindOf
<1>5. Knows'
  BY <1>1, <1>3, <1>4, KnowsFrame DEF KnowsOf, At
<1>6. AtStart'
  BY <1>3, <1>4, AtStartKept DEF At
<1> QED
  BY <1>1, <1>2, <1>3, <1>4, <1>5, <1>6, InvFrame

\* Without ashmem nobody else is on the descriptor that a call looks at.
LEMMA LooksAlone ==
    ASSUME Inv, NEW t \in Threads, th[t].pc \in {"lseek", "read", "rewind"},
           NEW u \in Threads \ {t}
    PROVE  th[u].fd # th[t].fd
<1>1. th[t].pc \in OnFd /\ ~use_shared_mem
  BY DEF Inv, Knows, KnowsOf, OnFd
<1>2. th[t].fd # None
  BY <1>1, FdsSelfs, NoneAssumption DEF Inv, SafeInv
<1> QED
  BY <1>1, <1>2 DEF Inv, SafeInv, TypeInv, Exclusive, Sharable

LEMMA LookupInv ==
    ASSUME Inv, NEW t \in Threads, Lookup(t)
    PROVE  Inv'
<1>1. SafeInv /\ TypeInv /\ SafeInv' /\ TypeInv'
  BY CallSafe DEF Inv, SafeInv
<1>2. Quiet'
  BY StartedFirst
<1>3. /\ UNCHANGED setup /\ mem' = mem
      /\ th[t].pc \in OnFd \ {"fclose"} /\ th'[t].pc \in OnFd \ {"fclose"}
      /\ th'[t].fd = th[t].fd
      /\ \A u \in Threads \ {t} : th'[u] = th[u]
      /\ \A fd \in Fds : (Hides(fd)' <=> Hides(fd))
                         /\ (Hides(fd) => fd_table'[fd].self = fd_table[fd].self)
      /\ lost \subseteq lost'
  BY <1>1, LookupType
<1>4. use_shared_mem' = use_shared_mem /\ fds_dir' = fds_dir /\ MissedStays
  BY <1>3, RestKeeps, MissedStay
<1>5. PICK fd \in Fds : fd = th[t].fd /\ fd_table[fd] # None /\ Opened(t) = fd_table[fd]
                        /\ fd_table[fd] \in Description
  BY <1>1, <1>3, OpenedType DEF Opened
<1>6. KnowsOf(t)
  BY DEF Inv, Knows
<1>7. th[t] \in Call /\ th \in [Threads -> Call]
  BY <1>1 DEF TypeInv, TypeOK
<1>8. \A step, self : th' = [th EXCEPT ![t] = [th[t] EXCEPT !.pc = step, !.self = self]]
                      => th'[t].pc = step /\ th'[t].self = self
  BY <1>7 DEF Call
<1>9. \A step : th' = [th EXCEPT ![t] = [th[t] EXCEPT !.pc = step]]
                => th'[t].pc = step /\ th'[t].self = th[t].self
  BY <1>7 DEF Call
<1>10. Hides(fd) <=> fd_table[fd].kind \in Kinds
  BY <1>5 DEF Hides, KindOf
<1>11. Hides(fd) => /\ fd_table[fd].kind = "shm" <=> use_shared_mem
                    /\ fd_table[fd].kind = "short" => fd_table[fd].self \in lost
                    /\ fd_table[fd].self # None
  BY <1>1, FdsSelfs, NoneAssumption DEF Inv, Backed, KindOf, Missed
<1>12. \A kind \in Kinds :
          SelfOf(t, kind) = IF fd_table[fd].kind = kind THEN fd_table[fd].self ELSE None
  BY <1>5 DEF SelfOf
\* Each step of get_mapping, in its effect on the call and on its descriptor.
<1> DEFINE Settled == th'[t].self # None \/ ~Hides(fd) \/ fd_table[fd].self \in lost'
           Effect ==
        \/ /\ fd_table' = fd_table /\ th'[t].pc = "found" /\ th[t].pc # "rewind"
           /\ Settled
        \/ fd_table' = fd_table /\ th'[t].pc = "lseek" /\ ~use_shared_mem /\ th[t].pc # "rewind"
        \/ /\ fd_table' = fd_table /\ th'[t].pc = "read" /\ ~use_shared_mem /\ th[t].pc = "lseek"
           /\ fd_table[fd].pos = 0
        \/ /\ SetPos(t, 1) \/ (fd_table' = fd_table /\ fd_table[fd].pos = 0)
           /\ th'[t].pc = "rewind" /\ th[t].pc = "read" /\ ~use_shared_mem
           /\ Settled
        \/ /\ SetPos(t, 0) /\ th'[t].pc = "found" /\ th[t].pc = "rewind" /\ ~use_shared_mem
           /\ Settled
<1>13. Effect
  <2>1. CASE LookupMem(t)
    <3>1. /\ th'[t].pc = "found" /\ fd_table' = fd_table
          /\ use_shared_mem /\ th[t].pc # "rewind"
          /\ th'[t].self = SelfOf(t, "shm") \/ Loses(t)
      BY <1>8, <2>1 DEF LookupMem, Found, Step, At
    <3>2. CASE th'[t].self = SelfOf(t, "shm")
      BY <1>10, <1>11, <1>12, <3>1, <3>2 DEF Kinds
    <3>3. CASE Loses(t)
      BY <1>5, <1>10, <3>1, <3>3 DEF Loses
    <3> QED
      BY <3>1, <3>2, <3>3
  <2>2. CASE LookupFile(t)
    BY <1>9, <2>2 DEF LookupFile, Goto, Step, At
  <2>3. CASE LookupPos(t)
    <3>1. fd_table' = fd_table /\ th[t].pc = "lseek" /\ ~use_shared_mem
      BY <1>6, <2>3 DEF LookupPos, At, KnowsOf
    <3>2. CASE fd_table[fd].pos # 0
      <4>1. th'[t].pc = "found" /\ th'[t].self = None
        BY <1>5, <1>8, <2>3, <3>2 DEF LookupPos, Found, Step
      <4>2. ~LookedAt(fd)
        BY <1>5, <3>1, LooksAlone DEF LookedAt, At
      <4>3. Hides(fd) => fd_table[fd].self \in lost
        BY <1>10, <1>11, <3>1, <3>2, <4>2 DEF Inv, AtStart, KindOf, Kinds, Missed
      <4> QED
        BY <1>3, <3>1, <4>1, <4>3
    <3>3. CASE fd_table[fd].pos = 0
      <4>1. th'[t].pc = "read"
        BY <1>5, <1>9, <2>3, <3>3 DEF LookupPos, Goto, Step
      <4> QED
        BY <3>1, <3>3, <4>1
    <3> QED
      BY <3>2, <3>3
  <2>4. CASE LookupRead(t)
    <3>1. th[t].pc = "read" /\ ~use_shared_mem /\ fd_table[fd].pos = 0
      BY <1>5, <1>6, <2>4 DEF LookupRead, At, KnowsOf
    <3>2. /\ th'[t].pc = "rewind"
          /\ \/ SetPos(t, 1) /\ th'[t].self = SelfOf(t, "map")
             \/ fd_table' = fd_table /\ Loses(t)
      BY <1>8, <2>4 DEF LookupRead, Step
    <3>3. Settled
      <4>1. CASE th'[t].self = SelfOf(t, "map")
        BY <1>3, <1>10, <1>11, <1>12, <3>1, <4>1 DEF Kinds
      <4>2. CASE Loses(t)
        BY <1>5, <1>10, <4>2 DEF Loses
      <4> QED
        BY <3>2, <4>1, <4>2
    <3> QED
      BY <3>1, <3>2, <3>3
  <2>5. CASE LookupRewind(t)
    <3>1. /\ th'[t].pc = "found" /\ th'[t].self = th[t].self /\ th[t].pc = "rewind"
          /\ ~use_shared_mem /\ SetPos(t, 0)
      BY <1>6, <1>8, <2>5 DEF LookupRewind, Found, Step, At, KnowsOf
    <3>2. th[t].self # None \/ ~Hides(fd) \/ fd_table[fd].self \in lost
      BY <1>5, <1>6, <3>1 DEF KnowsOf, Mapped, Missed
    <3> QED
      BY <1>3, <3>1, <3>2
  <2> QED
    BY <2>1, <2>2, <2>3, <2>4, <2>5 DEF Lookup
<1>14. \A pos \in {0, 1} : SetPos(t, pos) =>
          /\ \A gd \in Fds \ {fd} : fd_table'[gd] = fd_table[gd]
          /\ fd_table'[fd].kind = fd_table[fd].kind /\ fd_table'[fd].pos = pos
  <2> SUFFICES ASSUME NEW pos \in {0, 1}, SetPos(t, pos)
               PROVE  /\ \A gd \in Fds \ {fd} : fd_table'[gd] = fd_table[gd]
                      /\ fd_table'[fd].kind = fd_table[fd].kind /\ fd_table'[fd].pos = pos
    OBVIOUS
  <2>1. pos \in 0..Length
    BY LengthAssumption
  <2> QED
    BY <1>1, <1>3, <1>5, <2>1, SetPosType
<1>15. /\ \A gd \in Fds \ {fd} : fd_table'[gd] = fd_table[gd]
       /\ fd_table'[fd].kind = fd_table[fd].kind
  BY <1>13, <1>14
<1> HIDE DEF Settled
<1>16. KnowsOf(t)'
  <2>1. (Opened(t))' = fd_table'[fd] /\ ((Hides(th[t].fd))' <=> Hides(fd))
    BY <1>3, <1>5 DEF Opened, Hides, KindOf
  <2>2. Settled => (Mapped(t) \/ ~Hides(th[t].fd) \/ Missed(th[t].fd))'
    <3>1. (Missed(th[t].fd))' <=> Hides(fd) /\ fd_table[fd].self \in lost'
      BY <1>3, <1>5, <2>1 DEF Missed
    <3> QED
      BY <2>1, <3>1 DEF Settled, Mapped
  <2>3. CASE th'[t].pc = "rewind"
    <3>1. ~use_shared_mem /\ Settled
          /\ (SetPos(t, 1) \/ (fd_table' = fd_table /\ fd_table[fd].pos = 0))
      BY <1>13, <2>3
    <3>2. fd_table'[fd].pos \in {0, 1}
      BY <1>14, <3>1
    <3> QED
      BY <1>4, <2>1, <2>2, <2>3, <3>1, <3>2 DEF KnowsOf, At
  <2>4. CASE th'[t].pc # "rewind"
    BY <1>4, <1>13, <2>1, <2>2, <2>4 DEF KnowsOf, At
  <2> QED
    BY <2>3, <2>4
<1>17. \A gd \in Fds, u \in Threads \ {t} :
          th[u].fd = gd => fd_table'[gd] = fd_table[gd] \/ use_shared_mem
  <2>1. use_shared_mem \/ fd_table' = fd_table \/ th[t].pc \in {"read", "rewind"}
    BY <1>13
  <2>2. th[t].pc \in {"read", "rewind"} => \A u \in Threads \ {t} : th[u].fd # fd
    BY <1>5, LooksAlone
  <2> QED
    BY <1>15, <2>1, <2>2
<1>18. Knows'
  BY <1>1, <1>3, <1>4, <1>16, <1>17, KnowsFrame
<1>19. AtStart'
  <2>1. CASE fd_table' = fd_table /\ th[t].pc # "rewind"
    BY <1>3, <1>4, <2>1, AtStartKept DEF At
  <2>2. \A gd \in Fds \ {fd} : Missed(gd) => (Missed(gd))'
    BY <1>3, <1>15 DEF Missed
  <2>3. \A gd \in Fds : LookedAt(gd) => (LookedAt(gd))' \/ gd = fd
    BY <1>3, <1>5 DEF LookedAt, At
  <2>4. CASE SetPos(t, 1) /\ th'[t].pc = "rewind"
    <3>1. (LookedAt(fd))'
      BY <1>3, <1>5, <2>4 DEF LookedAt, At
    <3> QED
      BY <1>15, <2>2, <2>3, <3>1 DEF Inv, AtStart, Hides, KindOf
  <2>5. CASE SetPos(t, 0)
    <3>1. fd_table'[fd].pos = 0
      BY <1>14, <2>5
    <3> QED
      BY <1>15, <2>2, <2>3, <3>1 DEF Inv, AtStart, Hides, KindOf
  <2> QED
    BY <1>13, <2>1, <2>4, <2>5
<1>20. \A gd \in Fds : Hides(gd) => fd_table'[gd].kind = fd_table[gd].kind
  BY <1>15
<1>21. th[t].pc \notin {"save", "delete", "fclose"} /\ th'[t].pc \notin {"save", "delete", "fclose"}
  BY <1>3 DEF OnFd
<1> QED
  BY <1>1, <1>2, <1>3, <1>4, <1>18, <1>19, <1>20, <1>21, InvFrame

LEMMA ServeInv ==
    ASSUME Inv, NEW t \in Threads, ReadReal(t) \/ SeekReal(t) \/ ReadShadow(t) \/ SeekShadow(t)
    PROVE  Inv'
<1>1. SafeInv /\ TypeInv /\ SafeInv' /\ TypeInv'
  BY ServeSafe DEF Inv, SafeInv
<1>2. Quiet' /\ use_shared_mem' = use_shared_mem
  BY StartedFirst DEF Serve
<1>3. th[t].pc = "found" /\ th[t].pc \in OnFd
  BY DEF ReadReal, SeekReal, ReadShadow, SeekShadow, At, OnFd
<1>4. PICK fd \in Fds : fd = th[t].fd /\ fd_table[fd] # None
  BY <1>1, <1>3, FdsSelfs
<1>5. Mapped(t) \/ ~Hides(fd) \/ Missed(fd)
  BY <1>3, <1>4 DEF Inv, Knows, KnowsOf
<1>6. /\ th'[t].pc = "idle" /\ \A u \in Threads \ {t} : th'[u] = th[u]
      /\ UNCHANGED setup /\ lost' = lost
  BY <1>1, NoCallStep DEF ReadReal, SeekReal, ReadShadow, SeekShadow, Returns
<1>7. fds_dir' = fds_dir
  BY <1>6, RestKeeps
<1>8. KnowsOf(t)'
  BY <1>6 DEF KnowsOf, At
<1>9. CASE ReadReal(t) \/ SeekReal(t)
  <2>1. ~Mapped(t) /\ mem' = mem
        /\ \E pos \in 0..Length : SetPos(t, pos) /\ (KindOf(th[t].fd) \in Kinds => pos \in {0, 1})
    BY <1>1, <1>9, ServeRealType
  <2>2. /\ \A gd \in Fds : (Hides(gd)' <=> Hides(gd))
                           /\ (Hides(gd) => fd_table'[gd].self = fd_table[gd].self)
        /\ \A gd \in Fds : fd_table[gd] # None => fd_table'[gd].kind = fd_table[gd].kind
        /\ \A gd \in Fds \ {fd} : fd_table'[gd] = fd_table[gd]
    BY <1>1, <1>3, <1>4, <2>1, SetPosHides, SetPosType
  <2>3. /\ MissedStays /\ (Hides(fd) => Missed(fd))
        /\ \A gd \in Fds : Missed(gd) => (Missed(gd))'
    BY <1>5, <1>6, <2>1, <2>2, MissedStay DEF Missed
  <2>4. \A u \in Threads \ {t} : th[u].fd = fd => use_shared_mem
    <3>1. fd # None
      BY NoneAssumption
    <3> QED
      BY <1>1, <1>4, <3>1 DEF TypeInv, Exclusive, Sharable
  <2>5. Knows'
    BY <1>1, <1>2, <1>6, <1>8, <2>1, <2>2, <2>3, <2>4, KnowsFrame
  <2>6. \A gd \in Fds : LookedAt(gd) => (LookedAt(gd))'
    BY <1>3, <1>6 DEF LookedAt, At
  <2>7. AtStart'
    BY <2>2, <2>3, <2>6 DEF Inv, AtStart, KindOf
  <2>8. \A gd \in Fds : Hides(gd) => fd_table'[gd].kind = fd_table[gd].kind
    BY <2>2 DEF Hides
  <2> QED
    BY <1>1, <1>2, <1>3, <1>6, <1>7, <2>1, <2>2, <2>5, <2>7, <2>8, InvFrame
<1>10. CASE ReadShadow(t) \/ SeekShadow(t)
  <2>1. Mapped(t)
    BY <1>10 DEF ReadShadow, SeekShadow
  <2>2. mem[th[t].self] # None /\ Hides(fd) /\ fd_table[fd].self = th[t].self
    BY <1>3, <1>4, <2>1, FoundLive DEF Inv
  <2>3. fd_table' = fd_table /\ th[t].self \in Addrs
        /\ \A x \in Addrs \ {th[t].self} : mem'[x] = mem[x]
    BY <1>1, <1>10, <2>2, ServeShadowType
  <2>4. MissedStays /\ \A gd \in Fds : Hides(gd)' <=> Hides(gd)
    BY <1>6, <2>3, MissedStay DEF Hides, KindOf
  <2>5. \A u \in Threads \ {t} : At(u, "save") => mem'[th[u].self] = mem[th[u].self]
    <3> SUFFICES ASSUME NEW u \in Threads \ {t}, At(u, "save")
                 PROVE  mem'[th[u].self] = mem[th[u].self]
      OBVIOUS
    <3>1. Holds(u) /\ th[u].self \in Addrs
      BY <1>1, FdsSelfs DEF Holds, At
    <3>2. th[u].self # th[t].self
      BY <1>1, <2>2, <3>1 DEF SafeInv, OneOwner
    <3> QED
      BY <2>3, <3>1, <3>2
  <2>6. Knows'
    BY <1>1, <1>2, <1>6, <1>8, <2>3, <2>4, <2>5, KnowsFrame
  <2>7. AtStart'
    BY <1>3, <1>6, <2>3, <2>4, AtStartKept DEF At
  <2>8. \A x \in Addrs : mem'[x] # None => mem[x] # None
    BY <2>2, <2>3
  <2> QED
    BY <1>1, <1>2, <1>3, <1>6, <1>7, <2>3, <2>4, <2>6, <2>7, <2>8, InvFrame
<1> QED
  BY <1>9, <1>10

LEMMA OpenRealInv ==
    ASSUME Inv, NEW t \in Threads, OpenReal(t)
    PROVE  Inv'
<1>1. SafeInv /\ TypeInv /\ SafeInv' /\ TypeInv'
  BY OpenRealSafe DEF Inv, SafeInv
<1>2. Quiet' /\ use_shared_mem' = use_shared_mem
  BY StartedFirst
<1>3. PICK fd \in Fds, kind \in {"apk", "other"} :
          NewFd(fd, RealFile(kind, 0)) /\ Returns(t, "open", kind, 0)
  BY DEF OpenReal
<1>4. mem' = mem /\ UNCHANGED setup /\ Step(t, NoCall) /\ th[t].pc = "idle"
  BY <1>3 DEF OpenReal, Returns, At
<1>5. /\ \A gd \in Fds \ {fd} : fd_table'[gd] = fd_table[gd]
      /\ \A u \in Threads : th[u].fd # fd
      /\ ~Hides(fd) /\ ~Hides(fd)'
  BY <1>1, <1>3, NewFdType, RealFileType DEF Hides, KindOf, Kinds
<1>6. /\ \A gd \in Fds : /\ Hides(gd)' <=> Hides(gd)
                         /\ Hides(gd) => fd_table'[gd] = fd_table[gd]
      /\ lost' = lost /\ MissedStays
      /\ \A gd \in Fds : Missed(gd) => (Missed(gd))'
  <2>1. /\ \A gd \in Fds : /\ Hides(gd)' <=> Hides(gd)
                           /\ Hides(gd) => fd_table'[gd] = fd_table[gd]
        /\ lost' = lost
    BY <1>5, LostStays DEF Hides, KindOf
  <2> QED
    BY <2>1, MissedStay DEF Missed
<1>7. th'[t].pc = "idle" /\ \A u \in Threads \ {t} : th'[u] = th[u]
  BY <1>1, <1>4, NoCallStep
<1>8. KnowsOf(t)'
  BY <1>7 DEF KnowsOf, At
<1>9. Knows'
  BY <1>1, <1>2, <1>4, <1>5, <1>6, <1>7, <1>8, KnowsFrame
<1>10. AtStart'
  <2>1. \A gd \in Fds : LookedAt(gd) => (LookedAt(gd))'
    BY <1>4, <1>7 DEF LookedAt, At
  <2> QED
    BY <1>6, <2>1 DEF Inv, AtStart, KindOf
<1> QED
  BY <1>1, <1>2, <1>4, <1>6, <1>7, <1>9, <1>10, RestKeeps, InvFrame

LEMMA OpenApkInv ==
    ASSUME Inv, NEW t \in Threads, OpenApk(t)
    PROVE  Inv'
<1>1. SafeInv /\ TypeInv /\ SafeInv' /\ TypeInv'
  BY OpenApkSafe DEF Inv, SafeInv
<1>2. Quiet' /\ use_shared_mem' = use_shared_mem
  BY StartedFirst
<1>3. PICK self \in Addrs :
          /\ mem[self] = None
          /\ mem' = [mem EXCEPT ![self] = 0]
          /\ Step(t, [NoCall EXCEPT !.pc = "save", !.op = "open", !.self = self])
  BY DEF OpenApk
<1>4. fd_table' = fd_table /\ fds_dir' = fds_dir /\ lost' = lost /\ th[t].pc = "idle"
  BY RestKeeps DEF OpenApk, At
<1>5. /\ th'[t] = [NoCall EXCEPT !.pc = "save", !.op = "open", !.self = self]
      /\ \A u \in Threads \ {t} : th'[u] = th[u]
  BY <1>1, <1>3 DEF TypeInv, TypeOK, Step
<1>6. th'[t].pc = "save" /\ th'[t].self = self
  BY <1>5, NoCallType DEF Call
<1>7. mem'[self] = 0 /\ \A x \in Addrs \ {self} : mem'[x] = mem[x]
  BY <1>1, <1>3 DEF TypeInv, TypeOK
<1>8. MissedStays /\ \A gd \in Fds : Hides(gd)' <=> Hides(gd)
  BY <1>4, MissedStay DEF Hides, KindOf
<1>9. KnowsOf(t)'
  BY <1>6, <1>7 DEF KnowsOf, At
<1>10. Knows'
  <2>1. \A u \in Threads \ {t} : At(u, "save") => mem'[th[u].self] = mem[th[u].self]
    BY <1>1, <1>3, <1>7, FdsSelfs DEF SafeInv, Live, Holds, At
  <2> QED
    BY <1>1, <1>2, <1>4, <1>5, <1>8, <1>9, <2>1, KnowsFrame
<1>11. AtStart'
  BY <1>4, <1>5, <1>8, AtStartKept DEF At
<1>12. Backed' /\ Named'
  <2>1. \A fd \in Fds : Closing(fd)' <=> Closing(fd)
    BY <1>4, <1>5, <1>6 DEF Closing, At
  <2>2. Backed'
    BY <1>2, <1>4, <1>8 DEF Inv, Backed, KindOf, Missed
  <2>3. \A u \in Threads : th'[u].pc \in {"fclose", "delete"} => th'[u] = th[u]
    BY <1>5, <1>6
  <2>4. \A x : Names(x) => (Names(x))'
    BY <1>4, <1>8, <2>1 DEF Names
  <2> QED
    BY <1>4, <2>2, <2>3, <2>4 DEF Inv, Named
<1>13. Owned'
  <2>1. \A u \in Threads \ {t} : Holds(u) => Holds(u)' /\ th'[u].self = th[u].self
    BY <1>5 DEF Holds
  <2>2. Holds(t)' /\ th'[t].self = self /\ ~Holds(t)
    BY <1>4, <1>6 DEF Holds
  <2>3. \A x \in Addrs : Owner(x) => (Owner(x))'
    BY <1>4, <1>8, <2>1, <2>2 DEF Owner
  <2>4. (Owner(self))'
    BY <2>2 DEF Owner
  <2> QED
    BY <1>4, <1>7, <2>3, <2>4 DEF Inv, Owned
<1> QED
  BY <1>1, <1>2, <1>10, <1>11, <1>12, <1>13 DEF Inv

LEMMA SavedInv ==
    ASSUME Inv, NEW t \in Threads, SaveMem(t) \/ SaveFile(t)
    PROVE  Inv'
<1>1. /\ SafeInv /\ TypeInv /\ SafeInv' /\ TypeInv' /\ mem' = mem
      /\ use_shared_mem' = use_shared_mem /\ At(t, "save") /\ th[t].self \in Addrs
      /\ th'[t].pc = "idle" /\ \A u \in Threads \ {t} : th'[u] = th[u]
  BY SavedSafe DEF Inv, SafeInv
<1>2. Quiet'
  BY StartedFirst
<1>3. PICK fd \in Fds :
          /\ fd_table[fd] = None /\ Hides(fd)' /\ (\A u \in Threads : th[u].fd # fd)
          /\ fd_table'[fd].pos = 0 /\ fd_table'[fd].self = th[t].self
          /\ fd_table'[fd].kind \in IF SaveMem(t) THEN {"shm"} ELSE {"map", "short"}
          /\ lost' = IF fd_table'[fd].kind = "short" THEN lost \cup {th[t].self} ELSE lost
          /\ \A gd \in Fds \ {fd} : fd_table'[gd] = fd_table[gd]
  BY SavedSafe DEF Inv
<1>4. /\ ~Hides(fd) /\ \A gd \in Fds \ {fd} : Hides(gd)' <=> Hides(gd)
      /\ lost \subseteq lost' /\ MissedStays
      /\ \A gd \in Fds \ {fd} : Missed(gd) => (Missed(gd))'
  <2>1. /\ ~Hides(fd) /\ \A gd \in Fds \ {fd} : Hides(gd)' <=> Hides(gd)
        /\ lost \subseteq lost'
    BY <1>3 DEF Hides, KindOf
  <2> QED
    BY <1>3, <2>1, MissedStay DEF Missed
<1>5. Backed'
  <2>1. fd_table'[fd].kind = "shm" <=> use_shared_mem
    BY <1>3 DEF SaveMem, SaveFile
  <2>2. fd_table'[fd].kind = "short" => (Missed(fd))'
    BY <1>3 DEF Missed
  <2> QED
    BY <1>1, <1>3, <1>4, <2>1, <2>2 DEF Inv, Backed, KindOf
<1>6. Knows'
  <2>1. KnowsOf(t)'
    BY <1>1 DEF KnowsOf, At
  <2> QED
    BY <1>1, <1>3, <1>4, <2>1, KnowsFrame
<1>7. AtStart'
  <2>1. \A gd \in Fds : LookedAt(gd) => (LookedAt(gd))'
    BY <1>1 DEF LookedAt, At
  <2> QED
    BY <1>3, <1>4, <2>1 DEF Inv, AtStart, KindOf
<1>8. Owned'
  <2>1. \A u \in Threads \ {t} : Holds(u) => Holds(u)' /\ th'[u].self = th[u].self
    BY <1>1 DEF Holds
  <2>2. \A x \in Addrs : Owner(x) => (Owner(x))'
    BY <1>3, <1>4, <2>1 DEF Owner
  <2> QED
    BY <1>1, <1>4, <2>2 DEF Inv, Owned
<1>9. Named'
  <2>1. \A gd \in Fds : Closing(gd)' <=> Closing(gd)
    BY <1>1 DEF Closing, At
  <2>2. \A x : Names(x) => Names(x)'
    BY <1>3, <1>4, <2>1 DEF Names
  <2>5. \A u \in Threads : th'[u].pc \in {"fclose", "delete"} =>
                              u \in Threads \ {t} /\ th'[u] = th[u]
    BY <1>1
  <2>3. CASE SaveMem(t)
    BY <1>4, <2>2, <2>3, <2>5, RestKeeps DEF SaveMem, Inv, Named
  <2>4. CASE SaveFile(t)
    <3>1. ~Closing(fd)
      BY <1>3 DEF Closing
    <3>2. /\ fds_dir' = fds_dir \cup {th[t].self} /\ fds_dir # None
          /\ \A x : x = th[t].self => (Names(x))'
      BY <1>3, <2>1, <2>4, <3>1 DEF SaveFile, Names
    <3>3. \A u \in Threads \ {t} : th[u].pc \in {"fclose", "delete"} => th[u].self # th[t].self
      <4> SUFFICES ASSUME NEW u \in Threads \ {t}, th[u].pc \in {"fclose", "delete"}
                   PROVE  th[u].self # th[t].self
        OBVIOUS
      <4>1. Holds(t)
        BY <1>1 DEF Holds, At
      <4>2. CASE th[u].pc = "delete"
        BY <1>1, <4>1, <4>2 DEF SafeInv, OneOwner, Holds
      <4>3. CASE th[u].pc = "fclose"
        <5>1. Mapped(u) /\ th[u].pc \in OnFd
          BY <1>1, <4>3, NoneAssumption DEF TypeInv, Shape, Shaped, Mapped, OnFd
        <5> QED
          BY <1>1, <4>1, <5>1, FoundLive DEF SafeInv, OneOwner
      <4> QED
        BY <4>2, <4>3
    <3>4. \A x \in fds_dir' : (Names(x))' \/ x \in lost'
      BY <1>4, <2>2, <3>2 DEF Inv, Named
    <3>5. \A u \in Threads : th'[u].pc \in {"fclose", "delete"} => th'[u].self \notin fds_dir'
      BY <2>5, <3>2, <3>3 DEF Inv, Named
    <3> QED
      BY <3>4, <3>5 DEF Named
  <2> QED
    BY <2>3, <2>4
<1> QED
  BY <1>1, <1>2, <1>5, <1>6, <1>7, <1>8, <1>9 DEF Inv

LEMMA CleanMappingInv ==
    ASSUME Inv, NEW t \in Threads, CleanMapping(t)
    PROVE  Inv'
<1>1. SafeInv /\ TypeInv /\ SafeInv' /\ TypeInv'
  BY ServeSafe DEF Inv, SafeInv
<1>2. Quiet'
  BY StartedFirst DEF Serve
<1>3. /\ fd_table' = fd_table /\ mem' = mem /\ lost' = lost
      /\ use_shared_mem' = use_shared_mem
      /\ th[t].pc = "found" /\ th'[t].pc = "fclose" /\ Mapped(t)
      /\ th'[t].fd = th[t].fd /\ th'[t].self = th[t].self
      /\ \A u \in Threads \ {t} : th'[u] = th[u]
  BY <1>1, CleanMappingType
<1>4. PICK fd \in Fds : fd = th[t].fd /\ Hides(fd) /\ fd_table[fd].self = th[t].self
  BY <1>3, FoundLive DEF Inv, OnFd
<1>5. MissedStays /\ \A gd \in Fds : Hides(gd)' <=> Hides(gd)
  BY <1>3, MissedStay DEF Hides, KindOf
<1>6. (Mapped(t))' /\ (Hides(th[t].fd))'
  BY <1>3, <1>4, <1>5 DEF Mapped, Hides, KindOf
<1>7. KnowsOf(t)'
  BY <1>3, <1>6 DEF KnowsOf, At
<1>8. Knows'
  BY <1>1, <1>3, <1>5, <1>7, KnowsFrame
<1>9. AtStart'
  BY <1>3, <1>5, AtStartKept DEF At
<1>10. Backed'
  BY <1>3, <1>5 DEF Inv, Backed, KindOf, Missed
<1>11. \A u \in Threads : (Holds(u)' <=> Holds(u)) /\ (Holds(u) => th'[u].self = th[u].self)
  BY <1>3 DEF Holds
<1>12. Owned'
  BY <1>3, <1>5, <1>11 DEF Inv, Owned, Owner
<1>13. Named'
  <2>1. CASE use_shared_mem
    <3>1. fds_dir = None
      BY <1>1, <2>1 DEF TypeInv, SetUp
    <3>2. fds_dir' = None
      BY <2>1, <3>1 DEF CleanMapping
    <3> QED
      BY <3>2 DEF Named
  <2>2. CASE fds_dir = None
    <3>1. fds_dir' = None
      BY <2>2 DEF CleanMapping
    <3> QED
      BY <3>1 DEF Named
  <2>3. CASE ~use_shared_mem /\ fds_dir # None
    <3>1. fds_dir' = fds_dir \ {th[t].self}
      BY <2>3 DEF CleanMapping
    <3>2. \A gd \in Fds \ {fd} : Closing(gd)' => Closing(gd)
      BY <1>3, <1>4 DEF Closing, At
    <3>3. ASSUME NEW x \in fds_dir' PROVE Names(x)' \/ x \in lost'
      <4> SUFFICES ASSUME x \notin lost PROVE Names(x)'
        BY <1>3
      <4>1. x # th[t].self /\ Names(x)
        BY <2>3, <3>1, <3>3 DEF Inv, Named
      <4>2. CASE x = "stale"
        BY <4>2 DEF Names
      <4>3. CASE x # "stale"
        <5>1. PICK gd \in Fds : Hides(gd) /\ ~Closing(gd) /\ fd_table[gd].self = x
          BY <4>1, <4>3 DEF Names
        <5>2. gd # fd
          BY <1>4, <4>1, <5>1
        <5> QED
          BY <1>3, <1>5, <3>2, <5>1, <5>2 DEF Names
      <4> QED
        BY <4>2, <4>3
    <3>4. \A u \in Threads : th'[u].pc \in {"fclose", "delete"} => th'[u].self \notin fds_dir'
      BY <1>3, <2>3, <3>1 DEF Inv, Named
    <3> QED
      BY <3>3, <3>4 DEF Named
  <2> QED
    BY <2>1, <2>2, <2>3
<1> QED
  BY <1>1, <1>2, <1>8, <1>9, <1>10, <1>12, <1>13 DEF Inv

LEMMA CloseInv ==
    ASSUME Inv, NEW t \in Threads, CloseReal(t) \/ CleanClose(t)
    PROVE  Inv'
<1>1. SafeInv /\ TypeInv /\ SafeInv' /\ TypeInv'
  BY CloseSafe DEF Inv, SafeInv
<1>2. Quiet' /\ use_shared_mem' = use_shared_mem
  BY StartedFirst DEF Serve
<1>3. /\ UNCHANGED setup /\ mem' = mem /\ th[t].pc \in OnFd /\ th[t].op = "close"
      /\ CloseFd(th[t].fd)
      /\ \A u \in Threads \ {t} : th'[u] = th[u]
      /\ CloseReal(t) => ~Mapped(t) /\ th[t].pc = "found" /\ th'[t].pc = "idle"
      /\ CleanClose(t) => /\ th[t].pc = "fclose" /\ th'[t].pc = "delete"
                          /\ th'[t].self = th[t].self
  BY <1>1, CloseType
<1>4. PICK fd \in Fds : fd = th[t].fd
  BY <1>1, <1>3, FdsSelfs
<1>5. /\ fd_table'[fd] = None
      /\ \A gd \in Fds \ {fd} : fd_table'[gd] = fd_table[gd]
      /\ \A u \in Threads \ {t} : th[u].fd # fd
  BY <1>1, <1>3, <1>4, CloseAlone
<1>6. /\ ~Hides(fd)' /\ \A gd \in Fds \ {fd} : Hides(gd)' <=> Hides(gd)
      /\ lost' = lost /\ MissedStays
      /\ \A gd \in Fds \ {fd} : Missed(gd) => (Missed(gd))'
  <2>1. /\ ~Hides(fd)' /\ \A gd \in Fds \ {fd} : Hides(gd)' <=> Hides(gd)
        /\ lost' = lost
    BY <1>5, LostStays DEF Hides, KindOf
  <2> QED
    BY <1>5, <2>1, MissedStay DEF Missed
<1>7. fds_dir' = fds_dir
  BY <1>3, RestKeeps
<1>8. th[t].pc \in {"found", "fclose"} /\ th'[t].pc \in {"idle", "delete"}
  BY <1>3
<1>9. Knows'
  <2>1. KnowsOf(t)'
    BY <1>8 DEF KnowsOf, At
  <2> QED
    BY <1>1, <1>2, <1>3, <1>5, <1>6, <2>1, KnowsFrame
<1>10. AtStart'
  <2>1. \A gd \in Fds : LookedAt(gd) => (LookedAt(gd))'
    BY <1>3, <1>8 DEF LookedAt, At
  <2> QED
    BY <1>5, <1>6, <2>1 DEF Inv, AtStart, KindOf
<1>11. Backed'
  BY <1>2, <1>5, <1>6 DEF Inv, Backed, KindOf, Missed
<1>12. Hides(fd) => Missed(fd) \/ (CleanClose(t) /\ fd_table[fd].self = th[t].self)
  <2>1. CASE CloseReal(t)
    BY <1>3, <1>4, <2>1 DEF Inv, Knows, KnowsOf
  <2>2. CASE CleanClose(t)
    <3>1. Mapped(t)
      BY <1>1, <1>3, <2>2, NoneAssumption DEF TypeInv, Shape, Shaped, Mapped
    <3> QED
      BY <1>3, <1>4, <2>2, <3>1, FoundLive DEF Inv
  <2> QED
    BY <2>1, <2>2
<1>13. Owned'
  <2>1. \A u \in Threads \ {t} : (Holds(u)' <=> Holds(u)) /\ th'[u].self = th[u].self
    BY <1>3 DEF Holds
  <2>2. ~Holds(t) /\ (CleanClose(t) => Holds(t)' /\ th'[t].self = th[t].self)
    BY <1>3, <1>8 DEF Holds
  <2>3. \A x \in Addrs : Owner(x) => (Owner(x))' \/ x \in lost
    BY <1>5, <1>6, <1>12, <2>1, <2>2 DEF Owner, Missed
  <2> QED
    BY <1>3, <1>6, <2>3 DEF Inv, Owned
<1>14. Named'
  <2>1. \A gd \in Fds : Closing(gd)' => Closing(gd)
    BY <1>3, <1>8 DEF Closing, At
  <2>2. Hides(fd) => Closing(fd) \/ Missed(fd)
    BY <1>3, <1>4, <1>12 DEF Closing, At
  <2>3. \A x : Names(x) => Names(x)' \/ x \in lost
    BY <1>5, <1>6, <2>1, <2>2 DEF Names, Missed
  <2>4. \A u \in Threads : th'[u].pc \in {"fclose", "delete"} =>
                              th[u].pc \in {"fclose", "delete"} /\ th'[u].self = th[u].self
    BY <1>3, <1>8
  <2> QED
    BY <1>6, <1>7, <2>3, <2>4 DEF Inv, Named
<1> QED
  BY <1>1, <1>2, <1>9, <1>10, <1>11, <1>13, <1>14 DEF Inv

LEMMA DeleteInv ==
    ASSUME Inv, NEW t \in Threads, CleanDelete(t)
    PROVE  Inv'
<1>1. SafeInv /\ TypeInv /\ SafeInv' /\ TypeInv'
  BY DeleteSafe DEF Inv, SafeInv
<1>2. Quiet' /\ use_shared_mem' = use_shared_mem
  BY StartedFirst DEF Serve
<1>3. /\ UNCHANGED setup /\ fd_table' = fd_table /\ th' = [th EXCEPT ![t] = NoCall]
      /\ th[t].pc = "delete" /\ th[t].self \in Addrs
      /\ \A x \in Addrs \ {th[t].self} : mem'[x] = mem[x]
      /\ mem'[th[t].self] = None /\ lost' = lost \ {th[t].self}
  BY <1>1, CleanDeleteType
<1>4. th'[t].pc = "idle" /\ \A u \in Threads \ {t} : th'[u] = th[u]
  BY <1>1, <1>3, NoCallStep DEF Step
<1>5. \A gd \in Fds : Hides(gd)' <=> Hides(gd)
  BY <1>3 DEF Hides, KindOf
<1>6. fds_dir' = fds_dir
  BY <1>3, RestKeeps
<1>7. Holds(t)
  BY <1>3 DEF Holds
<1>13. MissedStays /\ \A gd \in Fds : Missed(gd) => (Missed(gd))'
  <2>1. \A gd \in Fds : Hides(gd) => fd_table[gd].self # th[t].self
    BY <1>1, <1>7 DEF SafeInv, OneOwner
  <2> QED
    BY <1>3, <1>5, <2>1 DEF MissedStays, Missed
<1>8. Knows'
  <2>1. KnowsOf(t)'
    BY <1>4 DEF KnowsOf, At
  <2>2. \A u \in Threads \ {t} : At(u, "save") => mem'[th[u].self] = mem[th[u].self]
    BY <1>1, <1>3, <1>7, FdsSelfs DEF SafeInv, OneOwner, Holds, At
  <2> QED
    BY <1>1, <1>2, <1>3, <1>4, <1>5, <1>13, <2>1, <2>2, KnowsFrame
<1>9. AtStart'
  BY <1>3, <1>4, <1>13, AtStartKept DEF At
<1>10. Backed'
  BY <1>2, <1>3, <1>5, <1>13 DEF Inv, Backed, KindOf
<1>11. Owned'
  <2>1. \A u \in Threads \ {t} : (Holds(u)' <=> Holds(u)) /\ th'[u].self = th[u].self
    BY <1>4 DEF Holds
  <2>2. \A x \in Addrs \ {th[t].self} : Owner(x) => (Owner(x))'
    BY <1>3, <1>5, <2>1 DEF Owner
  <2> QED
    BY <1>3, <2>2 DEF Inv, Owned
<1>12. Named'
  <2>1. \A gd \in Fds : Closing(gd)' <=> Closing(gd)
    BY <1>3, <1>4 DEF Closing, At
  <2>2. \A x : Names(x) => (Names(x))'
    BY <1>3, <1>5, <2>1 DEF Names
  <2>3. fds_dir # None => th[t].self \notin fds_dir
    BY <1>3 DEF Inv, Named
  <2>4. \A u \in Threads : th'[u].pc \in {"fclose", "delete"} => th'[u] = th[u]
    BY <1>4
  <2> QED
    BY <1>3, <1>6, <2>2, <2>3, <2>4 DEF Inv, Named
<1> QED
  BY <1>1, <1>2, <1>8, <1>9, <1>10, <1>11, <1>12 DEF Inv

LEMMA NothingInv ==
    ASSUME Inv, UNCHANGED <<setup, fd_table, mem, lost, th>>, alive' \in BOOLEAN
    PROVE  Inv'
<1>1. /\ init_pc' = init_pc /\ hooked' = hooked /\ use_shared_mem' = use_shared_mem
      /\ fds_dir' = fds_dir /\ fd_table' = fd_table /\ mem' = mem /\ th' = th
      /\ lost' = lost
  BY RestKeeps
<1>2. SafeInv'
  BY NothingSafe DEF Inv
<1>3. Quiet' /\ Backed' /\ AtStart' /\ Owned' /\ Named'
  BY <1>1 DEF Inv, Quiet, Started, Backed, AtStart, LookedAt, Owned, Owner, Holds, Named, Names,
              Closing, Hides, Missed, KindOf, At
<1>4. Knows'
  BY <1>1 DEF Inv, Knows, KnowsOf, At, Opened, Mapped, Hides, Missed, KindOf
<1> QED
  BY <1>2, <1>3, <1>4 DEF Inv

LEMMA InvNext == Inv /\ [Next]_vars => Inv'
<1> SUFFICES ASSUME Inv, [Next]_vars PROVE Inv'
  OBVIOUS
<1>1. CASE UNCHANGED vars
  BY <1>1, NothingInv DEF vars, Inv, SafeInv, TypeInv, TypeOK
<1>2. CASE Exited
  BY <1>2, NothingInv DEF Exited, vars, Inv, SafeInv, TypeInv, TypeOK
<1>3. ASSUME NEW t \in Threads, SaveFails(t) PROVE Inv'
  BY <1>3, NothingInv DEF SaveFails, ExitNow
<1> QED
  BY <1>1, <1>2, <1>3, BootstrapInv, OpenRealInv, OpenApkInv, SavedInv, BeginInv, LookupInv,
     ServeInv, CleanMappingInv, CloseInv, DeleteInv DEF Next, Serve

LEMMA Invariance == Spec /\ ~Early => []Inv
BY InitInv, InvNext, PTL DEF Spec

\* An engine that opens no file before bootstrap is through always finds the
\* handle of its descriptor, unless a system call of its save or of a lookup of it
\* has failed (file_mapping.h:106-215).
THEOREM LookupsRight == Spec /\ ~Early => []LookupsFindHandle
<1>1. Inv => LookupsFindHandle
  <2> SUFFICES ASSUME Inv, NEW t \in Threads, At(t, "found")
               PROVE  /\ Mapped(t) => /\ Opened(t).kind \in Kinds
                                      /\ Opened(t).self = th[t].self
                                      /\ mem[th[t].self] # None
                      /\ Opened(t).kind \in Kinds /\ ~Mapped(t) => Opened(t).self \in lost
    BY DEF LookupsFindHandle
  <2>1. th[t].pc \in OnFd /\ (Mapped(t) \/ ~Hides(th[t].fd) \/ Missed(th[t].fd))
    BY DEF Inv, Knows, KnowsOf, At, OnFd
  <2>2. th[t].fd \in Fds /\ fd_table[th[t].fd] # None
    BY <2>1, FdsSelfs DEF Inv, SafeInv
  <2> QED
    BY <2>1, <2>2, FoundLive DEF Inv, Hides, Missed, KindOf, Opened
<1> QED
  BY <1>1, Invariance, PTL

\* Its files leave nothing behind that no failing system call has lost: each
\* FileExtraData has an owner, each descriptor its own, and the directory names
\* only open ones (file_mapping.h:106-151 and 245-258).
THEOREM LeavesNothing == Spec /\ ~Early => []NothingLeft
<1>1. Inv => NothingLeft
  <2> SUFFICES ASSUME Inv PROVE NothingLeft
    OBVIOUS
  <2> DEFINE mapped == {fd \in Fds : fd_table[fd] # None /\ fd_table[fd].kind \in Kinds}
             calls == {t \in Threads : th[t].pc \in {"save", "delete"}}
             live == {x \in Addrs : mem[x] # None}
             used == {fd_table[fd].self : fd \in mapped} \cup {th[t].self : t \in calls}
  <2>1. \A fd : fd \in mapped <=> fd \in Fds /\ Hides(fd)
    BY DEF Hides, KindOf
  <2>2. \A t : t \in calls <=> t \in Threads /\ Holds(t)
    BY DEF Holds
  <2> HIDE DEF mapped, calls
  <2>3. used \subseteq live /\ live \ used \subseteq lost
    <3>1. \A fd \in mapped : fd_table[fd].self \in Addrs /\ mem[fd_table[fd].self] # None
      BY <2>1, FdsSelfs DEF Inv, SafeInv, Live
    <3>2. \A t \in calls : th[t].self \in Addrs /\ mem[th[t].self] # None
      BY <2>2, FdsSelfs DEF Inv, SafeInv, Live
    <3>3. ASSUME NEW x \in Addrs, mem[x] # None, x \notin lost
          PROVE  x \in used
      BY <2>1, <2>2, <3>3 DEF Inv, Owned, Owner
    <3> QED
      BY <3>1, <3>2, <3>3
  <2>4. \A fd, gd \in mapped : fd_table[fd].self = fd_table[gd].self => fd = gd
    BY <2>1 DEF Inv, SafeInv, OneOwner
  <2>5. fds_dir # None =>
           fds_dir \subseteq {"stale"} \cup lost \cup {fd_table[fd].self : fd \in mapped}
    BY <2>1 DEF Inv, Named, Names
  <2> QED
    BY <2>3, <2>4, <2>5 DEF NothingLeft, mapped, calls
<1> QED
  BY <1>1, Invariance, PTL

-----------------------------------------------------------------------------
(***************************************************************************)
(* The hooks implement PlainFiles.                                         *)
(***************************************************************************)
Table == [fd \in Fds |-> Visible(fd)]

LostFile == [what |-> "lost", pos |-> 0]

LEMMA VisibleIs ==
    ASSUME NEW fd \in Fds
    PROVE  /\ fd_table[fd] = None => Visible(fd) = None
           /\ Missed(fd) => Visible(fd) = LostFile
           /\ (Hides(fd) /\ ~Missed(fd)) =>
                 Visible(fd) = [what |-> "shadow", pos |-> mem[fd_table[fd].self]]
           /\ (fd_table[fd] # None /\ ~Hides(fd)) =>
                 Visible(fd) = [what |-> fd_table[fd].kind,
                                pos |-> IF LookedAt(fd) THEN 0 ELSE fd_table[fd].pos]
BY DEF Visible, Hides, KindOf, LookedAt, Missed, LostFile

LEMMA VisibleIsNext ==
    ASSUME NEW fd \in Fds
    PROVE  /\ fd_table'[fd] = None => Visible(fd)' = None
           /\ Missed(fd)' => Visible(fd)' = LostFile
           /\ (Hides(fd)' /\ ~Missed(fd)') =>
                 Visible(fd)' = [what |-> "shadow", pos |-> mem'[fd_table'[fd].self]]
           /\ (fd_table'[fd] # None /\ ~Hides(fd)') =>
                 Visible(fd)' = [what |-> fd_table'[fd].kind,
                                 pos |-> IF (LookedAt(fd))' THEN 0 ELSE fd_table'[fd].pos]
BY DEF Visible, Hides, KindOf, LookedAt, Missed, LostFile

\* An open file is one of PlainFiles.
LEMMA VisibleFile ==
    ASSUME SafeInv, NEW fd \in Fds, fd_table[fd] # None
    PROVE  Visible(fd) # None
<1>1. fd_table[fd] \in Description
  BY DEF SafeInv, TypeInv, TypeOK
<1>2. 0 \in 0..Length
  BY LengthAssumption
<1>3. CASE Hides(fd) /\ ~Missed(fd)
  <2>1. mem[fd_table[fd].self] \in 0..Length
    BY <1>3, FdsSelfs DEF SafeInv, TypeInv, TypeOK, Live
  <2> QED
    BY <1>3, <2>1, VisibleIs, NoFileAssumption
<1>4. CASE Missed(fd)
  BY <1>2, <1>4, VisibleIs, NoFileAssumption DEF LostFile
<1>5. CASE ~Hides(fd)
  <2>1. fd_table[fd].kind \in {"apk", "other"} /\ fd_table[fd].pos \in 0..Length
    BY <1>1, <1>5, DescriptionKinds DEF Hides, KindOf
  <2> QED
    BY <1>2, <1>5, <2>1, VisibleIs, NoFileAssumption
<1> QED
  BY <1>3, <1>4, <1>5

LEMMA VisibleKept ==
    ASSUME NEW fd \in Fds, fd_table'[fd] = fd_table[fd], (LookedAt(fd))' <=> LookedAt(fd),
           Hides(fd) => /\ mem'[fd_table[fd].self] = mem[fd_table[fd].self]
                        /\ fd_table[fd].self \in lost' <=> fd_table[fd].self \in lost
    PROVE  Visible(fd)' = Visible(fd)
<1>1. (Hides(fd)' <=> Hides(fd)) /\ (Missed(fd)' <=> Missed(fd))
  BY DEF Hides, KindOf, Missed
<1>2. CASE fd_table[fd] = None
  BY <1>2, VisibleIs, VisibleIsNext
<1>3. CASE Hides(fd)
  BY <1>1, <1>3, VisibleIs, VisibleIsNext
<1>4. CASE fd_table[fd] # None /\ ~Hides(fd)
  BY <1>1, <1>4, VisibleIs, VisibleIsNext
<1> QED
  BY <1>2, <1>3, <1>4

LEMMA TableKept ==
    ASSUME \A fd \in Fds : Visible(fd)' = Visible(fd)
    PROVE  Table' = Table
BY DEF Table

LEMMA TableChanged ==
    ASSUME NEW fd \in Fds, \A gd \in Fds \ {fd} : Visible(gd)' = Visible(gd)
    PROVE  /\ \A file : Visible(fd)' = file => Table' = [Table EXCEPT ![fd] = file]
           /\ Table[fd] = Visible(fd)
BY DEF Table

LEMMA PosChanged ==
    ASSUME NEW fd \in Fds, \A gd \in Fds \ {fd} : Visible(gd)' = Visible(gd),
           NEW what, NEW old, NEW new,
           Visible(fd) = [what |-> what, pos |-> old],
           Visible(fd)' = [what |-> what, pos |-> new]
    PROVE  /\ Table' = [Table EXCEPT ![fd].pos = new]
           /\ Table[fd].what = what /\ Table[fd].pos = old
<1>1. Table[fd] = [what |-> what, pos |-> old]
  BY TableChanged
<1>2. Table' = [Table EXCEPT ![fd] = [what |-> what, pos |-> new]]
  BY TableChanged
<1>3. [Table[fd] EXCEPT !.pos = new] = [what |-> what, pos |-> new]
  BY <1>1
<1>4. [Table EXCEPT ![fd].pos = new] = [Table EXCEPT ![fd] = [Table[fd] EXCEPT !.pos = new]]
  OBVIOUS
<1>5. [Table EXCEPT ![fd].pos = new] = [Table EXCEPT ![fd] = [what |-> what, pos |-> new]]
  BY <1>3, <1>4
<1>6. Table[fd].what = what /\ Table[fd].pos = old
  BY <1>1
<1> QED
  BY <1>2, <1>5, <1>6

LEMMA InitPlain == Init => Plain!Init
<1> SUFFICES ASSUME Init PROVE Plain!Init
  OBVIOUS
<1>1. \A fd \in Fds : Visible(fd) = None
  BY VisibleIs DEF Init
<1> QED
  BY <1>1 DEF Init, Plain!Init, Plain!Reply

\* The steps that the engine does not see.
LEMMA Unseen ==
    ASSUME Inv, NEW t \in Threads, OpenApk(t) \/ Begin(t) \/ CleanMapping(t) \/ CleanDelete(t)
    PROVE  Table' = Table /\ reply' = reply /\ alive' = alive
<1>1. SafeInv /\ TypeInv
  BY DEF Inv, SafeInv
<1>2. fd_table' = fd_table /\ reply' = reply /\ alive' = alive
  BY DEF OpenApk, Begin, CleanMapping, CleanDelete
<1>3. ~At(t, "rewind") /\ ~At(t, "rewind")' /\ \A u \in Threads \ {t} : th'[u] = th[u]
  <2>1. CASE OpenApk(t)
    <3>1. PICK self \in Addrs :
              Step(t, [NoCall EXCEPT !.pc = "save", !.op = "open", !.self = self])
      BY <2>1 DEF OpenApk
    <3>2. /\ th'[t] = [NoCall EXCEPT !.pc = "save", !.op = "open", !.self = self]
          /\ \A u \in Threads \ {t} : th'[u] = th[u]
      BY <1>1, <3>1 DEF TypeInv, TypeOK, Step
    <3>3. th'[t].pc = "save"
      BY <3>2, NoCallType DEF Call
    <3> QED
      BY <2>1, <3>2, <3>3 DEF OpenApk, At
  <2>2. CASE Begin(t)
    BY <1>1, <2>2, BeginType DEF At
  <2>3. CASE CleanMapping(t)
    BY <1>1, <2>3, CleanMappingType DEF At
  <2>4. CASE CleanDelete(t)
    BY <1>1, <2>4, CleanDeleteType, NoCallStep DEF At, CleanDelete
  <2> QED
    BY <2>1, <2>2, <2>3, <2>4
<1>4. \A fd \in Fds : (LookedAt(fd))' <=> LookedAt(fd)
  BY <1>3 DEF LookedAt, At
<1>5. \A fd \in Fds : Hides(fd) =>
          /\ mem'[fd_table[fd].self] = mem[fd_table[fd].self]
          /\ fd_table[fd].self \in lost' <=> fd_table[fd].self \in lost
  <2>1. CASE Begin(t) \/ CleanMapping(t)
    BY <2>1, LostStays DEF Begin, CleanMapping
  <2>2. CASE OpenApk(t)
    <3>1. PICK self \in Addrs : mem[self] = None /\ mem' = [mem EXCEPT ![self] = 0]
      BY <2>2 DEF OpenApk
    <3> QED
      BY <1>1, <2>2, <3>1, FdsSelfs, LostStays DEF SafeInv, Live, TypeInv, TypeOK
  <2>3. CASE CleanDelete(t)
    <3>1. /\ Holds(t) /\ \A x \in Addrs \ {th[t].self} : mem'[x] = mem[x]
          /\ lost' = lost \ {th[t].self}
      BY <1>1, <2>3, CleanDeleteType DEF Holds
    <3> QED
      BY <1>1, <3>1, FdsSelfs DEF SafeInv, OneOwner
  <2> QED
    BY <2>1, <2>2, <2>3
<1> QED
  BY <1>2, <1>4, <1>5, VisibleKept, TableKept

\* A lookup that moves a real file from its start puts it back before anyone sees.
\* What is seen is a handle that gets lost.
LEMMA LookupSeen ==
    ASSUME Inv, NEW t \in Threads, Lookup(t)
    PROVE  /\ reply' = reply /\ alive' = alive /\ alive
           /\ \/ Table' = Table
              \/ \E fd \in Fds : /\ Table[fd] # None /\ Table[fd].what = "shadow"
                                 /\ Table' = [Table EXCEPT ![fd] = LostFile]
<1>1. SafeInv /\ TypeInv
  BY DEF Inv, SafeInv
<1>2. /\ mem' = mem /\ alive' = alive /\ alive /\ reply' = reply
      /\ th[t].pc \in OnFd /\ th'[t].fd = th[t].fd
      /\ \A u \in Threads \ {t} : th'[u] = th[u]
      /\ \A fd \in Fds : (Hides(fd)' <=> Hides(fd))
                         /\ (Hides(fd) => fd_table'[fd].self = fd_table[fd].self)
      /\ lost' = lost \/ (Hides(th[t].fd) /\ lost' = lost \cup {Opened(t).self})
  BY <1>1, LookupType DEF Lookup, LookupMem, LookupFile, LookupPos, LookupRead, LookupRewind
<1>3. PICK fd \in Fds : fd = th[t].fd /\ fd_table[fd] # None /\ Opened(t) = fd_table[fd]
  BY <1>1, <1>2, FdsSelfs DEF Opened
<1>4. th \in [Threads -> Call] /\ th[t] \in Call
  BY <1>1 DEF TypeInv, TypeOK
<1>5. \A step, self : th' = [th EXCEPT ![t] = [th[t] EXCEPT !.pc = step, !.self = self]]
                      => th'[t].pc = step
  BY <1>4 DEF Call
<1>6. \A step : th' = [th EXCEPT ![t] = [th[t] EXCEPT !.pc = step]] => th'[t].pc = step
  BY <1>4 DEF Call
\* The other descriptors have other handles.
<1>7. \A gd \in Fds \ {fd} :
          Hides(gd) => (fd_table[gd].self \in lost' <=> fd_table[gd].self \in lost)
  BY <1>1, <1>2, <1>3 DEF SafeInv, OneOwner
<1>8. CASE th'[t].pc \in {"found", "lseek", "read"} /\ th[t].pc # "rewind" /\ fd_table' = fd_table
  <2>1. \A gd \in Fds : (LookedAt(gd))' <=> LookedAt(gd)
    BY <1>2, <1>8 DEF LookedAt, At
  <2>2. \A gd \in Fds \ {fd} : Visible(gd)' = Visible(gd)
    BY <1>2, <1>7, <1>8, <2>1, VisibleKept
  <2>3. CASE lost' = lost
    BY <1>2, <1>8, <2>1, <2>3, VisibleKept, TableKept
  <2>4. CASE Hides(fd)
    <3>1. Visible(fd)' = Visible(fd) \/
             (Visible(fd) = [what |-> "shadow", pos |-> mem[fd_table[fd].self]]
              /\ Visible(fd)' = LostFile)
      BY <1>2, <1>3, <2>4, VisibleIs, VisibleIsNext DEF Missed
    <3> QED
      BY <1>1, <1>2, <1>3, <2>2, <3>1, TableKept, TableChanged, VisibleFile
  <2> QED
    BY <1>2, <1>3, <2>3, <2>4
<1>9. CASE LookupRead(t) \/ LookupRewind(t)
  <2>1. /\ \A gd \in Fds \ {fd} : fd_table'[gd] = fd_table[gd]
        /\ fd_table'[fd] # None /\ fd_table'[fd].kind = fd_table[fd].kind
        /\ LookupRewind(t) => fd_table'[fd].pos = 0
    <3>1. CASE fd_table' = fd_table /\ LookupRead(t)
      <4>1. ~LookupRewind(t)
        BY <3>1 DEF LookupRead, LookupRewind, At
      <4> QED
        BY <1>3, <3>1, <4>1
    <3>2. CASE \E pos \in {0, 1} : SetPos(t, pos) /\ (LookupRewind(t) => pos = 0)
      <4>1. PICK pos \in {0, 1} : SetPos(t, pos) /\ (LookupRewind(t) => pos = 0)
        BY <3>2
      <4>2. pos \in 0..Length
        BY LengthAssumption
      <4> QED
        BY <1>1, <1>2, <1>3, <4>1, <4>2, SetPosType
    <3>3. CASE LookupRewind(t)
      BY <3>2, <3>3 DEF LookupRewind
    <3>4. CASE LookupRead(t)
      <4>1. ~LookupRewind(t)
        BY <3>4 DEF LookupRead, LookupRewind, At
      <4> QED
        BY <3>1, <3>2, <3>4, <4>1 DEF LookupRead
    <3> QED
      BY <1>9, <3>3, <3>4
  <2>2. th[t].pc \in {"read", "rewind"} /\ \A u \in Threads \ {t} : th[u].fd # fd
    BY <1>3, <1>9, LooksAlone DEF LookupRead, LookupRewind, At
  <2>3. \A gd \in Fds \ {fd} : (LookedAt(gd))' <=> LookedAt(gd)
    BY <1>2, <1>3 DEF LookedAt, At
  <2>4. \A gd \in Fds \ {fd} : Visible(gd)' = Visible(gd)
    BY <1>2, <1>7, <2>1, <2>3, VisibleKept
  <2>5. CASE Hides(fd)
    <3>1. Visible(fd)' = Visible(fd) \/
             (Visible(fd) = [what |-> "shadow", pos |-> mem[fd_table[fd].self]]
              /\ Visible(fd)' = LostFile)
      BY <1>2, <1>3, <2>5, VisibleIs, VisibleIsNext DEF Missed
    <3> QED
      BY <1>1, <1>2, <1>3, <2>4, <3>1, TableKept, TableChanged, VisibleFile
  <2>6. CASE ~Hides(fd)
    <3>1. Visible(fd) = [what |-> fd_table[fd].kind, pos |-> 0]
      <4>1. LookedAt(fd) \/ fd_table[fd].pos = 0
        BY <1>3, <2>2 DEF Inv, Knows, KnowsOf, LookedAt, At
      <4> QED
        BY <1>3, <2>6, <4>1, VisibleIs
    <3>2. Visible(fd)' = [what |-> fd_table[fd].kind, pos |-> 0]
      <4>1. (LookedAt(fd))' \/ fd_table'[fd].pos = 0
        <5>1. CASE LookupRewind(t)
          BY <2>1, <5>1
        <5>2. CASE LookupRead(t)
          <6>1. \E self : th' = [th EXCEPT ![t] = [th[t] EXCEPT !.pc = "rewind", !.self = self]]
            BY <5>2 DEF LookupRead, Step
          <6>2. th'[t].pc = "rewind"
            BY <1>5, <6>1
          <6> QED
            BY <1>2, <1>3, <6>2 DEF LookedAt, At
        <5> QED
          BY <1>9, <5>1, <5>2
      <4> QED
        BY <1>2, <2>1, <2>6, <4>1, VisibleIsNext
    <3> QED
      BY <1>2, <2>4, <3>1, <3>2, TableKept
  <2> QED
    BY <2>5, <2>6
<1>10. CASE LookupMem(t) \/ LookupFile(t) \/ LookupPos(t)
  <2>1. th'[t].pc \in {"found", "lseek", "read"}
    <3>1. CASE LookupMem(t)
      <4>1. \E self : Found(t, self)
        BY <3>1 DEF LookupMem
      <4> QED
        BY <1>5, <4>1 DEF Found, Step
    <3>2. CASE LookupFile(t)
      BY <1>6, <3>2 DEF LookupFile, Goto, Step
    <3>3. CASE LookupPos(t)
      <4>1. Found(t, None) \/ Goto(t, "read")
        BY <3>3 DEF LookupPos
      <4> QED
        BY <1>5, <1>6, <4>1 DEF Found, Goto, Step
    <3> QED
      BY <1>10, <3>1, <3>2, <3>3
  <2>2. fd_table' = fd_table /\ th[t].pc # "rewind"
    BY <1>10 DEF LookupMem, LookupFile, LookupPos, At
  <2> QED
    BY <1>8, <2>1, <2>2
<1> QED
  BY <1>9, <1>10 DEF Lookup

\* A call that has done its lookup: nobody rewinds its descriptor, and its step
\* leaves the other descriptors as they are seen.
LEMMA ServedAlone ==
    ASSUME Inv, NEW t \in Threads, th[t].pc \in {"found", "fclose"}
    PROVE  /\ th[t].fd \in Fds /\ fd_table[th[t].fd] # None
           /\ ~LookedAt(th[t].fd)
           /\ Opened(t) = fd_table[th[t].fd]
           /\ Mapped(t) => Hides(th[t].fd)
           /\ Mapped(t) \/ ~Hides(th[t].fd) \/ Missed(th[t].fd)
           /\ Mapped(t) => /\ fd_table[th[t].fd].self = th[t].self /\ th[t].self \in Addrs
                           /\ mem[th[t].self] # None
<1>1. /\ th[t].pc \in OnFd
      /\ Mapped(t) \/ ~Hides(th[t].fd) \/ Missed(th[t].fd)
  <2>1. th[t].pc = "fclose" => Mapped(t)
    BY NoneAssumption DEF Inv, SafeInv, TypeInv, Shape, Shaped, Mapped
  <2> QED
    BY <2>1 DEF OnFd, Inv, Knows, KnowsOf
<1>2. ~LookedAt(th[t].fd)
  <2> SUFFICES ASSUME NEW u \in Threads, At(u, "rewind"), th[u].fd = th[t].fd PROVE FALSE
    BY DEF LookedAt
  <2>1. u # t /\ th[u].pc \in {"lseek", "read", "rewind"}
    BY DEF At
  <2> QED
    BY <2>1, LooksAlone
<1> QED
  BY <1>1, <1>2, FdsSelfs, FoundLive DEF Inv, SafeInv, Opened

LEMMA ServedFrame ==
    ASSUME Inv, NEW t \in Threads, th[t].pc # "rewind", th'[t].pc # "rewind",
           \A u \in Threads \ {t} : th'[u] = th[u],
           NEW fd \in Fds, \A gd \in Fds \ {fd} : fd_table'[gd] = fd_table[gd],
           \A gd \in Fds \ {fd} :
              Hides(gd) => /\ mem'[fd_table[gd].self] = mem[fd_table[gd].self]
                           /\ fd_table[gd].self \in lost' <=> fd_table[gd].self \in lost
    PROVE  /\ \A gd \in Fds : (LookedAt(gd))' <=> LookedAt(gd)
           /\ \A gd \in Fds \ {fd} : Visible(gd)' = Visible(gd)
<1>1. \A gd \in Fds : (LookedAt(gd))' <=> LookedAt(gd)
  BY DEF LookedAt, At
<1> QED
  BY <1>1, VisibleKept

\* A read or a seek takes the file that is seen from one position to another.
PosStep(t, fd, what, old) ==
    /\ Table[fd] # None /\ Table[fd].what = what /\ Table[fd].pos = old
    /\ ReadReal(t) \/ ReadShadow(t) =>
          /\ Table' = [Table EXCEPT ![fd].pos = After(old)]
          /\ reply' = [op |-> "read", what |-> what, pos |-> old]
    /\ SeekReal(t) \/ SeekShadow(t) =>
          /\ Table' = [Table EXCEPT ![fd].pos = th[t].to]
          /\ reply' = [op |-> "seek", what |-> what, pos |-> th[t].to]
          /\ th[t].to \in 0..Length

LEMMA PosSeen ==
    ASSUME Inv, NEW t \in Threads, ReadReal(t) \/ SeekReal(t) \/ ReadShadow(t) \/ SeekShadow(t),
           ~Missed(th[t].fd)
    PROVE  \E fd \in Fds, what \in {"shadow", "apk", "other"}, old \in 0..Length :
              PosStep(t, fd, what, old)
<1>1. SafeInv /\ TypeInv /\ th[t].pc = "found" /\ th[t].pc \in OnFd /\ Step(t, NoCall)
  BY DEF Inv, SafeInv, ReadReal, SeekReal, ReadShadow, SeekShadow, At, OnFd, Returns
<1>2. PICK fd \in Fds : fd = th[t].fd
  BY <1>1, ServedAlone
<1>3. /\ fd_table[fd] # None /\ ~LookedAt(fd) /\ Opened(t) = fd_table[fd]
      /\ Mapped(t) <=> Hides(fd)
      /\ ~Missed(fd) /\ lost' = lost
  BY <1>1, <1>2, ServedAlone, LostStays
<1>4. th'[t].pc = "idle" /\ \A u \in Threads \ {t} : th'[u] = th[u]
  BY <1>1, NoCallStep
<1>5. fd_table[fd] \in Description /\ th[t].to \in 0..Length
  BY <1>1, <1>2, OpenedType DEF Opened, Call
<1>6. Table[fd] # None
  BY <1>1, <1>3, VisibleFile DEF Table
<1>7. CASE ReadReal(t) \/ SeekReal(t)
  <2>1. ~Mapped(t) /\ mem' = mem
        /\ \E pos \in 0..Length : SetPos(t, pos) /\ (KindOf(th[t].fd) \in Kinds => pos \in {0, 1})
    BY <1>1, <1>7, ServeRealType
  <2>2. ~Hides(fd) /\ fd_table[fd].kind \notin Kinds /\ KindOf(th[t].fd) = fd_table[fd].kind
    BY <1>2, <1>3, <2>1 DEF Hides, KindOf
  <2> DEFINE new == IF ReadReal(t) THEN After(fd_table[fd].pos) ELSE th[t].to
             old == fd_table[fd].pos
             what == fd_table[fd].kind
  <2>3. new \in 0..Length /\ old \in 0..Length /\ what \in {"shadow", "apk", "other"}
    BY <1>5, <2>2, DescriptionKinds, AfterType
  <2>4. SetPos(t, new)
    BY <1>3, <1>7, <2>2 DEF ReadReal, SeekReal
  <2> HIDE DEF new
  <2>5. /\ \A gd \in Fds \ {fd} : fd_table'[gd] = fd_table[gd]
        /\ fd_table'[fd] # None /\ fd_table'[fd].kind = what /\ fd_table'[fd].pos = new
    BY <1>1, <1>2, <1>3, <2>2, <2>3, <2>4, SetPosType
  <2>6. ~Hides(fd)'
    BY <2>2, <2>5 DEF Hides, KindOf
  <2>7. /\ \A gd \in Fds : (LookedAt(gd))' <=> LookedAt(gd)
        /\ \A gd \in Fds \ {fd} : Visible(gd)' = Visible(gd)
    BY <1>1, <1>3, <1>4, <2>1, <2>5, ServedFrame
  <2>8. Visible(fd) = [what |-> what, pos |-> old]
    BY <1>3, <2>2, VisibleIs
  <2>9. Visible(fd)' = [what |-> what, pos |-> new]
    BY <1>3, <2>5, <2>6, <2>7, VisibleIsNext
  <2>10. /\ Table' = [Table EXCEPT ![fd].pos = new]
         /\ Table[fd].what = what /\ Table[fd].pos = old
    BY <2>7, <2>8, <2>9, PosChanged
  <2>11. /\ ReadReal(t) => reply' = [op |-> "read", what |-> what, pos |-> old]
         /\ SeekReal(t) => reply' = [op |-> "seek", what |-> what, pos |-> th[t].to]
    BY <1>3, <2>2 DEF ReadReal, SeekReal, Returns, What
  <2>12. ~(ReadReal(t) /\ SeekReal(t)) /\ ~ReadShadow(t) /\ ~SeekShadow(t)
    BY <2>1 DEF ReadReal, SeekReal, ReadShadow, SeekShadow
  <2>13. /\ ReadReal(t) => Table' = [Table EXCEPT ![fd].pos = After(old)]
         /\ SeekReal(t) => Table' = [Table EXCEPT ![fd].pos = th[t].to]
    BY <2>10, <2>12 DEF new
  <2>14. PosStep(t, fd, what, old)
    BY <1>5, <1>6, <2>10, <2>11, <2>12, <2>13 DEF PosStep
  <2> QED
    BY <2>3, <2>14
<1>8. CASE ReadShadow(t) \/ SeekShadow(t)
  <2>1. Mapped(t) /\ Hides(fd)
    BY <1>3, <1>8 DEF ReadShadow, SeekShadow
  <2>2. fd_table[fd].self = th[t].self /\ th[t].self \in Addrs /\ mem[th[t].self] # None
    BY <1>1, <1>2, <2>1, ServedAlone
  <2>3. fd_table' = fd_table /\ \A x \in Addrs \ {th[t].self} : mem'[x] = mem[x]
    BY <1>1, <1>8, <2>2, ServeShadowType
  <2> DEFINE new == IF ReadShadow(t) THEN After(mem[th[t].self]) ELSE th[t].to
             old == mem[th[t].self]
             what == "shadow"
  <2>4. ~(ReadShadow(t) /\ SeekShadow(t)) /\ ~ReadReal(t) /\ ~SeekReal(t)
    BY <2>1 DEF ReadReal, SeekReal, ReadShadow, SeekShadow
  <2>5. mem'[th[t].self] = new /\ old \in 0..Length
    BY <1>1, <1>8, <2>2 DEF ReadShadow, SeekShadow, TypeInv, TypeOK
  <2>6. \A gd \in Fds \ {fd} : Hides(gd) => mem'[fd_table[gd].self] = mem[fd_table[gd].self]
    BY <1>1, <2>1, <2>2, <2>3, FdsSelfs DEF SafeInv, OneOwner
  <2>7. \A gd \in Fds \ {fd} : Visible(gd)' = Visible(gd)
    BY <1>1, <1>3, <1>4, <2>3, <2>6, ServedFrame
  <2>8. Hides(fd)' /\ ~Missed(fd)'
    BY <1>3, <2>1, <2>3 DEF Hides, KindOf, Missed
  <2>9. Visible(fd) = [what |-> what, pos |-> old] /\ Visible(fd)' = [what |-> what, pos |-> new]
    BY <1>3, <2>1, <2>2, <2>3, <2>5, <2>8, VisibleIs, VisibleIsNext
  <2>10. /\ Table' = [Table EXCEPT ![fd].pos = new]
         /\ Table[fd].what = what /\ Table[fd].pos = old
    BY <2>7, <2>9, PosChanged
  <2>11. /\ ReadShadow(t) => reply' = [op |-> "read", what |-> what, pos |-> old]
         /\ SeekShadow(t) => reply' = [op |-> "seek", what |-> what, pos |-> th[t].to]
    BY DEF ReadShadow, SeekShadow, Returns
  <2>12. /\ ReadShadow(t) => Table' = [Table EXCEPT ![fd].pos = After(old)]
         /\ SeekShadow(t) => Table' = [Table EXCEPT ![fd].pos = th[t].to]
    BY <2>4, <2>10
  <2>13. PosStep(t, fd, what, old)
    BY <1>5, <1>6, <2>4, <2>10, <2>11, <2>12 DEF PosStep
  <2> QED
    BY <2>5, <2>13
<1> QED
  BY <1>7, <1>8

\* A call on a descriptor whose handle was lost tells nothing, and changes nothing
\* that is seen.
LEMMA LostSeen ==
    ASSUME Inv, NEW t \in Threads, ReadReal(t) \/ SeekReal(t) \/ ReadShadow(t) \/ SeekShadow(t),
           Missed(th[t].fd)
    PROVE  \E fd \in Fds, op \in {"read", "seek"}, what \in {"shadow", "mapping"},
              pos \in 0..Length :
              /\ Table[fd] = LostFile /\ Table' = Table
              /\ reply' = [op |-> op, what |-> what, pos |-> pos]
<1>1. /\ SafeInv /\ TypeInv /\ th[t].pc = "found" /\ th[t].pc \in OnFd /\ Step(t, NoCall)
      /\ lost' = lost
  BY LostStays
     DEF Inv, SafeInv, ReadReal, SeekReal, ReadShadow, SeekShadow, At, OnFd, Returns
<1>2. PICK fd \in Fds : fd = th[t].fd
  BY <1>1, ServedAlone
<1>3. /\ fd_table[fd] # None /\ Opened(t) = fd_table[fd]
      /\ Missed(fd) /\ Hides(fd) /\ fd_table[fd].kind \in Kinds
  BY <1>1, <1>2, ServedAlone DEF Missed, Hides, KindOf
<1>4. th'[t].pc = "idle" /\ \A u \in Threads \ {t} : th'[u] = th[u]
  BY <1>1, NoCallStep
<1>5. fd_table[fd] \in Description /\ th[t].to \in 0..Length /\ fd_table[fd].pos \in 0..Length
  BY <1>1, <1>2, OpenedType, DescriptionKinds DEF Opened, Call
<1>6. /\ \A gd \in Fds \ {fd} : fd_table'[gd] = fd_table[gd]
      /\ \A gd \in Fds \ {fd} : Hides(gd) => mem'[fd_table[gd].self] = mem[fd_table[gd].self]
      /\ Hides(fd)' /\ fd_table'[fd].self = fd_table[fd].self
  <2>1. CASE ReadReal(t) \/ SeekReal(t)
    <3>1. mem' = mem
          /\ \E pos \in 0..Length : SetPos(t, pos) /\ (KindOf(th[t].fd) \in Kinds => pos \in {0, 1})
      BY <1>1, <2>1, ServeRealType
    <3> QED
      BY <1>1, <1>2, <1>3, <3>1, SetPosType, SetPosHides
  <2>2. CASE ReadShadow(t) \/ SeekShadow(t)
    <3>1. Mapped(t)
      BY <2>2 DEF ReadShadow, SeekShadow
    <3>2. fd_table[fd].self = th[t].self /\ th[t].self \in Addrs /\ mem[th[t].self] # None
      BY <1>1, <1>2, <3>1, ServedAlone
    <3>3. fd_table' = fd_table /\ \A x \in Addrs \ {th[t].self} : mem'[x] = mem[x]
      BY <1>1, <2>2, <3>2, ServeShadowType
    <3>4. \A gd \in Fds \ {fd} : Hides(gd) => mem'[fd_table[gd].self] = mem[fd_table[gd].self]
      BY <1>1, <1>3, <3>2, <3>3, FdsSelfs DEF SafeInv, OneOwner
    <3>5. Hides(fd)'
      BY <1>3, <3>3 DEF Hides, KindOf
    <3> QED
      BY <3>3, <3>4, <3>5
  <2> QED
    BY <2>1, <2>2
<1>7. \A gd \in Fds \ {fd} : Visible(gd)' = Visible(gd)
  BY <1>1, <1>4, <1>6, ServedFrame
<1>8. Visible(fd) = LostFile /\ Visible(fd)' = LostFile
  <2>1. Missed(fd)'
    BY <1>1, <1>3, <1>6 DEF Missed
  <2> QED
    BY <1>3, <2>1, VisibleIs, VisibleIsNext
<1>9. Table[fd] = LostFile /\ Table' = Table
  BY <1>7, <1>8, TableKept, TableChanged
<1>10. \E op \in {"read", "seek"}, what \in {"shadow", "mapping"}, pos \in 0..Length :
          reply' = [op |-> op, what |-> what, pos |-> pos]
  <2>1. CASE ReadReal(t)
    BY <1>2, <1>3, <1>5, <2>1 DEF ReadReal, Returns, What, KindOf
  <2>2. CASE SeekReal(t)
    BY <1>2, <1>3, <1>5, <2>2 DEF SeekReal, Returns, What, KindOf
  <2>3. CASE ReadShadow(t)
    <3>1. mem[th[t].self] \in 0..Length
      BY <1>1, <2>3, ServedAlone DEF ReadShadow, TypeInv, TypeOK
    <3> QED
      BY <2>3, <3>1 DEF ReadShadow, Returns
  <2>4. CASE SeekShadow(t)
    BY <1>5, <2>4 DEF SeekShadow, Returns
  <2> QED
    BY <2>1, <2>2, <2>3, <2>4
<1> QED
  BY <1>9, <1>10

LEMMA PosImplements ==
    ASSUME Inv, NEW t \in Threads, ReadReal(t) \/ SeekReal(t) \/ ReadShadow(t) \/ SeekShadow(t)
    PROVE  Plain!Next
<1>1. alive /\ alive' = alive
  BY DEF ReadReal, SeekReal, ReadShadow, SeekShadow
<1>2. CASE Missed(th[t].fd)
  <2>1. PICK fd \in Fds, op \in {"read", "seek"}, what \in {"shadow", "mapping"},
             pos \in 0..Length :
            /\ Table[fd] = LostFile /\ Table' = Table
            /\ reply' = [op |-> op, what |-> what, pos |-> pos]
    BY <1>2, LostSeen
  <2>2. Plain!UseLost
    BY <1>1, <2>1 DEF Plain!UseLost, Plain!Lost, Plain!Returns, Plain!Reply, Table, LostFile
  <2> QED
    BY <1>1, <2>2 DEF Plain!Next
<1> SUFFICES ASSUME ~Missed(th[t].fd) PROVE Plain!Next
  BY <1>2
<1>3. PICK fd \in Fds, what \in {"shadow", "apk", "other"}, old \in 0..Length :
          PosStep(t, fd, what, old)
  BY PosSeen
<1>4. Table[fd] # None /\ Table[fd] # LostFile
  <2>1. Table[fd] # None /\ Table[fd].what = what
    BY <1>3 DEF PosStep
  <2> QED
    BY <2>1 DEF LostFile
<1>5. CASE ReadReal(t) \/ ReadShadow(t)
  <2>1. Table' = [Table EXCEPT ![fd].pos = IF @ < Length THEN @ + 1 ELSE @]
    BY <1>3, <1>5 DEF PosStep, After
  <2>2. reply' = [op |-> "read", what |-> Table[fd].what, pos |-> Table[fd].pos]
    BY <1>3, <1>5 DEF PosStep
  <2>3. Plain!Read
    BY <1>1, <1>4, <2>1, <2>2
       DEF Plain!Read, Plain!Lost, Plain!Returns, Plain!Reply, Table, LostFile
  <2> QED
    BY <1>1, <2>3 DEF Plain!Next
<1>6. CASE SeekReal(t) \/ SeekShadow(t)
  <2>1. /\ Table' = [Table EXCEPT ![fd].pos = th[t].to]
        /\ reply' = [op |-> "seek", what |-> Table[fd].what, pos |-> th[t].to]
        /\ th[t].to \in 0..Length
    BY <1>3, <1>6 DEF PosStep
  <2>2. Plain!Seek
    BY <1>1, <1>4, <2>1
       DEF Plain!Seek, Plain!Lost, Plain!Returns, Plain!Reply, Table, LostFile
  <2> QED
    BY <1>1, <2>2 DEF Plain!Next
<1> QED
  BY <1>5, <1>6

\* An open is seen when the descriptor is there, not when the handle is.
LEMMA OpenSeen ==
    ASSUME Inv, NEW t \in Threads, OpenReal(t) \/ SaveMem(t) \/ SaveFile(t)
    PROVE  \E fd \in Fds, what \in {"shadow", "apk", "other"} :
              /\ Table[fd] = None
              /\ \/ Table' = [Table EXCEPT ![fd] = [what |-> what, pos |-> 0]]
                 \/ what = "shadow" /\ Table' = [Table EXCEPT ![fd] = LostFile]
              /\ reply' = [op |-> "open", what |-> what, pos |-> 0]
<1>1. SafeInv /\ TypeInv
  BY DEF Inv, SafeInv
<1>2. CASE OpenReal(t)
  <2>1. PICK fd \in Fds, kind \in {"apk", "other"} :
            NewFd(fd, RealFile(kind, 0)) /\ Returns(t, "open", kind, 0)
    BY <1>2 DEF OpenReal
  <2>2. Step(t, NoCall) /\ mem' = mem /\ lost' = lost /\ th[t].pc = "idle"
    BY <1>2, <2>1 DEF OpenReal, Returns, At
  <2>3. th'[t].pc = "idle" /\ \A u \in Threads \ {t} : th'[u] = th[u]
    BY <1>1, <2>2, NoCallStep
  <2>4. /\ fd_table[fd] = None /\ fd_table'[fd] = RealFile(kind, 0) /\ fd_table'[fd] # None
        /\ \A gd \in Fds \ {fd} : fd_table'[gd] = fd_table[gd]
        /\ \A u \in Threads : th[u].fd # fd
    BY <1>1, <2>1, RealFileType, NewFdType
  <2>5. /\ \A gd \in Fds : (LookedAt(gd))' <=> LookedAt(gd)
        /\ \A gd \in Fds \ {fd} : Visible(gd)' = Visible(gd)
    BY <2>2, <2>3, <2>4, ServedFrame
  <2>6. ~Hides(fd)' /\ fd_table'[fd].kind = kind /\ fd_table'[fd].pos = 0
    BY <2>4, RealFileType DEF Hides, KindOf, Kinds
  <2>7. Visible(fd) = None /\ Visible(fd)' = [what |-> kind, pos |-> 0]
    BY <2>4, <2>6, VisibleIs, VisibleIsNext
  <2>8. Table[fd] = None /\ Table' = [Table EXCEPT ![fd] = [what |-> kind, pos |-> 0]]
    BY <2>5, <2>7, TableChanged
  <2>9. reply' = [op |-> "open", what |-> kind, pos |-> 0]
    BY <2>1 DEF Returns
  <2> QED
    BY <2>8, <2>9
<1>3. CASE SaveMem(t) \/ SaveFile(t)
  <2>1. /\ mem' = mem /\ At(t, "save") /\ th'[t].pc = "idle"
        /\ \A u \in Threads \ {t} : th'[u] = th[u]
    BY <1>3, SavedSafe DEF Inv
  <2>2. PICK fd \in Fds :
            /\ fd_table[fd] = None /\ Hides(fd)' /\ fd_table'[fd].self = th[t].self
            /\ lost' = lost \/ lost' = lost \cup {th[t].self}
            /\ \A gd \in Fds \ {fd} : fd_table'[gd] = fd_table[gd]
    BY <1>3, SavedSafe DEF Inv
  <2>3. mem[th[t].self] = 0
    BY <2>1 DEF Inv, Knows, KnowsOf
  <2>4. \A gd \in Fds \ {fd} : Visible(gd)' = Visible(gd)
    <3>1. \A gd \in Fds : Hides(gd) => fd_table[gd].self # th[t].self
      BY <1>1, <2>1 DEF SafeInv, OneOwner, Holds, At
    <3> QED
      BY <2>1, <2>2, <3>1, ServedFrame DEF At
  <2>5. /\ Visible(fd) = None
        /\ Visible(fd)' = [what |-> "shadow", pos |-> 0] \/ Visible(fd)' = LostFile
    BY <2>1, <2>2, <2>3, VisibleIs, VisibleIsNext
  <2>6. /\ Table[fd] = None
        /\ \/ Table' = [Table EXCEPT ![fd] = [what |-> "shadow", pos |-> 0]]
           \/ Table' = [Table EXCEPT ![fd] = LostFile]
    BY <2>4, <2>5, TableChanged
  <2>7. reply' = [op |-> "open", what |-> "shadow", pos |-> 0]
    BY <1>3 DEF SaveMem, SaveFile, Saved, Returns
  <2> QED
    BY <2>6, <2>7
<1> QED
  BY <1>2, <1>3

\* A close is seen when the descriptor goes; deleting the handle comes later.
LEMMA CloseSeen ==
    ASSUME Inv, NEW t \in Threads, CloseReal(t) \/ CleanClose(t)
    PROVE  \E fd \in Fds :
              /\ Table[fd] # None
              /\ Table' = [Table EXCEPT ![fd] = None]
              /\ \/ /\ Table[fd] # LostFile
                    /\ reply' = [op |-> "close", what |-> Table[fd].what, pos |-> 0]
                 \/ /\ Table[fd] = LostFile
                    /\ \E what \in {"shadow", "mapping"} :
                          reply' = [op |-> "close", what |-> what, pos |-> 0]
<1>1. SafeInv /\ TypeInv
  BY DEF Inv, SafeInv
<1>2. /\ mem' = mem /\ lost' = lost
      /\ th[t].pc \in OnFd /\ th[t].op = "close" /\ CloseFd(th[t].fd)
      /\ \A u \in Threads \ {t} : th'[u] = th[u]
      /\ CloseReal(t) => ~Mapped(t) /\ th[t].pc = "found" /\ th'[t].pc = "idle"
      /\ CleanClose(t) => th[t].pc = "fclose" /\ th'[t].pc = "delete"
  BY <1>1, CloseType
<1>3. th[t].pc \in {"found", "fclose"} /\ th'[t].pc # "rewind"
  BY <1>2
<1>4. PICK fd \in Fds : fd = th[t].fd
  BY <1>3, ServedAlone
<1>5. /\ fd_table[fd] # None /\ ~LookedAt(fd)
      /\ Mapped(t) => Hides(fd)
      /\ Mapped(t) \/ ~Hides(fd) \/ Missed(fd)
  BY <1>3, <1>4, ServedAlone
<1>6. fd_table'[fd] = None /\ \A gd \in Fds \ {fd} : fd_table'[gd] = fd_table[gd]
  BY <1>1, <1>2, <1>4, CloseAlone
<1>7. \A gd \in Fds \ {fd} : Visible(gd)' = Visible(gd)
  BY <1>2, <1>3, <1>6, ServedFrame
<1>8. Visible(fd)' = None
  BY <1>6, VisibleIsNext
<1>9. Table[fd] = Visible(fd) /\ Table' = [Table EXCEPT ![fd] = None]
  BY <1>7, <1>8, TableChanged
<1>10. Table[fd] # None
  BY <1>1, <1>5, <1>9, VisibleFile
<1>11. CASE Missed(fd)
  <2>1. Table[fd] = LostFile /\ Hides(fd)
    BY <1>9, <1>11, VisibleIs DEF Missed
  <2>2. \E what \in {"shadow", "mapping"} : reply' = [op |-> "close", what |-> what, pos |-> 0]
    <3>1. CASE CloseReal(t)
      BY <1>4, <2>1, <3>1 DEF CloseReal, Returns, What, Hides
    <3>2. CASE CleanClose(t)
      BY <3>2 DEF CleanClose
    <3> QED
      BY <3>1, <3>2
  <2> QED
    BY <1>9, <1>10, <2>1, <2>2
<1>12. CASE CloseReal(t) /\ ~Missed(fd)
  <2>1. ~Hides(fd)
    BY <1>2, <1>5, <1>12
  <2>2. Table[fd].what = fd_table[fd].kind /\ fd_table[fd].kind \notin Kinds
    BY <1>5, <1>9, <2>1, VisibleIs DEF Hides, KindOf
  <2>3. reply' = [op |-> "close", what |-> fd_table[fd].kind, pos |-> 0]
    BY <1>4, <1>12, <2>2 DEF CloseReal, Returns, What, KindOf
  <2>4. fd_table[fd].kind # "lost"
    BY <1>1, <1>5, <2>1, DescriptionKinds DEF SafeInv, TypeInv, TypeOK, Hides, KindOf
  <2>5. Table[fd] # LostFile
    BY <2>2, <2>4 DEF LostFile
  <2> QED
    BY <1>9, <1>10, <2>2, <2>3, <2>5
<1>13. CASE CleanClose(t) /\ ~Missed(fd)
  <2>1. Mapped(t)
    BY <1>1, <1>2, <1>13, NoneAssumption DEF TypeInv, Shape, Shaped, Mapped
  <2>2. Table[fd].what = "shadow" /\ Table[fd] # LostFile
    BY <1>5, <1>9, <1>13, <2>1, VisibleIs DEF LostFile
  <2>3. reply' = [op |-> "close", what |-> "shadow", pos |-> 0]
    BY <1>13 DEF CleanClose
  <2> QED
    BY <1>9, <1>10, <2>2, <2>3
<1> QED
  BY <1>11, <1>12, <1>13

LEMMA OpenImplements ==
    ASSUME Inv, NEW t \in Threads, OpenReal(t) \/ SaveMem(t) \/ SaveFile(t)
    PROVE  Plain!Next
<1>1. alive /\ alive' = alive
  BY DEF OpenReal, Engine, SaveMem, SaveFile
<1>2. PICK fd \in Fds, what \in {"shadow", "apk", "other"} :
          /\ Table[fd] = None
          /\ \/ Table' = [Table EXCEPT ![fd] = [what |-> what, pos |-> 0]]
             \/ what = "shadow" /\ Table' = [Table EXCEPT ![fd] = LostFile]
          /\ reply' = [op |-> "open", what |-> what, pos |-> 0]
  BY OpenSeen
<1>3. Plain!Open
  BY <1>1, <1>2
     DEF Plain!Open, Plain!Whats, Plain!Lost, Plain!Returns, Plain!Reply, Table, LostFile
<1> QED
  BY <1>1, <1>3 DEF Plain!Next

LEMMA CloseImplements ==
    ASSUME Inv, NEW t \in Threads, CloseReal(t) \/ CleanClose(t)
    PROVE  Plain!Next
<1>1. alive /\ alive' = alive
  BY DEF CloseReal, CleanClose
<1>2. PICK fd \in Fds :
          /\ Table[fd] # None
          /\ Table' = [Table EXCEPT ![fd] = None]
          /\ \/ /\ Table[fd] # LostFile
                /\ reply' = [op |-> "close", what |-> Table[fd].what, pos |-> 0]
             \/ /\ Table[fd] = LostFile
                /\ \E what \in {"shadow", "mapping"} :
                      reply' = [op |-> "close", what |-> what, pos |-> 0]
  BY CloseSeen
<1>3. CASE Table[fd] # LostFile
  <2>1. Plain!Close
    BY <1>1, <1>2, <1>3
       DEF Plain!Close, Plain!Lost, Plain!Returns, Plain!Reply, Table, LostFile
  <2> QED
    BY <1>1, <2>1 DEF Plain!Next
<1>4. CASE Table[fd] = LostFile
  <2>1. 0 \in 0..Length
    BY LengthAssumption
  <2>2. Plain!UseLost
    BY <1>1, <1>2, <1>4, <2>1
       DEF Plain!UseLost, Plain!Lost, Plain!Returns, Plain!Reply, Table, LostFile
  <2> QED
    BY <1>1, <2>2 DEF Plain!Next
<1> QED
  BY <1>3, <1>4

\* The table stands still when descriptors, handles and calls do.
LEMMA TableStill ==
    ASSUME fd_table' = fd_table, mem' = mem, lost' = lost, th' = th
    PROVE  Table' = Table
<1>1. \A fd \in Fds : (LookedAt(fd))' <=> LookedAt(fd)
  BY DEF LookedAt, At
<1> QED
  BY <1>1, VisibleKept, TableKept

LEMMA StutterPlain ==
    ASSUME Table' = Table, reply' = reply, alive' = alive
    PROVE  UNCHANGED Plain!vars
BY DEF Plain!vars, Table

LEMMA PlainNext == Inv /\ [Next]_vars => [Plain!Next]_(Plain!vars)
<1> SUFFICES ASSUME Inv, [Next]_vars PROVE [Plain!Next]_(Plain!vars)
  OBVIOUS
<1>1. CASE UNCHANGED vars \/ Bootstrap \/ Exited
  <2>1. /\ fd_table' = fd_table /\ mem' = mem /\ lost' = lost /\ th' = th
        /\ reply' = reply /\ alive' = alive
    BY <1>1, RestKeeps DEF vars, Exited, Bootstrap, InitAshmem, InitDir, InitUnlink, InstallHook
  <2> QED
    BY <2>1, TableStill, StutterPlain
<1>2. ASSUME NEW t \in Threads, SaveFails(t) PROVE Plain!Next
  <2>1. /\ alive /\ alive' = FALSE /\ fd_table' = fd_table /\ mem' = mem /\ lost' = lost
        /\ th' = th /\ reply' = reply
    BY <1>2 DEF SaveFails, ExitNow
  <2>2. Table' = Table
    BY <2>1, TableStill
  <2>3. Plain!Exit
    BY <2>1, <2>2 DEF Plain!Exit, Table
  <2> QED
    BY <2>3 DEF Plain!Next
<1>3. ASSUME NEW t \in Threads,
             OpenApk(t) \/ Begin(t) \/ CleanMapping(t) \/ CleanDelete(t)
      PROVE  UNCHANGED Plain!vars
  BY <1>3, Unseen, StutterPlain
<1>4. ASSUME NEW t \in Threads, Lookup(t) PROVE UNCHANGED Plain!vars \/ Plain!Next
  <2>1. reply' = reply /\ alive' = alive /\ alive
    BY <1>4, LookupSeen
  <2>2. CASE Table' = Table
    BY <2>1, <2>2, StutterPlain
  <2>3. CASE \E fd \in Fds : /\ Table[fd] # None /\ Table[fd].what = "shadow"
                             /\ Table' = [Table EXCEPT ![fd] = LostFile]
    <3>1. PICK fd \in Fds : /\ Table[fd] # None /\ Table[fd].what = "shadow"
                            /\ Table' = [Table EXCEPT ![fd] = LostFile]
      BY <2>3
    <3>2. Table[fd] # LostFile
      BY <3>1 DEF LostFile
    <3>3. Plain!Lose
      BY <2>1, <3>1, <3>2 DEF Plain!Lose, Plain!Lost, Table, LostFile
    <3> QED
      BY <2>1, <3>3 DEF Plain!Next
  <2> QED
    BY <1>4, <2>2, <2>3, LookupSeen
<1> QED
  BY <1>1, <1>2, <1>3, <1>4, OpenImplements, PosImplements, CloseImplements DEF Next, Serve

\* For an engine that is not early, the hooks with all their system calls between
\* are files with one position each: my_open to my_close (bootstrap.cpp:487-734),
\* by any number of threads; a system call that fails in a save or a lookup harms
\* the one descriptor it is about.
THEOREM Implementation == Spec /\ ~Early => HooksAreFiles
BY Invariance, InitPlain, PlainNext, PTL DEF Spec, HooksAreFiles, Plain!Spec
=============================================================================
