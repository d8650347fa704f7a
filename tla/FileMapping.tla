------------------------------ MODULE FileMapping ------------------------------
(***************************************************************************)
(* The hooks on open, read, lseek and close (bootstrap.cpp:487-734) and    *)
(* the table from descriptors to handles of the shadow apk                 *)
(* (file_mapping.h), used by several threads.  A handle hides behind a     *)
(* descriptor of its own: of an ashmem region, or of a file that holds the *)
(* address of the FileExtraData.  bootstrap sets up the one or the other   *)
(* while a thread of xhook installs the hooks.                             *)
(*                                                                         *)
(* The system calls of a save or of a lookup may fail at any time.  Where  *)
(* the code does not exit, it takes the descriptor for one of a real file. *)
(*                                                                         *)
(* my_fopen, my_fseek, my_fread and my_fclose differ from my_open,         *)
(* my_lseek, my_read and my_close only in naming the descriptor by a FILE*.*)
(***************************************************************************)
EXTENDS Naturals, FiniteSets

CONSTANTS
    Threads,   \* threads of the engine
    Fds,       \* descriptor numbers; a closed one is used again
    Addrs,     \* addresses the allocator gives to a FileExtraData
    None,
    Length,    \* of every file, in units of one read
    Early      \* whether the engine runs before bootstrap is through

ASSUME LengthAssumption == Length \in Nat \ {0}
ASSUME EarlyAssumption == Early \in BOOLEAN

VARIABLES
    ashmem,          \* whether /dev/ashmem can be opened
    use_shared_mem,
    fds_dir,         \* the files in rt_fd_mappings, None if there is no such directory
    init_pc,         \* where init_mapping_data is
    hooked,          \* which functions are hooked
    fd_table,        \* what the kernel has open
    mem,             \* pos_ of the ShadowZip of the FileExtraData at an address
    lost,            \* history: the handles that a failing system call has lost
    th,              \* the running call of a thread
    reply,           \* what the last call to return has returned
    alive

setup == <<ashmem, use_shared_mem, fds_dir, init_pc, hooked>>
vars == <<setup, fd_table, mem, lost, th, reply, alive>>

\* An open file: a real one, or one that holds a copy of the FileExtraData at
\* address self, or of a "short" one only the beginning.  (The copy also names its
\* descriptor, which differs only in a descriptor that was duplicated; nothing here
\* does so.)
Kinds == {"shm", "map", "short"}
Description ==
    [kind : {"apk", "other"}, pos : 0..Length] \cup
    [kind : Kinds, pos : {0, 1}, self : Addrs]
ASSUME NoneAssumption ==
    /\ None \notin Threads \cup Fds \cup Addrs
    /\ None \notin 0..Length
    /\ None \notin Description
    /\ \A dir \in SUBSET (Addrs \cup {"stale"}) : dir # None
KindOf(fd) == fd_table[fd].kind
RealFile(kind, pos) == [kind |-> kind, pos |-> pos]

\* A call: where it is, on which descriptor, and what get_mapping has found.
Call == [pc : {"idle", "save", "lookup", "lseek", "read", "rewind", "found", "fclose",
               "delete"},
         op : {"none", "open", "read", "seek", "close"},
         fd : Fds \cup {None}, to : 0..Length, self : Addrs \cup {None}]
NoCall == [pc |-> "idle", op |-> "none", fd |-> None, to |-> 0, self |-> None]

\* rt_fd_mappings is there if an earlier start has had no ashmem.
Init ==
    /\ ashmem \in BOOLEAN /\ use_shared_mem = FALSE
    /\ fds_dir \in {None} \cup {{}, {"stale"}}
    /\ ashmem => fds_dir = None
    /\ init_pc = "ashmem" /\ hooked = {}
    /\ fd_table = [fd \in Fds |-> None]
    /\ mem = [x \in Addrs |-> None] /\ lost = {}
    /\ th = [t \in Threads |-> NoCall]
    /\ reply = [op |-> "none", what |-> "none", pos |-> 0]
    /\ alive = TRUE

-----------------------------------------------------------------------------
(***************************************************************************)
(* bootstrap (801-826), which calls init_hook and then init_mapping_data   *)
(* (39-104), and the thread of xhook.                                      *)
(***************************************************************************)
engine == <<fd_table, mem, lost, th, reply, alive>>

\* Lines 41-55: the device is there and can be opened and looked at, or not.
InitAshmem ==
    /\ init_pc = "ashmem"
    /\ IF ashmem THEN use_shared_mem' = TRUE /\ init_pc' = "done"
                 ELSE use_shared_mem' = FALSE /\ init_pc' = "dir"
    /\ UNCHANGED <<ashmem, fds_dir, hooked, engine>>

\* Lines 57-81: the directory is there, or made, or cannot be.
InitDir ==
    /\ init_pc = "dir"
    /\ \/ /\ fds_dir' = IF fds_dir = None THEN {} ELSE fds_dir
          /\ init_pc' = "unlink"
       \/ init_pc' = "done" /\ UNCHANGED fds_dir
    /\ UNCHANGED <<ashmem, use_shared_mem, hooked, engine>>

\* Lines 83-103: the files left by an earlier process; one that cannot be
\* removed ends it.
InitUnlink ==
    /\ init_pc = "unlink"
    /\ fds_dir' \in {fds_dir, {}}
    /\ init_pc' = "done"
    /\ UNCHANGED <<ashmem, use_shared_mem, hooked, engine>>

\* xhook_refresh(1) has returned; its thread writes the slots of libunity.so, one
\* after the other in the order of init_hook: the function that opens first, the
\* one that closes last.
Ops == {"open", "read", "seek", "close"}
InstallHook ==
    /\ \E op \in Ops \ hooked :
          /\ op # "open" => "open" \in hooked
          /\ op = "close" => Ops \ hooked = {"close"}
          /\ hooked' = hooked \cup {op}
    /\ UNCHANGED <<ashmem, use_shared_mem, fds_dir, init_pc, engine>>

Bootstrap == InitAshmem \/ InitDir \/ InitUnlink \/ InstallHook
Started == init_pc = "done" /\ hooked = Ops

-----------------------------------------------------------------------------
(***************************************************************************)
(* The calls.  A descriptor that is open serves one call at a time.  With  *)
(* ashmem, whose lookup leaves a file alone, several threads may read and  *)
(* seek one real file; a ShadowZip has no lock, and no two threads may use *)
(* one.                                                                    *)
(***************************************************************************)
Engine == alive /\ (Started \/ Early)
Step(t, call) == th' = [th EXCEPT ![t] = call]
At(t, pc) == th[t].pc = pc
Goto(t, pc) == Step(t, [th[t] EXCEPT !.pc = pc])

Returns(t, op, what, pos) ==
    /\ Step(t, NoCall)
    /\ reply' = [op |-> op, what |-> what, pos |-> pos]

CallsOn(fd) == {th[t].op : t \in {u \in Threads : th[u].fd = fd}}
MayCall(op, fd) ==
    /\ fd_table[fd] # None
    /\ \/ CallsOn(fd) = {}
       \/ /\ use_shared_mem /\ KindOf(fd) \notin Kinds
          /\ "close" \notin CallsOn(fd) \cup {op}

\* A new descriptor, of the file described.
NewFd(fd, description) ==
    /\ fd_table[fd] = None
    /\ fd_table' = [fd_table EXCEPT ![fd] = description]

\* A file that is not the apk, the apk without a hook or when ShadowZip::fopen
\* has failed: the descriptor of the real file (643, 653, 663).
OpenReal(t) ==
    /\ Engine /\ At(t, "idle")
    /\ \E fd \in Fds, kind \in {"apk", "other"} :
          NewFd(fd, RealFile(kind, 0)) /\ Returns(t, "open", kind, 0)
    /\ UNCHANGED <<setup, mem, lost, alive>>

\* The apk: a new ShadowZip and a FileExtraData for it (646-658, 155-158).
OpenApk(t) ==
    /\ Engine /\ "open" \in hooked /\ At(t, "idle")
    /\ \E self \in Addrs :
          /\ mem[self] = None
          /\ mem' = [mem EXCEPT ![self] = 0]
          /\ Step(t, [NoCall EXCEPT !.pc = "save", !.op = "open", !.self = self])
    /\ UNCHANGED <<setup, fd_table, lost, reply, alive>>

\* _exit(-1)
ExitNow ==
    /\ alive' = FALSE
    /\ UNCHANGED <<setup, fd_table, mem, lost, th, reply>>

\* save_mem_mapping and save_file_mapping (106-151): the descriptor and what it
\* leads to.
Saved(t, kind) ==
    \E fd \in Fds :
        /\ NewFd(fd, [kind |-> kind, pos |-> 0, self |-> th[t].self])
        /\ Returns(t, "open", "shadow", 0)

SaveMem(t) ==
    /\ alive /\ At(t, "save") /\ use_shared_mem
    /\ Saved(t, "shm") /\ UNCHANGED <<setup, mem, lost, alive>>

\* fwrite and fflush are not checked: the file may be short.
SaveFile(t) ==
    /\ alive /\ At(t, "save") /\ ~use_shared_mem /\ fds_dir # None
    /\ \/ Saved(t, "map") /\ UNCHANGED lost
       \/ Saved(t, "short") /\ lost' = lost \cup {th[t].self}
    /\ fds_dir' = fds_dir \cup {th[t].self}
    /\ UNCHANGED <<ashmem, use_shared_mem, init_pc, hooked, mem, alive>>

\* fopen or mmap fails: no directory to save to, no descriptor, no memory.
SaveFails(t) ==
    /\ alive /\ At(t, "save")
    /\ ExitNow

-----------------------------------------------------------------------------
\* my_read, my_lseek, my_lseek64 and my_close begin with get_mapping.  Without
\* a hook the call goes to the kernel.
Begin(t) ==
    /\ Engine /\ At(t, "idle")
    /\ \E fd \in Fds, op \in Ops \ {"open"}, to \in 0..Length :
          /\ MayCall(op, fd)
          /\ op # "seek" => to = 0
          /\ Step(t, [pc |-> IF op \in hooked THEN "lookup" ELSE "found", op |-> op, fd |-> fd,
                      to |-> to, self |-> None])
    /\ UNCHANGED <<setup, fd_table, mem, lost, reply, alive>>

Opened(t) == fd_table[th[t].fd]
SetPos(t, pos) == fd_table' = [fd_table EXCEPT ![th[t].fd].pos = pos]
Found(t, self) == Step(t, [th[t] EXCEPT !.pc = "found", !.self = self])

\* The address that a mapping of the kind holds.
SelfOf(t, kind) == IF Opened(t).kind = kind THEN Opened(t).self ELSE None

\* The lookup of a descriptor fails: of the handle behind it, if there is one,
\* nothing can be said any more.
Loses(t) == lost' = lost \cup IF Opened(t).kind \in Kinds THEN {Opened(t).self} ELSE {}

\* get_mem_mapping (170-197): the region is mapped for the length of the call.
\* fstat (174) or mmap (181) may fail.
LookupMem(t) ==
    /\ alive /\ At(t, "lookup") /\ use_shared_mem
    /\ \/ Found(t, SelfOf(t, "shm")) /\ UNCHANGED lost
       \/ Found(t, None) /\ Loses(t)
    /\ UNCHANGED <<setup, fd_table, mem, reply, alive>>

LookupFile(t) ==
    /\ alive /\ At(t, "lookup") /\ ~use_shared_mem
    /\ Goto(t, "lseek")
    /\ UNCHANGED <<setup, fd_table, mem, lost, reply, alive>>

\* get_file_mapping (199-215): where is the descriptor, ...
LookupPos(t) ==
    /\ alive /\ At(t, "lseek")
    /\ IF Opened(t).pos # 0 THEN Found(t, None) ELSE Goto(t, "read")
    /\ UNCHANGED <<setup, fd_table, mem, lost, reply, alive>>

\* ... what does it hold there, if it can be read, ...
LookupRead(t) ==
    /\ alive /\ At(t, "read")
    /\ \/ /\ SetPos(t, 1) /\ UNCHANGED lost
          /\ Step(t, [th[t] EXCEPT !.pc = "rewind", !.self = SelfOf(t, "map")])
       \/ /\ Loses(t) /\ UNCHANGED fd_table
          /\ Step(t, [th[t] EXCEPT !.pc = "rewind", !.self = None])
    /\ UNCHANGED <<setup, mem, reply, alive>>

\* Mutant: the descriptor stays where the read has left it.
LookupStay(t) ==
    /\ alive /\ At(t, "rewind")
    /\ Found(t, th[t].self)
    /\ UNCHANGED <<setup, fd_table, mem, lost, reply, alive>>

\* ... and back to its start.
LookupRewind(t) ==
    /\ alive /\ At(t, "rewind")
    /\ SetPos(t, 0)
    /\ Found(t, th[t].self)
    /\ UNCHANGED <<setup, mem, lost, reply, alive>>

-----------------------------------------------------------------------------
Mapped(t) == th[t].self # None

\* Mutant: a read at the end goes on.
AfterAlways(pos) == pos + 1

After(pos) == IF pos < Length THEN pos + 1 ELSE pos

\* What the caller of a real call gets: the file at its position.  Of a mapping it
\* gets the bytes of the FileExtraData (whether an empty one moves tells nothing
\* apart).
What(fd) == IF KindOf(fd) \in Kinds THEN "mapping" ELSE KindOf(fd)

ReadReal(t) ==
    /\ alive /\ At(t, "found") /\ th[t].op = "read" /\ ~Mapped(t)
    /\ Returns(t, "read", What(th[t].fd), Opened(t).pos)
    /\ SetPos(t, IF KindOf(th[t].fd) \in Kinds THEN 1 ELSE After(Opened(t).pos))
    /\ UNCHANGED <<setup, mem, lost, alive>>

\* shadow_zip->fread (module ShadowReader).
ReadShadow(t) ==
    /\ alive /\ At(t, "found") /\ th[t].op = "read" /\ Mapped(t)
    /\ Returns(t, "read", "shadow", mem[th[t].self])
    /\ mem' = [mem EXCEPT ![th[t].self] = After(@)]
    /\ UNCHANGED <<setup, fd_table, lost, alive>>

SeekReal(t) ==
    /\ alive /\ At(t, "found") /\ th[t].op = "seek" /\ ~Mapped(t)
    /\ Returns(t, "seek", What(th[t].fd), th[t].to)
    /\ SetPos(t, IF KindOf(th[t].fd) \in Kinds /\ th[t].to > 0 THEN 1 ELSE th[t].to)
    /\ UNCHANGED <<setup, mem, lost, alive>>

\* Mutant: the position of the descriptor is set, too.
SeekBoth(t) ==
    /\ alive /\ At(t, "found") /\ th[t].op = "seek" /\ Mapped(t)
    /\ Returns(t, "seek", "shadow", th[t].to)
    /\ mem' = [mem EXCEPT ![th[t].self] = th[t].to]
    /\ SetPos(t, IF th[t].to > 0 THEN 1 ELSE 0)
    /\ UNCHANGED <<setup, lost, alive>>

SeekShadow(t) ==
    /\ alive /\ At(t, "found") /\ th[t].op = "seek" /\ Mapped(t)
    /\ Returns(t, "seek", "shadow", th[t].to)
    /\ mem' = [mem EXCEPT ![th[t].self] = th[t].to]
    /\ UNCHANGED <<setup, fd_table, lost, alive>>

CloseFd(fd) == fd_table' = [fd_table EXCEPT ![fd] = None]

\* The handle of a mapping, if it was lost, stays where it is.
CloseReal(t) ==
    /\ alive /\ At(t, "found") /\ th[t].op = "close" /\ ~Mapped(t)
    /\ CloseFd(th[t].fd)
    /\ Returns(t, "close", What(th[t].fd), 0)
    /\ UNCHANGED <<setup, mem, lost, alive>>

\* Mutant: the file stays in the directory.
CleanMappingKeep(t) ==
    /\ alive /\ At(t, "found") /\ th[t].op = "close" /\ Mapped(t)
    /\ Goto(t, "fclose")
    /\ UNCHANGED <<setup, fd_table, mem, lost, reply, alive>>

\* clean_mapping_data (245-258): the flag is read again; the file is removed
\* from the directory, ...
CleanMapping(t) ==
    /\ alive /\ At(t, "found") /\ th[t].op = "close" /\ Mapped(t)
    /\ Goto(t, "fclose")
    /\ fds_dir' = IF use_shared_mem \/ fds_dir = None THEN fds_dir
                  ELSE fds_dir \ {th[t].self}
    /\ UNCHANGED <<ashmem, use_shared_mem, init_pc, hooked, fd_table, mem, lost, reply,
                   alive>>

\* ... its descriptor closed, whose number another thread may get at once, ...
CleanClose(t) ==
    /\ alive /\ At(t, "fclose")
    /\ CloseFd(th[t].fd)
    /\ reply' = [op |-> "close", what |-> "shadow", pos |-> 0]
    /\ Step(t, [th[t] EXCEPT !.pc = "delete", !.fd = None])
    /\ UNCHANGED <<setup, mem, lost, alive>>

\* ... and the handle and the FileExtraData deleted.
CleanDelete(t) ==
    /\ alive /\ At(t, "delete")
    /\ mem' = [mem EXCEPT ![th[t].self] = None]
    /\ lost' = lost \ {th[t].self}
    /\ Step(t, NoCall)
    /\ UNCHANGED <<setup, fd_table, reply, alive>>

Exited == ~alive /\ UNCHANGED vars

Lookup(t) ==
    LookupMem(t) \/ LookupFile(t) \/ LookupPos(t) \/ LookupRead(t) \/ LookupRewind(t)
Serve(t) ==
    \/ ReadReal(t) \/ ReadShadow(t) \/ SeekReal(t) \/ SeekShadow(t)
    \/ CloseReal(t) \/ CleanMapping(t) \/ CleanClose(t) \/ CleanDelete(t)
Next ==
    \/ Bootstrap \/ Exited
    \/ \E t \in Threads :
          \/ OpenReal(t) \/ OpenApk(t) \/ SaveMem(t) \/ SaveFile(t) \/ SaveFails(t)
          \/ Begin(t) \/ Lookup(t) \/ Serve(t)

Spec == Init /\ [][Next]_vars

-----------------------------------------------------------------------------
(***************************************************************************)
(* Properties.                                                             *)
(***************************************************************************)
TypeOK ==
    /\ ashmem \in BOOLEAN /\ use_shared_mem \in BOOLEAN /\ alive \in BOOLEAN
    /\ hooked \subseteq Ops
    /\ fds_dir = None \/ fds_dir \subseteq Addrs \cup {"stale"}
    /\ init_pc \in {"ashmem", "dir", "unlink", "done"}
    /\ fd_table \in [Fds -> Description \cup {None}]
    /\ mem \in [Addrs -> 0..Length \cup {None}] /\ lost \subseteq Addrs
    /\ th \in [Threads -> Call]

\* A call that has done its lookup has the handle that its descriptor was opened
\* with, not yet deleted, or none if the descriptor is of a real file: whatever
\* other threads open and close, and whatever number and address is used again.
\* The handle behind a descriptor is missed only if a system call of its own save
\* or of a lookup of its own has failed.
LookupsFindHandle ==
    \A t \in Threads :
        At(t, "found") =>
            /\ Mapped(t) => /\ Opened(t).kind \in Kinds /\ Opened(t).self = th[t].self
                            /\ mem[th[t].self] # None
            /\ Opened(t).kind \in Kinds /\ ~Mapped(t) => Opened(t).self \in lost

\* What opens of the apk leave behind: a FileExtraData belongs to an open
\* descriptor or to a call that is opening or closing one, no two descriptors
\* share one, and the directory has no file but theirs.  Only handles that a
\* failing system call has lost may outlive their descriptor.
NothingLeft ==
    LET mapped == {fd \in Fds : fd_table[fd] # None /\ fd_table[fd].kind \in Kinds}
        calls == {t \in Threads : th[t].pc \in {"save", "delete"}}
        live == {x \in Addrs : mem[x] # None}
        used == {fd_table[fd].self : fd \in mapped} \cup {th[t].self : t \in calls}
    IN  /\ used \subseteq live /\ live \ used \subseteq lost
        /\ \A fd, gd \in mapped : fd_table[fd].self = fd_table[gd].self => fd = gd
        /\ fds_dir # None =>
              fds_dir \subseteq {"stale"} \cup lost \cup {fd_table[fd].self : fd \in mapped}

\* Readme.md:23 of the apk opened through the hook: reads are mapped to the
\* patch files or the old apk, and never reach the descriptor itself, whose bytes
\* are a FileExtraData, where no system call has failed.
ApkReadsMapped ==
    \A t \in Threads :
        /\ At(t, "found") /\ th[t].op = "read"
        /\ KindOf(th[t].fd) \in Kinds /\ Opened(t).self \notin lost
        => Mapped(t)

\* A descriptor as the engine has it; a lookup that moves a real file puts it
\* back before it lets anyone see.
Visible(fd) ==
    LET file == fd_table[fd] IN
    CASE file = None -> None
      [] file # None /\ file.kind \in Kinds ->
             IF file.self \in lost THEN [what |-> "lost", pos |-> 0]
                                   ELSE [what |-> "shadow", pos |-> mem[file.self]]
      [] OTHER -> [what |-> file.kind,
                   pos |-> IF \E t \in Threads : At(t, "rewind") /\ th[t].fd = fd
                           THEN 0 ELSE file.pos]

ASSUME NoFileAssumption ==
    None \notin [what : {"shadow", "apk", "other", "lost"}, pos : 0..Length]
Plain == INSTANCE PlainFiles WITH table <- [fd \in Fds |-> Visible(fd)]

\* Threads that use descriptors as MayCall has it see files with a position
\* each: the hooks, with all their system calls between, implement PlainFiles, and
\* a system call that fails harms no descriptor but the one it is about.
HooksAreFiles == Plain!Spec
=============================================================================
