-------------------------------- MODULE XhCore --------------------------------
(***************************************************************************)
(* The core of xhook (src/xhook/xh_core.c): what is to be hooked, and the  *)
(* refreshes that go through the ELFs the process has mapped and hook      *)
(* those that are new or have moved.  Threads of the program call          *)
(* register, ignore, refresh and clear; asynchronous refreshes are made by *)
(* a thread of the library.                                                *)
(*                                                                         *)
(* A step is a critical section or an access to shared state outside of    *)
(* one: of a line of /proc/self/maps, to read it, to look its path up in   *)
(* the lists, to check the header, to read the ELF, to judge a hook and to *)
(* write its slots.  (The lists grow at their ends only, so to go through  *)
(* one is a single access.)                                                *)
(***************************************************************************)
EXTENDS Integers, Sequences, FiniteSets

CONSTANTS
    Callers,     \* threads of the program
    Clearer,     \* the one that calls clear
    Refreshers,  \* threads that pthread_create may return
    None,
    Paths,       \* paths of ELFs
    Symbols, All, \* All is the NULL symbol of xh_core_ignore
    Hooks,       \* registrations: the paths its regex matches, and a symbol
    Ignores,     \* the same for ignore
    MaxBase,     \* addresses of mappings are 1..MaxBase
    Settings     \* what is done in a run, see Setting

ASSUME ThreadsAssumption == Callers \cap Refreshers = {} /\ None \notin Callers \cup Refreshers
ASSUME ClearerAssumption == Clearer \in Callers
ASSUME SymbolsAssumption == All \notin Symbols
ASSUME HooksAssumption == Hooks \subseteq [paths : SUBSET Paths, symbol : Symbols]
ASSUME IgnoresAssumption == Ignores \subseteq [paths : SUBSET Paths, symbol : Symbols \cup {All}]
ASSUME MaxBaseAssumption == MaxBase \in Nat

Bases == 1..MaxBase
Mapping == [path : Paths, elf : BOOLEAN, again : BOOLEAN]

\* A setting says what has been registered when the run begins and what may be
\* yet, what is mapped, how many calls each thread makes and how many mappings
\* the loader does (bounds), whether clear may run while another call does, and
\* whether fopen, malloc, pthread_create and xh_elf_init may fail.
Setting ==
    [hooks : Seq(Hooks), ignores : Seq(Ignores),
     register : SUBSET Hooks, ignore : SUBSET Ignores,
     maps : [Bases -> Mapping \cup {None}],
     calls : [Callers -> Nat], loads : Nat, overlap : BOOLEAN, fails : BOOLEAN]

ASSUME NoneAssumption == None \notin Mapping \cup Symbols \cup {All}
ASSUME SettingsAssumption == Settings \subseteq Setting

VARIABLES
    pc,          \* where each thread is
    arg,         \* the record a register or ignore is about to insert
    mutex,       \* who holds xh_core_mutex
    refresh_mutex, \* who holds xh_core_refresh_mutex
    flag,        \* the volatile ints
    tid,         \* xh_core_refresh_thread_tid
    hook_info, ignore_info,  \* the lists
    map_info,    \* the tree: base address of each path, 0 if it has none
    scan,        \* locals of xh_core_refresh_impl
    maps,        \* /proc/self/maps: what is mapped at each address
    had,         \* pairs of a path and an address it was mapped at
    hooked,      \* address and symbol of the slots that were replaced
    alive,       \* FALSE after a fault
    late,        \* a list grew when ELFs had been recorded already
    calls, loads, \* how many were made
    setting

locks == <<mutex, refresh_mutex>>
lists == <<hook_info, ignore_info, late>>
loader == <<maps, had, loads>>
vars == <<pc, arg, locks, flag, tid, lists, map_info, scan, loader, hooked, alive, calls, setting>>

Threads == Callers \cup Refreshers
NoTree == [p \in Paths |-> 0]
\* The address and the line it has read, the new tree, the path of the ELF that
\* xh_elf_init has read and the hook that xh_core_hook_impl has reached; ignores is
\* history: how many there were when the line was read.
NoScan == [at |-> 0, line |-> None, fresh |-> NoTree, elf |-> None, hook |-> 0,
           ignores |-> 0]
Flags == {"inited", "init_ok", "async_inited", "async_init_ok", "running", "do"}

Init ==
    /\ pc = [t \in Threads |-> IF t \in Callers THEN "idle" ELSE "none"]
    /\ arg = [t \in Callers |-> None]
    /\ mutex = None /\ refresh_mutex = None
    /\ flag = [f \in Flags |-> FALSE] /\ tid = None
    /\ setting \in Settings
    /\ hook_info = setting.hooks /\ ignore_info = setting.ignores
    /\ map_info = NoTree /\ scan = NoScan
    /\ maps = setting.maps /\ loads = 0
    /\ had = {<<setting.maps[b].path, b>> : b \in {c \in Bases : setting.maps[c] # None}}
    /\ hooked = {} /\ alive = TRUE /\ late = FALSE
    /\ calls = [t \in Callers |-> 0]

-----------------------------------------------------------------------------
(***************************************************************************)
(* The threads and the locks.                                              *)
(***************************************************************************)
At(t, step) == alive /\ pc[t] = step
Goto(t, step) == pc' = [pc EXCEPT ![t] = step]

Set(f) == flag' = [flag EXCEPT ![f] = TRUE]
Reset(f) == flag' = [flag EXCEPT ![f] = FALSE]

\* pthread_mutex_lock on xh_core_mutex, held over several steps or within one.
Lock(t) == mutex = None /\ mutex' = t /\ UNCHANGED refresh_mutex
Unlock == mutex' = None /\ UNCHANGED refresh_mutex
InMutex == mutex = None /\ UNCHANGED locks

ClearSteps == {"clear", "stop", "join", "uninit", "uninit_ok", "uninited", "clear_lock",
               "clear_lists"}
Clearing == pc[Clearer] \in ClearSteps

\* A thread makes its next call; unless calls overlap, clear is alone.
Call(t) ==
    /\ At(t, "idle") /\ calls[t] < setting.calls[t]
    /\ setting.overlap \/ ~Clearing
    /\ calls' = [calls EXCEPT ![t] = @ + 1]

-----------------------------------------------------------------------------
(***************************************************************************)
(* xh_core_register and xh_core_ignore (142-226): the flag is read before  *)
(* the mutex is taken.                                                     *)
(***************************************************************************)
Register(t) ==
    /\ Call(t) /\ ~flag["inited"]
    /\ \E h \in setting.register : arg' = [arg EXCEPT ![t] = h]
    /\ Goto(t, "reg_insert")
    /\ UNCHANGED <<locks, flag, tid, lists, map_info, scan, loader, hooked, alive, setting>>

Recorded == refresh_mutex # None \/ map_info # NoTree

RegisterInsert(t) ==
    /\ At(t, "reg_insert") /\ InMutex
    /\ hook_info' = Append(hook_info, arg[t]) /\ late' = (late \/ Recorded)
    /\ arg' = [arg EXCEPT ![t] = None]
    /\ Goto(t, "idle")
    /\ UNCHANGED <<ignore_info, flag, tid, map_info, scan, loader, hooked, alive, calls, setting>>

Ignore(t) ==
    /\ Call(t) /\ ~flag["inited"]
    /\ \E i \in setting.ignore : arg' = [arg EXCEPT ![t] = i]
    /\ Goto(t, "ign_insert")
    /\ UNCHANGED <<locks, flag, tid, lists, map_info, scan, loader, hooked, alive, setting>>

IgnoreInsert(t) ==
    /\ At(t, "ign_insert") /\ InMutex
    /\ ignore_info' = Append(ignore_info, arg[t]) /\ late' = (late \/ Recorded)
    /\ arg' = [arg EXCEPT ![t] = None]
    /\ Goto(t, "idle")
    /\ UNCHANGED <<hook_info, flag, tid, map_info, scan, loader, hooked, alive, calls, setting>>

-----------------------------------------------------------------------------
(***************************************************************************)
(* xh_core_refresh (562-589) with xh_core_init_once (504-535) and          *)
(* xh_core_init_async_once (537-560).                                      *)
(***************************************************************************)
Rest == <<arg, lists, map_info, scan, loader, hooked, alive, setting>>

\* The two kinds of a refresh part after the first initialisation.
Refresh(t) ==
    /\ Call(t)
    /\ Goto(t, "init")
    /\ UNCHANGED <<locks, flag, tid, Rest>>

InitOnce(t) ==
    /\ At(t, "init")
    /\ \/ flag["inited"] /\ Goto(t, "init_check") /\ UNCHANGED locks
       \/ ~flag["inited"] /\ Lock(t) /\ Goto(t, "init_locked")
    /\ UNCHANGED <<flag, tid, calls, Rest>>

InitLocked(t) ==
    /\ At(t, "init_locked")
    /\ IF flag["inited"]
       THEN Unlock /\ Goto(t, "init_check") /\ UNCHANGED flag
       ELSE Set("inited") /\ Goto(t, "init_set") /\ UNCHANGED locks
    /\ UNCHANGED <<tid, calls, Rest>>

InitSet(t) ==
    /\ At(t, "init_set")
    /\ Set("init_ok") /\ Unlock /\ Goto(t, "init_check")
    /\ UNCHANGED <<tid, calls, Rest>>

\* Line 566: a caller that comes between InitLocked and InitSet gets an error.
InitCheck(t) ==
    /\ At(t, "init_check")
    /\ IF flag["init_ok"] THEN Goto(t, "async") \/ Goto(t, "sync") ELSE Goto(t, "idle")
    /\ UNCHANGED <<locks, flag, tid, calls, Rest>>

InitAsyncOnce(t) ==
    /\ At(t, "async")
    /\ \/ flag["async_inited"] /\ Goto(t, "async_check") /\ UNCHANGED locks
       \/ ~flag["async_inited"] /\ Lock(t) /\ Goto(t, "async_locked")
    /\ UNCHANGED <<flag, tid, calls, Rest>>

\* pthread_create: a new thread, or none.
InitAsyncLocked(t) ==
    /\ At(t, "async_locked")
    /\ \/ /\ flag["async_inited"]
          /\ Unlock /\ Goto(t, "async_check") /\ UNCHANGED <<flag, tid>>
       \/ /\ ~flag["async_inited"]
          /\ \E r \in Refreshers :
                /\ pc[r] = "none"
                /\ pc' = [pc EXCEPT ![t] = "async_set", ![r] = "while"] /\ tid' = r
          /\ flag' = [flag EXCEPT !["async_inited"] = TRUE, !["running"] = TRUE]
          /\ UNCHANGED locks
       \/ /\ ~flag["async_inited"]
          /\ setting.fails \/ \A r \in Refreshers : pc[r] # "none"
          /\ flag' = [flag EXCEPT !["async_inited"] = TRUE, !["running"] = FALSE]
          /\ Unlock /\ Goto(t, "async_check") /\ UNCHANGED tid
    /\ UNCHANGED <<calls, Rest>>

InitAsyncSet(t) ==
    /\ At(t, "async_set")
    /\ Set("async_init_ok") /\ Unlock /\ Goto(t, "async_check")
    /\ UNCHANGED <<tid, calls, Rest>>

InitAsyncCheck(t) ==
    /\ At(t, "async_check")
    /\ Goto(t, IF flag["async_init_ok"] THEN "request" ELSE "idle")
    /\ UNCHANGED <<locks, flag, tid, calls, Rest>>

\* pthread_cond_signal wakes one of the threads that wait, if any does.
Waiting == {r \in Refreshers : pc[r] = "wait"}
Signal(t, step) ==
    IF Waiting = {} THEN Goto(t, step)
    ELSE \E r \in Waiting : pc' = [pc EXCEPT ![t] = step, ![r] = "lock"]

\* Lines 575-578.
Request(t) ==
    /\ At(t, "request") /\ InMutex
    /\ Set("do") /\ Signal(t, "idle")
    /\ UNCHANGED <<tid, calls, Rest>>

-----------------------------------------------------------------------------
(***************************************************************************)
(* xh_core_refresh_thread_func (473-502).                                  *)
(***************************************************************************)
While(r) ==
    /\ At(r, "while")
    /\ Goto(r, IF flag["running"] THEN "lock" ELSE "done")
    /\ UNCHANGED <<locks, flag, tid, calls, Rest>>

\* Mutant: the mutex is not unlocked once the task has been taken.
TakeTaskLocked(r) ==
    /\ At(r, "lock") /\ mutex = None
    /\ \/ ~flag["running"] /\ Goto(r, "done") /\ UNCHANGED <<locks, flag>>
       \/ flag["running"] /\ ~flag["do"] /\ Goto(r, "wait") /\ UNCHANGED <<locks, flag>>
       \/ flag["running"] /\ flag["do"] /\ Reset("do") /\ Goto(r, "sync") /\ Lock(r)
    /\ UNCHANGED <<tid, calls, Rest>>

\* Under the mutex: stop, wait, or take the task.
TakeTask(r) ==
    /\ At(r, "lock") /\ InMutex
    /\ \/ ~flag["running"] /\ Goto(r, "done") /\ UNCHANGED flag
       \/ flag["running"] /\ ~flag["do"] /\ Goto(r, "wait") /\ UNCHANGED flag
       \/ flag["running"] /\ flag["do"] /\ Reset("do") /\ Goto(r, "sync")
    /\ UNCHANGED <<tid, calls, Rest>>

\* POSIX allows pthread_cond_wait to return without a signal.
SpuriousWake(r) ==
    /\ At(r, "wait")
    /\ Goto(r, "lock")
    /\ UNCHANGED <<locks, flag, tid, calls, Rest>>

-----------------------------------------------------------------------------
(***************************************************************************)
(* xh_core_refresh_impl (312-471) and xh_core_hook_impl (254-287), under   *)
(* the refresh mutex, in a caller or in a thread of the library.           *)
(***************************************************************************)
Concerns(entry, path) == path \in entry.paths
FirstOr(S, default) == IF S = {} THEN default ELSE CHOOSE n \in S : \A m \in S : n <= m

\* The first ignore entry for this path and hook: its symbol, or None.
Verdict(h, path) ==
    LET hits == {n \in DOMAIN ignore_info :
                    /\ Concerns(ignore_info[n], path)
                    /\ ignore_info[n].symbol \in {All, h.symbol}}
    IN  IF hits = {} THEN None ELSE ignore_info[FirstOr(hits, 0)].symbol

Matching(path) == {n \in DOMAIN hook_info : Concerns(hook_info[n], path)}

\* Lines 367-390: the first hook for the path decides for all of them.
IsWanted(path) ==
    /\ Matching(path) # {}
    /\ Verdict(hook_info[FirstOr(Matching(path), 0)], path) = None

\* fopen("/proc/self/maps"): the refresh begins, or is over.
BeginScan(t) ==
    /\ At(t, "sync") /\ refresh_mutex = None
    /\ refresh_mutex' = t
    /\ Goto(t, "scan") \/ (setting.fails /\ Goto(t, "scanned"))
    /\ scan' = NoScan
    /\ UNCHANGED <<mutex, flag, tid, calls, arg, lists, map_info, loader, hooked, alive, setting>>

\* fgets: the kernel goes on behind the address of the last line it gave.
Above == {b \in Bases : b > scan.at /\ maps[b] # None}

ReadLine(t) ==
    /\ At(t, "scan") /\ Above # {}
    /\ LET b == FirstOr(Above, 0)
       IN  scan' = [scan EXCEPT !.at = b, !.line = maps[b], !.ignores = Len(ignore_info)]
    /\ Goto(t, "line")
    /\ UNCHANGED <<locks, flag, tid, calls, arg, lists, map_info, loader, hooked, alive, setting>>

\* On with the work on the line, or to the next one.
Work(t, step, next) == Goto(t, step) /\ scan' = next
LineDone(t, fresh) == Work(t, "scan", [NoScan EXCEPT !.at = scan.at, !.fresh = fresh])

ScanRest == <<locks, flag, tid, calls, arg, lists, loader, setting>>

\* Lines 337-390: a line that is not readable, not private, not of the beginning of
\* the file or without a path is dropped, and one whose path is not matched or is
\* ignored.
CheckPath(t) ==
    /\ At(t, "line")
    /\ \/ ~(scan.line.elf /\ IsWanted(scan.line.path)) /\ LineDone(t, scan.fresh)
       \/ IsWanted(scan.line.path) /\ Work(t, "header", scan)
    /\ UNCHANGED <<ScanRest, map_info, hooked, alive>>

\* The memory of the line may be of something else by now, or of nothing.
Mapped == maps[scan.at] # None
MappedElf == Mapped /\ maps[scan.at].elf
Stale == ~ (MappedElf /\ maps[scan.at].path = scan.elf)

\* No handler catches the signal, xh_core_sigsegv_handler is commented out.
Fault(t) ==
    /\ \/ (At(t, "header") \/ At(t, "elf")) /\ ~Mapped
       \/ At(t, "write") /\ Stale
    /\ alive' = FALSE
    /\ UNCHANGED <<pc, ScanRest, map_info, scan, hooked>>

\* Line 394: no ELF header where the line says.
NotElf(t) ==
    /\ At(t, "header") /\ Mapped /\ ~MappedElf
    /\ LineDone(t, scan.fresh)
    /\ UNCHANGED <<ScanRest, map_info, hooked, alive>>

\* Mutant: an ELF that has a record is not hooked again.
KnownElfKept(t) ==
    /\ At(t, "header") /\ MappedElf /\ map_info[scan.line.path] # 0
    /\ map_info' = [map_info EXCEPT ![scan.line.path] = 0]
    /\ LineDone(t, [scan.fresh EXCEPT ![scan.line.path] = scan.at])
    /\ UNCHANGED <<ScanRest, hooked, alive>>

\* Lines 398-419: its record moves to the new tree, and it is hooked again if
\* its address is another.
KnownElf(t) ==
    /\ At(t, "header") /\ MappedElf /\ map_info[scan.line.path] # 0
    /\ map_info' = [map_info EXCEPT ![scan.line.path] = 0]
    /\ LET fresh == [scan.fresh EXCEPT ![scan.line.path] = scan.at]
       IN  IF map_info[scan.line.path] = scan.at THEN LineDone(t, fresh)
           ELSE Work(t, "elf", [scan EXCEPT !.fresh = fresh])
    /\ UNCHANGED <<ScanRest, hooked, alive>>

\* Lines 424-446: a second line of a path is dropped, "we only keep the first
\* one"; malloc may fail.
NewElf(t) ==
    /\ At(t, "header") /\ MappedElf /\ map_info[scan.line.path] = 0
    /\ LET repeated == scan.fresh[scan.line.path] # 0
       IN  \/ (repeated \/ setting.fails) /\ LineDone(t, scan.fresh)
           \/ ~repeated /\ Work(t, "elf", [scan EXCEPT !.fresh[scan.line.path] = scan.at])
    /\ UNCHANGED <<ScanRest, map_info, hooked, alive>>

\* Line 257: xh_elf_init reads what is mapped at the address, or refuses it.
InitElf(t) ==
    /\ At(t, "elf") /\ Mapped
    /\ \/ (~MappedElf \/ setting.fails) /\ LineDone(t, scan.fresh)
       \/ MappedElf /\ Work(t, "hook", [scan EXCEPT !.elf = maps[scan.at].path])
    /\ UNCHANGED <<ScanRest, map_info, hooked, alive>>

\* Mutant: it is left to the first check to see what is ignored.
NextHookAll(t) ==
    /\ At(t, "hook")
    /\ LET next == {n \in Matching(scan.line.path) : n > scan.hook}
           n == FirstOr(next, 0)
       IN  IF next = {} THEN LineDone(t, scan.fresh)
           ELSE Work(t, "write", [scan EXCEPT !.hook = n])
    /\ UNCHANGED <<ScanRest, map_info, hooked, alive>>

\* Lines 263-282: the next hook for the path.  xh_core_hook_impl returns at one that
\* an entry for all symbols forbids, and goes past one that is forbidden alone.
NextHook(t) ==
    /\ At(t, "hook")
    /\ LET next == {n \in Matching(scan.line.path) : n > scan.hook}
           n == FirstOr(next, 0)
           verdict == Verdict(hook_info[n], scan.line.path)
       IN  IF next = {} \/ verdict = All THEN LineDone(t, scan.fresh)
           ELSE Work(t, IF verdict = None THEN "write" ELSE "hook", [scan EXCEPT !.hook = n])
    /\ UNCHANGED <<ScanRest, map_info, hooked, alive>>

\* Line 284: xh_elf_hook writes the slots of the symbol, if it does not fail.  With
\* the tables of another ELF than is mapped, it writes those of any or none.
WriteSlots(t) ==
    /\ At(t, "write") /\ Mapped
    /\ \/ Stale /\ \E s \in Symbols : hooked' = hooked \cup {<<scan.at, s>>}
       \/ ~Stale /\ hooked' = hooked \cup {<<scan.at, hook_info[scan.hook].symbol>>}
       \/ (Stale \/ setting.fails) /\ UNCHANGED hooked
    /\ Work(t, "hook", scan)
    /\ UNCHANGED <<ScanRest, map_info, alive>>

\* Lines 451-463: what was not met again is freed, the new tree is kept.
EndScan(t) ==
    /\ At(t, "scan") /\ Above = {}
    /\ map_info' = scan.fresh /\ scan' = NoScan
    /\ Goto(t, "scanned")
    /\ UNCHANGED <<locks, flag, tid, calls, arg, lists, loader, hooked, alive, setting>>

\* Mutant: the task is marked done when it is.
ScannedLate(t) ==
    /\ At(t, "scanned")
    /\ refresh_mutex' = None
    /\ Reset("do")
    /\ Goto(t, IF t \in Callers THEN "idle" ELSE "while")
    /\ UNCHANGED <<mutex, tid, calls, Rest>>

Scanned(t) ==
    /\ At(t, "scanned")
    /\ refresh_mutex' = None
    /\ Goto(t, IF t \in Callers THEN "idle" ELSE "while")
    /\ UNCHANGED <<mutex, flag, tid, calls, Rest>>

-----------------------------------------------------------------------------
(***************************************************************************)
(* xh_core_clear (591-654).                                                *)
(***************************************************************************)
Clear(t) ==
    /\ t = Clearer /\ Call(t)
    /\ setting.overlap \/ \A u \in Callers : pc[u] = "idle"
    /\ Goto(t, "clear")
    /\ UNCHANGED <<locks, flag, tid, Rest>>

\* Line 594 reads the flag without the mutex.
ClearBegin(t) ==
    /\ At(t, "clear")
    /\ Goto(t, IF flag["async_init_ok"] THEN "stop" ELSE "uninit")
    /\ UNCHANGED <<locks, flag, tid, calls, Rest>>

\* Mutant: the thread is not woken.
ClearStopSilent(t) ==
    /\ At(t, "stop") /\ InMutex
    /\ Reset("running") /\ Goto(t, "join")
    /\ UNCHANGED <<tid, calls, Rest>>

ClearStop(t) ==
    /\ At(t, "stop") /\ InMutex
    /\ Reset("running") /\ Signal(t, "join")
    /\ UNCHANGED <<tid, calls, Rest>>

\* Mutant: the thread is told to stop and not waited for.
ClearNoJoin(t) ==
    /\ At(t, "join")
    /\ Goto(t, "uninit") /\ Reset("async_init_ok")
    /\ UNCHANGED <<locks, tid, calls, Rest>>

\* pthread_join
ClearJoin(t) ==
    /\ At(t, "join") /\ pc[tid] = "done"
    /\ pc' = [pc EXCEPT ![t] = "uninit", ![tid] = "none"]
    /\ Reset("async_init_ok")
    /\ UNCHANGED <<locks, tid, calls, Rest>>

ClearFlag(t, step, f, next) ==
    /\ At(t, step)
    /\ Reset(f) /\ Goto(t, next)
    /\ UNCHANGED <<locks, tid, calls, Rest>>

ClearFlags(t) ==
    \/ ClearFlag(t, "uninit", "async_inited", "uninit_ok")
    \/ ClearFlag(t, "uninit_ok", "init_ok", "uninited")
    \/ ClearFlag(t, "uninited", "inited", "clear_lock")

ClearLock(t) ==
    /\ At(t, "clear_lock")
    /\ Lock(t) /\ Goto(t, "clear_lists")
    /\ UNCHANGED <<flag, tid, calls, Rest>>

Emptied ==
    /\ map_info' = NoTree /\ hook_info' = <<>> /\ ignore_info' = <<>> /\ late' = FALSE

\* Mutant: the lists are freed under xh_core_mutex alone.
ClearListsOneLock(t) ==
    /\ At(t, "clear_lists")
    /\ Emptied /\ Unlock /\ Goto(t, "idle")
    /\ UNCHANGED <<flag, tid, calls, arg, scan, loader, hooked, alive, setting>>

\* Lines 617-653, under both mutexes.
ClearLists(t) ==
    /\ At(t, "clear_lists") /\ refresh_mutex = None
    /\ Emptied /\ Unlock /\ Goto(t, "idle")
    /\ UNCHANGED <<flag, tid, calls, arg, scan, loader, hooked, alive, setting>>

-----------------------------------------------------------------------------
(***************************************************************************)
(* The dynamic loader, at any time.  An ELF that is mapped anew has its    *)
(* slots as the file has them.                                             *)
(***************************************************************************)
Fresh(b) == hooked' = {s \in hooked : s[1] # b}
Outside == <<pc, arg, locks, flag, tid, lists, map_info, scan, alive, calls, setting>>

Load(b) ==
    /\ alive /\ maps[b] = None /\ loads < setting.loads
    /\ \E p \in Paths, elf \in BOOLEAN :
          /\ maps' = [maps EXCEPT ![b] = [path |-> p, elf |-> elf, again |-> <<p, b>> \in had]]
          /\ had' = had \cup {<<p, b>>}
    /\ loads' = loads + 1
    /\ Fresh(b)
    /\ UNCHANGED Outside

Unload(b) ==
    /\ alive /\ maps[b] # None
    /\ maps' = [maps EXCEPT ![b] = None]
    /\ Fresh(b)
    /\ UNCHANGED <<had, loads, Outside>>

CallStep(t) ==
    \/ RegisterInsert(t) \/ IgnoreInsert(t)
    \/ InitOnce(t) \/ InitLocked(t) \/ InitSet(t) \/ InitCheck(t)
    \/ InitAsyncOnce(t) \/ InitAsyncLocked(t) \/ InitAsyncSet(t) \/ InitAsyncCheck(t)
    \/ Request(t)
    \/ ClearBegin(t) \/ ClearStop(t) \/ ClearJoin(t) \/ ClearFlags(t) \/ ClearLock(t)
    \/ ClearLists(t)
ScanStep(t) ==
    \/ BeginScan(t) \/ ReadLine(t) \/ CheckPath(t) \/ Fault(t) \/ NotElf(t)
    \/ KnownElf(t) \/ NewElf(t) \/ InitElf(t) \/ NextHook(t) \/ WriteSlots(t)
    \/ EndScan(t) \/ Scanned(t)
NewCall(t) == Register(t) \/ Ignore(t) \/ Refresh(t) \/ Clear(t)

Next ==
    \/ \E t \in Callers : NewCall(t) \/ CallStep(t) \/ ScanStep(t)
    \/ \E r \in Refreshers : While(r) \/ TakeTask(r) \/ SpuriousWake(r) \/ ScanStep(r)
    \/ \E b \in Bases : Load(b) \/ Unload(b)

\* A thread that can go on does; a mutex is not kept from one for ever, since the
\* calls of the others are bounded.
Spec ==
    /\ Init /\ [][Next]_vars
    /\ \A t \in Callers : WF_vars(CallStep(t) \/ ScanStep(t))
    /\ \A r \in Refreshers : WF_vars(While(r) \/ TakeTask(r) \/ ScanStep(r))

-----------------------------------------------------------------------------
(***************************************************************************)
(* Properties.                                                             *)
(***************************************************************************)
CallerSteps == {"idle", "reg_insert", "ign_insert", "init", "init_locked", "init_set",
                "init_check", "async", "async_locked", "async_set", "async_check",
                "request"} \cup ClearSteps
ScanSteps == {"sync", "scan", "line", "header", "elf", "hook", "write", "scanned"}

TypeOK ==
    /\ \A t \in Callers : pc[t] \in CallerSteps \cup ScanSteps
    /\ \A r \in Refreshers : pc[r] \in {"none", "while", "lock", "wait", "done"} \cup ScanSteps
    /\ arg \in [Callers -> Hooks \cup Ignores \cup {None}]
    /\ mutex \in Callers \cup {None} /\ refresh_mutex \in Threads \cup {None}
    /\ flag \in [Flags -> BOOLEAN] /\ tid \in Refreshers \cup {None}
    /\ hook_info \in Seq(Hooks) /\ ignore_info \in Seq(Ignores)
    /\ map_info \in [Paths -> 0..MaxBase]
    /\ scan \in [at : 0..MaxBase, line : Mapping \cup {None}, fresh : [Paths -> 0..MaxBase],
                elf : Paths \cup {None}, hook : Nat, ignores : Nat]
    /\ maps \in [Bases -> Mapping \cup {None}]
    /\ had \subseteq Paths \X Bases /\ hooked \subseteq Bases \X Symbols
    /\ alive \in BOOLEAN /\ late \in BOOLEAN
    /\ calls \in [Callers -> Nat] /\ loads \in Nat /\ setting \in Settings

\* While a refresh goes through the lists nobody frees an element of them, nor
\* touches the tree it takes apart: clear waits for the refresh mutex too.
NothingFreedInScan ==
    [][\A t \in Threads : (pc[t] \in ScanSteps \ {"sync", "scanned"} /\ pc'[t] = pc[t]) =>
          /\ Len(hook_info') >= Len(hook_info) /\ Len(ignore_info') >= Len(ignore_info)
          /\ map_info' = map_info]_vars

\* What a symbol of an ELF is due, from the lists alone.
Untouched(path) == \A n \in DOMAIN ignore_info : ~Concerns(ignore_info[n], path)
Due(path, symbol) ==
    Untouched(path) /\ \E n \in Matching(path) : hook_info[n].symbol = symbol

\* What was ignored when the line was read.
IgnoredThen(path, symbol) ==
    \E n \in 1..scan.ignores :
        Concerns(ignore_info[n], path) /\ ignore_info[n].symbol \in {All, symbol}

\* Between refreshes every ELF that has a record is hooked as the lists say, at
\* the address it is mapped at now, however it has moved, and with every symbol
\* registered for it.
RecordedHooked ==
    (refresh_mutex = None /\ alive /\ ~late /\ ~setting.fails) =>
        \A p \in Paths, s \in Symbols :
            LET b == map_info[p]
            IN  (b # 0 /\ maps[b] = [path |-> p, elf |-> TRUE, again |-> FALSE] /\ Due(p, s))
                    => <<b, s>> \in hooked

\* No slot is written of a symbol that was ignored for the path before its line was
\* read, whichever hook of the path comes first and whatever is registered and
\* ignored meanwhile.  (An ignore that comes later may be too late for the line.  The
\* code goes by the path of the line also if another ELF is mapped there by then.)
IgnoredNotHooked ==
    [][\A b \in Bases, s \in Symbols :
          <<b, s>> \in hooked' \ hooked /\ ~Stale => ~IgnoredThen(scan.line.path, s)]_vars

\* Unless clear is called while another call runs, clear leaves no thread behind
\* that could refresh with the lists of the next registrations.
NoThreadAfterClear ==
    (alive /\ ~setting.overlap /\ pc[Clearer] \in {"uninit", "uninit_ok", "uninited",
                                                    "clear_lock", "clear_lists"}) =>
        \A r \in Refreshers : pc[r] = "none"

\* And it ends, wherever the thread is when it is called.
ClearEnds == ~setting.overlap => (Clearing ~> (pc[Clearer] = "idle" \/ ~alive))

\* The slot of s in the ELF at b is to be replaced: the first mapping of a path
\* that has hooks and is not ignored, not mapped there before.
ToHook(b, s) ==
    /\ maps[b] # None /\ maps[b].elf /\ ~maps[b].again
    /\ Due(maps[b].path, s)
    /\ \A c \in 1..(b - 1) :
          maps[c] = None \/ maps[c].path # maps[b].path
    /\ alive /\ ~late /\ ~setting.fails

\* A refresh that returned 0 after it asked the thread comes about: what is
\* mapped by then is hooked, also if the thread was in the middle of another
\* refresh, unless clear stops the thread.
RequestTakesEffect ==
    \A b \in Bases, s \in Symbols :
        (flag["do"] /\ flag["running"] /\ ToHook(b, s))
            ~> (<<b, s>> \in hooked \/ ~ToHook(b, s) \/ ~flag["running"])
=============================================================================
