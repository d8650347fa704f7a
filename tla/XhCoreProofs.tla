----------------------------- MODULE XhCoreProofs -----------------------------
(***************************************************************************)
(* Proofs about XhCore, for any threads, libraries, hooks and settings:    *)
(* its types, that a refresh has the lists and the tree to itself, that    *)
(* clear leaves no thread behind, and that nothing ignored is hooked.      *)
(***************************************************************************)
EXTENDS XhCore, WellFoundedInduction, TLAPS

\* A refresh is made under the refresh mutex, and the line it works on has been
\* read.
Steps == CallerSteps \cup ScanSteps \cup {"none", "while", "lock", "wait", "done"}
UnderRefreshMutex ==
    \A t \in Threads : pc[t] \in ScanSteps \ {"sync"} => refresh_mutex = t
LineSteps == {"line", "header", "elf", "hook", "write"}
LineRead ==
    \A t \in Threads : pc[t] \in LineSteps => scan.at \in Bases /\ scan.line \in Mapping
HookReached == \A t \in Threads : pc[t] = "write" => scan.hook \in DOMAIN hook_info

\* What is about to be inserted is of its list.
Pending ==
    \A t \in Callers : /\ pc[t] = "reg_insert" => arg[t] \in Hooks
                       /\ pc[t] = "ign_insert" => arg[t] \in Ignores

TypeInv ==
    /\ TypeOK /\ pc \in [Threads -> Steps]
    /\ UnderRefreshMutex /\ LineRead /\ HookReached /\ Pending

\* The locals of a refresh.
ScanRec ==
    [at : 0..MaxBase, line : Mapping \cup {None}, fresh : [Paths -> 0..MaxBase],
     elf : Paths \cup {None}, hook : Nat, ignores : Nat]

\* What a step that is not the loader's or of a scan leaves alone.
LEMMA RestKeeps ==
    ASSUME UNCHANGED Rest
    PROVE  /\ arg' = arg /\ hook_info' = hook_info /\ ignore_info' = ignore_info /\ late' = late
           /\ map_info' = map_info /\ scan' = scan /\ maps' = maps /\ had' = had /\ loads' = loads
           /\ hooked' = hooked /\ alive' = alive /\ setting' = setting
BY DEF Rest, lists, loader

-----------------------------------------------------------------------------
(***************************************************************************)
(* Types.                                                                  *)
(***************************************************************************)
LEMMA InitType == Init => TypeInv
<1> SUFFICES ASSUME Init PROVE TypeInv
  OBVIOUS
<1>1. setting \in Setting
  BY SettingsAssumption DEF Init
<1>2. had \subseteq Paths \X Bases
  BY <1>1 DEF Init, Setting, Mapping
<1>3. map_info \in [Paths -> 0..MaxBase] /\ scan.fresh \in [Paths -> 0..MaxBase]
  BY MaxBaseAssumption DEF Init, NoTree, NoScan
<1>4. scan \in ScanRec
  BY <1>3, MaxBaseAssumption DEF Init, NoScan, ScanRec
<1>5. pc \in [Threads -> Steps]
  BY DEF Init, Threads, Steps, CallerSteps
<1>6. \A t \in Callers : pc[t] = "idle"
  BY DEF Init, Threads
<1>7. \A r \in Refreshers : pc[r] = "none"
  BY ThreadsAssumption DEF Init, Threads
<1>8. TypeOK
  BY <1>1, <1>2, <1>3, <1>4, <1>6, <1>7 DEF TypeOK, Init, CallerSteps, Setting, Flags, ScanRec
<1> QED
  BY <1>5, <1>6, <1>7, <1>8
     DEF TypeInv, UnderRefreshMutex, LineRead, HookReached, Pending, ScanSteps, LineSteps, Threads

\* A step that moves one thread, and maybe another, to where they may be.
LEMMA GotoType ==
    ASSUME TypeInv, NEW t \in Threads, NEW step \in Steps, Goto(t, step)
    PROVE  /\ pc' \in [Threads -> Steps]
           /\ pc'[t] = step
           /\ \A u \in Threads \ {t} : pc'[u] = pc[u]
BY DEF TypeInv, Goto

LEMMA SignalType ==
    ASSUME TypeInv, NEW t \in Callers, NEW step \in Steps, Signal(t, step)
    PROVE  /\ pc' \in [Threads -> Steps]
           /\ pc'[t] = step
           /\ \A u \in Callers \ {t} : pc'[u] = pc[u]
           /\ \A r \in Refreshers : pc'[r] = pc[r] \/ (pc[r] = "wait" /\ pc'[r] = "lock")
<1>1. CASE Waiting = {}
  <2>1. t \in Threads /\ t \notin Refreshers /\ Goto(t, step)
    BY <1>1, ThreadsAssumption DEF Signal, Threads
  <2>2. step \in Steps
    OBVIOUS
  <2>3. pc' \in [Threads -> Steps] /\ pc'[t] = step /\ \A u \in Threads \ {t} : pc'[u] = pc[u]
    BY <2>1, <2>2, GotoType
  <2>4. \A u \in Callers \ {t} : pc'[u] = pc[u]
    BY <2>3 DEF Threads
  <2>5. \A r \in Refreshers : pc'[r] = pc[r]
    BY <2>1, <2>3 DEF Threads
  <2> QED
    BY <2>3, <2>4, <2>5
<1>2. CASE Waiting # {}
  <2>1. PICK r \in Waiting : pc' = [pc EXCEPT ![t] = step, ![r] = "lock"]
    BY <1>2 DEF Signal
  <2>2. r \in Refreshers /\ pc[r] = "wait" /\ t \notin Refreshers
    BY <2>1, ThreadsAssumption DEF Waiting
  <2>3. pc' \in [Threads -> Steps] /\ pc'[t] = step /\ pc'[r] = "lock"
    BY <2>1, <2>2 DEF TypeInv, Threads, Steps
  <2>4. \A u \in Threads \ {t, r} : pc'[u] = pc[u]
    BY <2>1 DEF TypeInv
  <2>5. \A u \in Callers \ {t} : pc'[u] = pc[u]
    BY <2>2, <2>4, ThreadsAssumption DEF Threads
  <2>6. \A u \in Refreshers \ {r} : pc'[u] = pc[u]
    BY <2>2, <2>4 DEF Threads
  <2> QED
    BY <2>2, <2>3, <2>5, <2>6
<1> QED
  BY <1>1, <1>2

\* The new step of a thread decides what is left of TypeInv, if the step keeps
\* to its own thread and does not touch the scan.
LEMMA CallerMoves ==
    ASSUME TypeInv, NEW t \in Callers, NEW step \in CallerSteps \cup {"sync"},
           pc' \in [Threads -> Steps], pc'[t] = step,
           \A u \in Callers \ {t} : pc'[u] = pc[u],
           \A r \in Refreshers : pc'[r] = pc[r] \/ pc'[r] \in {"none", "while", "lock"},
           UNCHANGED <<refresh_mutex, scan>>,
           refresh_mutex # None => DOMAIN hook_info \subseteq DOMAIN hook_info'
    PROVE  /\ \A u \in Callers : pc'[u] \in CallerSteps \cup ScanSteps
           /\ \A r \in Refreshers : pc'[r] \in {"none", "while", "lock", "wait", "done"} \cup ScanSteps
           /\ UnderRefreshMutex' /\ LineRead' /\ HookReached'
<1> USE DEF TypeInv, TypeOK
<1>1. \A u \in Callers : pc'[u] \in CallerSteps \cup ScanSteps
  BY DEF ScanSteps
<1>2. \A r \in Refreshers : pc'[r] \in {"none", "while", "lock", "wait", "done"} \cup ScanSteps
  OBVIOUS
<1>3. \A u \in Threads : pc'[u] \in ScanSteps \ {"sync"} => pc'[u] = pc[u]
  BY DEF Threads, CallerSteps, ClearSteps, ScanSteps
<1>4. UnderRefreshMutex'
  BY <1>3 DEF UnderRefreshMutex, ScanSteps
<1>5. LineRead'
  BY <1>3 DEF LineRead, LineSteps, ScanSteps
<1>6. HookReached'
  BY <1>3, ThreadsAssumption
     DEF HookReached, UnderRefreshMutex, ScanSteps, Threads
<1> QED
  BY <1>1, <1>2, <1>4, <1>5, <1>6

\* Where a caller's own step may take it.
CallerGoals == (CallerSteps \ {"reg_insert", "ign_insert"}) \cup {"sync"}
Moved(t) ==
    /\ pc' \in [Threads -> Steps] /\ pc'[t] \in CallerGoals
    /\ \A u \in Callers \ {t} : pc'[u] = pc[u]
    /\ \A r \in Refreshers : pc'[r] = pc[r] \/ pc'[r] \in {"none", "while", "lock"}

LEMMA GotoMoves ==
    ASSUME TypeInv, NEW t \in Callers, NEW step \in CallerGoals, Goto(t, step)
    PROVE  Moved(t) /\ pc'[t] = step
<1>1. t \in Threads /\ step \in Steps
  BY DEF Threads, CallerGoals, Steps, ScanSteps
<1>2. /\ pc' \in [Threads -> Steps] /\ pc'[t] = step
      /\ \A u \in Threads \ {t} : pc'[u] = pc[u]
  BY <1>1, GotoType
<1> QED
  BY <1>2, ThreadsAssumption DEF Moved, Threads

LEMMA SignalMoves ==
    ASSUME TypeInv, NEW t \in Callers, NEW step \in CallerGoals, Signal(t, step)
    PROVE  Moved(t) /\ pc'[t] = step
<1>1. step \in Steps
  BY DEF CallerGoals, Steps, ScanSteps
<1> QED
  BY <1>1, SignalType DEF Moved

\* A step of a caller that leaves the lists, the scan and the loader alone.
LEMMA CallerRest ==
    ASSUME TypeInv, NEW t \in Callers, Moved(t), UNCHANGED Rest,
           mutex' \in Callers \cup {None}, refresh_mutex' = refresh_mutex,
           flag' \in [Flags -> BOOLEAN], tid' \in Refreshers \cup {None},
           calls' \in [Callers -> Nat]
    PROVE  TypeInv'
<1>1. pc'[t] \in CallerGoals
  BY DEF Moved
<1>2. /\ \A u \in Callers : pc'[u] \in CallerSteps \cup ScanSteps
      /\ \A r \in Refreshers : pc'[r] \in {"none", "while", "lock", "wait", "done"} \cup ScanSteps
      /\ UnderRefreshMutex' /\ LineRead' /\ HookReached'
  BY <1>1, CallerMoves, RestKeeps DEF Moved, CallerGoals
<1>3. TypeOK'
  BY <1>2, RestKeeps DEF TypeInv, TypeOK
<1>4. Pending'
  BY <1>1, RestKeeps DEF TypeInv, Pending, Moved, CallerGoals
<1> QED
  BY <1>2, <1>3, <1>4 DEF TypeInv, Moved

LEMMA CallType ==
    ASSUME TypeInv, NEW t \in Callers, Call(t)
    PROVE  calls' \in [Callers -> Nat]
BY DEF Call, TypeInv, TypeOK

LEMMA FlagType ==
    ASSUME TypeInv, NEW f \in Flags, Set(f) \/ Reset(f)
    PROVE  flag' \in [Flags -> BOOLEAN]
BY DEF Set, Reset, TypeInv, TypeOK

LEMMA InitOnceType ==
    ASSUME TypeInv, NEW t \in Callers,
           InitOnce(t) \/ InitLocked(t) \/ InitSet(t) \/ InitCheck(t) \/ Refresh(t) \/ Request(t)
    PROVE  TypeInv'
<1> USE DEF locks
<1>1. ASSUME InitOnce(t) PROVE TypeInv'
  <2>1. Moved(t)
    BY <1>1, GotoMoves DEF InitOnce, CallerGoals, CallerSteps
  <2> QED
    BY <1>1, <2>1, CallerRest DEF InitOnce, Lock, TypeInv, TypeOK
<1>2. ASSUME InitLocked(t) PROVE TypeInv'
  <2>1. Moved(t)
    BY <1>2, GotoMoves DEF InitLocked, CallerGoals, CallerSteps
  <2>2. flag' \in [Flags -> BOOLEAN]
    BY <1>2, FlagType DEF InitLocked, Flags, TypeInv, TypeOK
  <2> QED
    BY <1>2, <2>1, <2>2, CallerRest DEF InitLocked, Unlock, TypeInv, TypeOK
<1>3. ASSUME InitSet(t) PROVE TypeInv'
  <2>1. Moved(t)
    BY <1>3, GotoMoves DEF InitSet, CallerGoals, CallerSteps
  <2>2. flag' \in [Flags -> BOOLEAN]
    BY <1>3, FlagType DEF InitSet, Flags
  <2> QED
    BY <1>3, <2>1, <2>2, CallerRest DEF InitSet, Unlock, TypeInv, TypeOK
<1>4. ASSUME InitCheck(t) PROVE TypeInv'
  <2>1. Moved(t)
    BY <1>4, GotoMoves DEF InitCheck, CallerGoals, CallerSteps
  <2> QED
    BY <1>4, <2>1, CallerRest DEF InitCheck, TypeInv, TypeOK
<1>5. ASSUME Refresh(t) PROVE TypeInv'
  <2>1. Moved(t)
    BY <1>5, GotoMoves DEF Refresh, CallerGoals, CallerSteps
  <2> QED
    BY <1>5, <2>1, CallerRest, CallType DEF Refresh, TypeInv, TypeOK
<1>6. ASSUME Request(t) PROVE TypeInv'
  <2>1. Moved(t)
    BY <1>6, SignalMoves DEF Request, CallerGoals, CallerSteps
  <2>2. flag' \in [Flags -> BOOLEAN]
    BY <1>6, FlagType DEF Request, Flags
  <2> QED
    BY <1>6, <2>1, <2>2, CallerRest DEF Request, InMutex, TypeInv, TypeOK
<1> QED
  BY <1>1, <1>2, <1>3, <1>4, <1>5, <1>6

LEMMA InitAsyncType ==
    ASSUME TypeInv, NEW t \in Callers,
           InitAsyncOnce(t) \/ InitAsyncLocked(t) \/ InitAsyncSet(t) \/ InitAsyncCheck(t)
    PROVE  TypeInv'
<1> USE DEF locks
<1>1. ASSUME InitAsyncOnce(t) PROVE TypeInv'
  <2>1. Moved(t)
    BY <1>1, GotoMoves DEF InitAsyncOnce, CallerGoals, CallerSteps, ClearSteps
  <2> QED
    BY <1>1, <2>1, CallerRest DEF InitAsyncOnce, Lock, TypeInv, TypeOK
<1>2. ASSUME InitAsyncLocked(t) PROVE TypeInv'
  <2>1. CASE flag["async_inited"]
    <3>1. Moved(t)
      BY <1>2, <2>1, GotoMoves DEF InitAsyncLocked, CallerGoals, CallerSteps
    <3> QED
      BY <1>2, <2>1, <3>1, CallerRest DEF InitAsyncLocked, Unlock, TypeInv, TypeOK
  <2>2. ASSUME NEW r \in Refreshers, pc[r] = "none",
               pc' = [pc EXCEPT ![t] = "async_set", ![r] = "while"], tid' = r,
               flag' = [flag EXCEPT !["async_inited"] = TRUE, !["running"] = TRUE],
               UNCHANGED locks
        PROVE  TypeInv'
    <3>1. t \notin Refreshers /\ t \in Threads /\ r \in Threads
      BY ThreadsAssumption DEF Threads
    <3>2. pc' \in [Threads -> Steps] /\ pc'[t] = "async_set" /\ pc'[r] = "while"
      BY <2>2, <3>1 DEF TypeInv, Steps, CallerSteps
    <3>3. \A u \in Threads \ {t, r} : pc'[u] = pc[u]
      BY <2>2 DEF TypeInv
    <3>4. /\ \A u \in Callers \ {t} : pc'[u] = pc[u]
          /\ \A u \in Refreshers \ {r} : pc'[u] = pc[u]
      BY <3>1, <3>3, ThreadsAssumption DEF Threads
    <3>5. Moved(t)
      BY <3>2, <3>4 DEF Moved, CallerGoals, CallerSteps
    <3> QED
      BY <1>2, <2>2, <3>5, CallerRest DEF InitAsyncLocked, TypeInv, TypeOK
  <2>3. ASSUME flag' = [flag EXCEPT !["async_inited"] = TRUE, !["running"] = FALSE],
               Unlock, Goto(t, "async_check"), UNCHANGED tid
        PROVE  TypeInv'
    <3>1. Moved(t)
      BY <2>3, GotoMoves DEF CallerGoals, CallerSteps
    <3> QED
      BY <1>2, <2>3, <3>1, CallerRest DEF InitAsyncLocked, Unlock, TypeInv, TypeOK
  <2> QED
    BY <1>2, <2>1, <2>2, <2>3 DEF InitAsyncLocked
<1>3. ASSUME InitAsyncSet(t) PROVE TypeInv'
  <2>1. Moved(t)
    BY <1>3, GotoMoves DEF InitAsyncSet, CallerGoals, CallerSteps, ClearSteps
  <2>2. flag' \in [Flags -> BOOLEAN]
    BY <1>3, FlagType DEF InitAsyncSet, Flags, TypeInv, TypeOK
  <2> QED
    BY <1>3, <2>1, <2>2, CallerRest DEF InitAsyncSet, Unlock, TypeInv, TypeOK
<1>4. ASSUME InitAsyncCheck(t) PROVE TypeInv'
  <2>1. Moved(t)
    BY <1>4, GotoMoves DEF InitAsyncCheck, CallerGoals, CallerSteps, ClearSteps
  <2> QED
    BY <1>4, <2>1, CallerRest DEF InitAsyncCheck, TypeInv, TypeOK
<1> QED
  BY <1>1, <1>2, <1>3, <1>4

LEMMA ClearType ==
    ASSUME TypeInv, NEW t \in Callers,
           Clear(t) \/ ClearBegin(t) \/ ClearStop(t) \/ ClearJoin(t) \/ ClearFlags(t)
           \/ ClearLock(t) \/ ClearLists(t)
    PROVE  TypeInv'
<1> USE DEF locks
<1>1. ASSUME Clear(t) PROVE TypeInv'
  <2>1. Moved(t)
    BY <1>1, GotoMoves DEF Clear, CallerGoals, CallerSteps, ClearSteps
  <2> QED
    BY <1>1, <2>1, CallerRest, CallType DEF Clear, TypeInv, TypeOK
<1>2. ASSUME ClearBegin(t) PROVE TypeInv'
  <2>1. Moved(t)
    BY <1>2, GotoMoves DEF ClearBegin, CallerGoals, CallerSteps, ClearSteps
  <2> QED
    BY <1>2, <2>1, CallerRest DEF ClearBegin, TypeInv, TypeOK
<1>3. ASSUME ClearStop(t) PROVE TypeInv'
  <2>1. Moved(t)
    BY <1>3, SignalMoves DEF ClearStop, CallerGoals, CallerSteps, ClearSteps
  <2>2. flag' \in [Flags -> BOOLEAN]
    BY <1>3, FlagType DEF ClearStop, Flags
  <2> QED
    BY <1>3, <2>1, <2>2, CallerRest DEF ClearStop, InMutex, TypeInv, TypeOK
<1>4. ASSUME ClearJoin(t) PROVE TypeInv'
  <2>1. pc' \in [Threads -> Steps] /\ pc'[t] \in CallerGoals
    BY <1>4, ThreadsAssumption
    DEF ClearJoin, TypeInv, TypeOK, Threads, Steps, CallerGoals, CallerSteps, ClearSteps
  <2>2. \A u \in Threads \ {t} : pc'[u] = pc[u] \/ (u = tid /\ pc'[u] = "none")
    BY <1>4 DEF ClearJoin, TypeInv
  <2>3. Moved(t)
    BY <2>1, <2>2, ThreadsAssumption DEF Moved, Threads, TypeInv, TypeOK
  <2>4. flag' \in [Flags -> BOOLEAN]
    BY <1>4, FlagType DEF ClearJoin, Flags
  <2> QED
    BY <1>4, <2>3, <2>4, CallerRest DEF ClearJoin, TypeInv, TypeOK
<1>5. ASSUME ClearFlags(t) PROVE TypeInv'
  <2>1. PICK step \in ClearSteps, f \in Flags, next \in ClearSteps : ClearFlag(t, step, f, next)
    BY <1>5 DEF ClearFlags, ClearSteps, Flags
  <2>2. Moved(t)
    BY <2>1, GotoMoves DEF ClearFlag, CallerGoals, CallerSteps, ClearSteps
  <2>3. flag' \in [Flags -> BOOLEAN]
    BY <2>1, FlagType DEF ClearFlag
  <2> QED
    BY <2>1, <2>2, <2>3, CallerRest DEF ClearFlag, TypeInv, TypeOK
<1>6. ASSUME ClearLock(t) PROVE TypeInv'
  <2>1. Moved(t)
    BY <1>6, GotoMoves DEF ClearLock, CallerGoals, CallerSteps, ClearSteps
  <2> QED
    BY <1>6, <2>1, CallerRest DEF ClearLock, Lock, TypeInv, TypeOK
<1>7. ASSUME ClearLists(t) PROVE TypeInv'
  <2>1. Moved(t)
    BY <1>7, GotoMoves DEF ClearLists, CallerGoals, CallerSteps
  <2>2. refresh_mutex' = refresh_mutex /\ scan' = scan
    BY <1>7 DEF ClearLists, Unlock
  <2>3. /\ \A u \in Callers : pc'[u] \in CallerSteps \cup ScanSteps
        /\ \A r \in Refreshers : pc'[r] \in {"none", "while", "lock", "wait", "done"} \cup ScanSteps
        /\ UnderRefreshMutex' /\ LineRead' /\ HookReached'
    BY <1>7, <2>1, <2>2, CallerMoves DEF Moved, CallerGoals, ClearLists
  <2>4. map_info' = NoTree /\ late' = FALSE
    BY <1>7 DEF ClearLists, Emptied
  <2>5. NoTree \in [Paths -> 0..MaxBase]
    BY MaxBaseAssumption DEF NoTree
  <2>6. hook_info' = <<>> /\ ignore_info' = <<>>
    BY <1>7 DEF ClearLists, Emptied
  <2>7. <<>> \in Seq(Hooks) /\ <<>> \in Seq(Ignores)
    OBVIOUS
  <2>8. mutex' = None
    BY <1>7 DEF ClearLists, Unlock
  <2>9. UNCHANGED <<flag, tid, calls, arg, maps, had, loads, hooked, alive, setting>>
    BY <1>7 DEF ClearLists, loader
  <2>10. TypeOK'
    BY <2>2, <2>3, <2>4, <2>8, <2>9, <2>6, <2>7, <2>5 DEF TypeInv, TypeOK
  <2>11. Pending'
    BY <2>1, <2>9 DEF TypeInv, Pending, Moved, CallerGoals
  <2> QED
    BY <2>1, <2>3, <2>10, <2>11 DEF TypeInv, Moved
<1> QED
  BY <1>1, <1>2, <1>3, <1>4, <1>5, <1>6, <1>7

LEMMA RegisterType ==
    ASSUME TypeInv, NEW t \in Callers,
           Register(t) \/ RegisterInsert(t) \/ Ignore(t) \/ IgnoreInsert(t)
    PROVE  TypeInv'
<1> USE DEF locks, lists, loader
<1>1. setting.register \subseteq Hooks /\ setting.ignore \subseteq Ignores
  BY SettingsAssumption DEF TypeInv, TypeOK, Setting
<1>2. PICK step \in {"reg_insert", "ign_insert", "idle"} : Goto(t, step)
  BY DEF Register, RegisterInsert, Ignore, IgnoreInsert
<1>3. /\ pc' \in [Threads -> Steps] /\ pc'[t] = step
      /\ \A u \in Threads \ {t} : pc'[u] = pc[u]
  BY <1>2, GotoType DEF Threads, Steps, CallerSteps
<1>4. /\ \A u \in Callers \ {t} : pc'[u] = pc[u]
      /\ \A r \in Refreshers : pc'[r] = pc[r]
  BY <1>3, ThreadsAssumption DEF Threads
<1>5. /\ refresh_mutex' = refresh_mutex /\ scan' = scan /\ mutex' = mutex
      /\ UNCHANGED <<flag, tid, map_info, loader, hooked, alive, setting>>
  BY DEF Register, RegisterInsert, Ignore, IgnoreInsert, InMutex
<1>6. /\ \A u \in Callers : pc'[u] \in CallerSteps \cup ScanSteps
      /\ \A r \in Refreshers : pc'[r] \in {"none", "while", "lock", "wait", "done"} \cup ScanSteps
      /\ UnderRefreshMutex' /\ LineRead' /\ HookReached'
  <2>1. step \in CallerSteps \cup {"sync"}
    BY DEF CallerSteps
  <2>2. DOMAIN hook_info \subseteq DOMAIN hook_info'
    <3>1. CASE RegisterInsert(t)
      BY <3>1 DEF RegisterInsert, At, TypeInv, TypeOK, Pending
    <3>2. CASE ~RegisterInsert(t)
      BY <3>2 DEF Register, Ignore, IgnoreInsert
    <3> QED
      BY <3>1, <3>2
  <2> QED
    BY <1>3, <1>4, <1>5, <2>1, <2>2, CallerMoves
<1>7. calls' \in [Callers -> Nat]
  BY CallType DEF Register, RegisterInsert, Ignore, IgnoreInsert, TypeInv, TypeOK
<1>8. /\ arg' \in [Callers -> Hooks \cup Ignores \cup {None}]
      /\ pc'[t] = "reg_insert" => arg'[t] \in Hooks
      /\ pc'[t] = "ign_insert" => arg'[t] \in Ignores
      /\ \A u \in Callers \ {t} : arg'[u] = arg[u]
  <2>1. CASE Register(t) \/ Ignore(t)
    BY <1>1, <2>1, ThreadsAssumption DEF Register, Ignore, Goto, Threads, TypeInv, TypeOK
  <2>2. CASE RegisterInsert(t) \/ IgnoreInsert(t)
    BY <2>2 DEF RegisterInsert, IgnoreInsert, Goto, Threads, TypeInv, TypeOK
  <2> QED
    BY <2>1, <2>2
<1>9. Pending'
  BY <1>4, <1>8 DEF TypeInv, Pending
<1>10. hook_info' \in Seq(Hooks) /\ ignore_info' \in Seq(Ignores) /\ late' \in BOOLEAN
  <2>1. CASE Register(t) \/ Ignore(t)
    BY <2>1 DEF Register, Ignore, TypeInv, TypeOK
  <2>2. CASE RegisterInsert(t)
    BY <2>2 DEF RegisterInsert, At, Recorded, TypeInv, TypeOK, Pending
  <2>3. CASE IgnoreInsert(t)
    BY <2>3 DEF IgnoreInsert, At, Recorded, TypeInv, TypeOK, Pending
  <2> QED
    BY <2>1, <2>2, <2>3
<1>11. TypeOK'
  BY <1>5, <1>6, <1>7, <1>8, <1>10 DEF TypeInv, TypeOK
<1> QED
  BY <1>3, <1>6, <1>9, <1>11 DEF TypeInv

\* FirstOr is the least member.
LEMMA FirstOrLeast ==
    ASSUME NEW S, S \subseteq Nat, S # {}, NEW default
    PROVE  FirstOr(S, default) \in S /\ \A m \in S : FirstOr(S, default) <= m
<1>1. PICK x \in S : \A y \in S : ~ (<<y, x>> \in OpToRel(<, Nat))
  BY NatLessThanWellFounded, WFMin, Zenon
<1>2. \A y \in S : ~ (y < x)
  BY <1>1 DEF OpToRel
<1>3. \A y \in S : x <= y
  BY <1>2
<1> QED
  BY <1>3 DEF FirstOr

\* The steps of the thread of the library between refreshes.
LEMMA RefresherType ==
    ASSUME TypeInv, NEW r \in Refreshers, While(r) \/ TakeTask(r) \/ SpuriousWake(r)
    PROVE  TypeInv'
<1> USE DEF locks
<1>1. PICK step \in {"lock", "done", "wait", "sync"} : Goto(r, step)
  BY DEF While, TakeTask, SpuriousWake
<1>2. /\ pc' \in [Threads -> Steps] /\ pc'[r] = step
      /\ \A u \in Threads \ {r} : pc'[u] = pc[u]
  BY <1>1, GotoType DEF Threads, Steps, ScanSteps
<1>3. UNCHANGED <<mutex, refresh_mutex, tid, calls>> /\ UNCHANGED Rest
  BY DEF While, TakeTask, SpuriousWake, InMutex
<1>4. flag' \in [Flags -> BOOLEAN]
  BY FlagType DEF While, TakeTask, SpuriousWake, Flags, TypeInv, TypeOK
<1>5. /\ \A u \in Callers : pc'[u] = pc[u]
      /\ \A u \in Refreshers \ {r} : pc'[u] = pc[u]
  BY <1>2, ThreadsAssumption DEF Threads
<1>6. TypeOK'
  BY <1>2, <1>3, <1>4, <1>5, RestKeeps DEF TypeInv, TypeOK, ScanSteps
<1>7. UnderRefreshMutex' /\ LineRead' /\ HookReached' /\ Pending'
  BY <1>2, <1>3, <1>5, RestKeeps
     DEF TypeInv, UnderRefreshMutex, LineRead, HookReached, Pending, ScanSteps, LineSteps
<1> QED
  BY <1>2, <1>6, <1>7 DEF TypeInv

-----------------------------------------------------------------------------
(***************************************************************************)
(* The steps of a refresh.                                                 *)
(***************************************************************************)

\* Where a thread goes from a step of a refresh.
ScanGoals(t) == ScanSteps \cup (IF t \in Callers THEN {"idle"} ELSE {"while"})

\* A step of a refresh: what is left of TypeInv, given what it does to the scan.
LEMMA ScanMoves ==
    ASSUME TypeInv, NEW t \in Threads, NEW step \in ScanGoals(t), Goto(t, step),
           refresh_mutex = t \/ refresh_mutex = None,
           step \in ScanSteps \ {"sync"} => refresh_mutex' = t,
           step \in LineSteps => scan'.at \in Bases /\ scan'.line \in Mapping,
           step = "write" => scan'.hook \in DOMAIN hook_info',
           arg' = arg
    PROVE  /\ pc' \in [Threads -> Steps] /\ pc'[t] = step
           /\ \A u \in Callers : pc'[u] \in CallerSteps \cup ScanSteps
           /\ \A r \in Refreshers : pc'[r] \in {"none", "while", "lock", "wait", "done"} \cup ScanSteps
           /\ UnderRefreshMutex' /\ LineRead' /\ HookReached' /\ Pending'
<1>1. step \in Steps
  BY DEF ScanGoals, Steps, ScanSteps, CallerSteps
<1>2. /\ pc' \in [Threads -> Steps] /\ pc'[t] = step
      /\ \A u \in Threads \ {t} : pc'[u] = pc[u]
  BY <1>1, GotoType
<1>3. \A u \in Callers : pc'[u] \in CallerSteps \cup ScanSteps
  BY <1>2 DEF Threads, ScanGoals, TypeInv, TypeOK, CallerSteps
<1>4. \A r \in Refreshers : pc'[r] \in {"none", "while", "lock", "wait", "done"} \cup ScanSteps
  BY <1>2, ThreadsAssumption DEF Threads, ScanGoals, TypeInv, TypeOK
<1>5. \A u \in Threads \ {t} : pc'[u] \notin ScanSteps \ {"sync"}
  BY <1>2, ThreadsAssumption DEF TypeInv, UnderRefreshMutex, Threads
<1>6. UnderRefreshMutex'
  BY <1>2, <1>5 DEF UnderRefreshMutex
<1>7. LineRead' /\ HookReached'
  BY <1>2, <1>5 DEF LineRead, HookReached, LineSteps, ScanSteps
<1>8. Pending'
  BY <1>2 DEF Pending, TypeInv, Threads, ScanGoals, ScanSteps
<1> QED
  BY <1>2, <1>3, <1>4, <1>6, <1>7, <1>8

\* What may be put into the locals of a refresh.
LEMMA ScanFields ==
    ASSUME NEW sc \in ScanRec, NEW fresh \in [Paths -> 0..MaxBase]
    PROVE  /\ NoScan \in ScanRec
           /\ \A b \in Bases, m \in Mapping, n \in Nat :
                 LET next == [sc EXCEPT !.at = b, !.line = m, !.ignores = n]
                 IN  /\ next \in ScanRec
                     /\ next.at = b /\ next.line = m /\ next.ignores = n /\ next.fresh = sc.fresh
           /\ LET next == [NoScan EXCEPT !.at = sc.at, !.fresh = fresh]
              IN  next \in ScanRec /\ next.at = sc.at /\ next.fresh = fresh
           /\ LET next == [sc EXCEPT !.fresh = fresh]
              IN  /\ next \in ScanRec /\ next.at = sc.at /\ next.line = sc.line
                  /\ next.ignores = sc.ignores /\ next.fresh = fresh
           /\ \A p \in Paths :
                 LET next == [sc EXCEPT !.elf = p]
                 IN  /\ next \in ScanRec /\ next.at = sc.at /\ next.line = sc.line
                     /\ next.ignores = sc.ignores /\ next.fresh = sc.fresh
                     /\ next.elf = p /\ next.hook = sc.hook
           /\ \A n \in Nat :
                 LET next == [sc EXCEPT !.hook = n]
                 IN  /\ next \in ScanRec /\ next.at = sc.at /\ next.line = sc.line
                     /\ next.ignores = sc.ignores /\ next.fresh = sc.fresh
                     /\ next.elf = sc.elf /\ next.hook = n
<1>1. Bases \subseteq 0..MaxBase
  BY MaxBaseAssumption DEF Bases
<1>2. NoTree \in [Paths -> 0..MaxBase] /\ 0 \in 0..MaxBase
  BY MaxBaseAssumption DEF NoTree
<1> QED
  BY <1>1, <1>2 DEF ScanRec, NoScan

\* A step on a line: where it takes the thread, and what it keeps of the line.
LineStep(t) ==
    \/ CheckPath(t) \/ NotElf(t) \/ KnownElf(t) \/ NewElf(t) \/ InitElf(t)
    \/ NextHook(t) \/ WriteSlots(t)
Works(t, step, next) ==
    /\ Work(t, step, next)
    /\ next \in ScanRec /\ next.at = scan.at
    /\ step \in LineSteps => next.line = scan.line /\ next.ignores = scan.ignores
    /\ step = "write" => next.hook \in DOMAIN hook_info

LEMMA LineDoneWorks ==
    ASSUME TypeInv, NEW t \in Threads, NEW fresh \in [Paths -> 0..MaxBase], LineDone(t, fresh)
    PROVE  \E step \in {"scan"} \cup LineSteps, next \in ScanRec : Works(t, step, next)
<1>1. scan \in ScanRec
  BY DEF TypeInv, TypeOK, ScanRec
<1> DEFINE next == [NoScan EXCEPT !.at = scan.at, !.fresh = fresh]
<1>2. next \in ScanRec /\ next.at = scan.at
  BY <1>1, ScanFields
<1>3. Works(t, "scan", next)
  BY <1>2 DEF Works, LineDone, LineSteps
<1> QED
  BY <1>2, <1>3

LEMMA LineStepWorks ==
    ASSUME TypeInv, NEW t \in Threads, LineStep(t)
    PROVE  /\ alive /\ pc[t] \in LineSteps
           /\ \E step \in {"scan"} \cup LineSteps, next \in ScanRec : Works(t, step, next)
           /\ UNCHANGED ScanRest /\ alive' = alive
           /\ map_info' \in [Paths -> 0..MaxBase] /\ hooked' \subseteq Bases \X Symbols
<1> DEFINE Goal == \E step \in {"scan"} \cup LineSteps, next \in ScanRec : Works(t, step, next)
           path == scan.line.path
<1>1. /\ alive /\ pc[t] \in LineSteps
      /\ UNCHANGED ScanRest /\ alive' = alive
  BY DEF LineStep, CheckPath, NotElf, KnownElf, NewElf, InitElf, NextHook, WriteSlots, At,
         LineSteps
<1>2. /\ scan \in ScanRec /\ scan.fresh \in [Paths -> 0..MaxBase] /\ scan.at \in 0..MaxBase
      /\ scan.at \in Bases /\ scan.line \in Mapping /\ path \in Paths
  BY <1>1 DEF TypeInv, TypeOK, ScanRec, LineRead, Mapping
<1> DEFINE fresh == [scan.fresh EXCEPT ![path] = scan.at]
<1>3. fresh \in [Paths -> 0..MaxBase]
  BY <1>2
<1>4. /\ \A f \in [Paths -> 0..MaxBase] :
             LET next == [scan EXCEPT !.fresh = f]
             IN  /\ next \in ScanRec /\ next.at = scan.at /\ next.line = scan.line
                 /\ next.ignores = scan.ignores /\ next.fresh = f
      /\ \A p \in Paths :
            LET next == [scan EXCEPT !.elf = p]
            IN  /\ next \in ScanRec /\ next.at = scan.at /\ next.line = scan.line
                /\ next.ignores = scan.ignores
      /\ \A n \in Nat :
            LET next == [scan EXCEPT !.hook = n]
            IN  /\ next \in ScanRec /\ next.at = scan.at /\ next.line = scan.line
                /\ next.ignores = scan.ignores /\ next.hook = n
  BY <1>2 DEF ScanRec
<1>5. map_info' \in [Paths -> 0..MaxBase]
  <2>1. map_info \in [Paths -> 0..MaxBase] /\ [map_info EXCEPT ![path] = 0] \in [Paths -> 0..MaxBase]
    BY <1>2, MaxBaseAssumption DEF TypeInv, TypeOK
  <2>2. map_info' = map_info \/ map_info' = [map_info EXCEPT ![path] = 0]
    BY DEF LineStep, CheckPath, NotElf, KnownElf, NewElf, InitElf, NextHook, WriteSlots
  <2> QED
    BY <2>1, <2>2
<1>6. CASE CheckPath(t)
  <2>1. LineDone(t, scan.fresh) \/ Works(t, "header", scan)
    BY <1>2, <1>6 DEF CheckPath, Works, LineSteps
  <2> QED
    BY <1>1, <1>2, <1>5, <1>6, <2>1, LineDoneWorks DEF CheckPath, LineSteps, TypeInv, TypeOK
<1>7. CASE NotElf(t)
  BY <1>1, <1>2, <1>5, <1>7, LineDoneWorks DEF NotElf, TypeInv, TypeOK
<1>8. CASE KnownElf(t) \/ NewElf(t)
  <2>1. [scan EXCEPT !.fresh[path] = scan.at] = [scan EXCEPT !.fresh = fresh]
    OBVIOUS
  <2>2. \/ LineDone(t, scan.fresh) \/ LineDone(t, fresh)
        \/ Work(t, "elf", [scan EXCEPT !.fresh = fresh])
    BY <1>8, <2>1 DEF KnownElf, NewElf
  <2>3. Work(t, "elf", [scan EXCEPT !.fresh = fresh]) => Goal
    <3> DEFINE next == [scan EXCEPT !.fresh = fresh]
    <3>1. /\ next \in ScanRec /\ next.at = scan.at /\ next.line = scan.line
          /\ next.ignores = scan.ignores
      BY <1>3, <1>4
    <3> HIDE DEF next
    <3>2. Work(t, "elf", next) => Works(t, "elf", next)
      BY <3>1 DEF Works
    <3> QED
      BY <3>1, <3>2 DEF LineSteps, next
  <2>4. hooked' = hooked
    BY <1>8 DEF KnownElf, NewElf
  <2> QED
    BY <1>1, <1>2, <1>3, <1>5, <2>2, <2>3, <2>4, LineDoneWorks DEF TypeInv, TypeOK
<1>9. CASE InitElf(t)
  <2>1. maps[scan.at].path \in Paths \/ LineDone(t, scan.fresh)
    BY <1>2, <1>9 DEF InitElf, MappedElf, Mapped, TypeInv, TypeOK, Mapping
  <2>2. \/ LineDone(t, scan.fresh)
        \/ \E p \in Paths : Work(t, "hook", [scan EXCEPT !.elf = p])
    BY <1>9, <2>1 DEF InitElf
  <2>3. ASSUME NEW p \in Paths, Work(t, "hook", [scan EXCEPT !.elf = p]) PROVE Goal
    <3> DEFINE next == [scan EXCEPT !.elf = p]
    <3>1. /\ next \in ScanRec /\ next.at = scan.at /\ next.line = scan.line
          /\ next.ignores = scan.ignores
      BY <1>4
    <3>2. Work(t, "hook", next)
      BY <2>3
    <3> HIDE DEF next
    <3>3. Works(t, "hook", next)
      BY <3>1, <3>2 DEF Works
    <3> QED
      BY <3>1, <3>3 DEF LineSteps
  <2>4. hooked' = hooked
    BY <1>9 DEF InitElf
  <2> QED
    BY <1>1, <1>2, <1>5, <2>2, <2>3, <2>4, LineDoneWorks DEF TypeInv, TypeOK
<1>10. CASE NextHook(t)
  <2> DEFINE due == {n \in Matching(path) : n > scan.hook}
             n == FirstOr(due, 0)
  <2>1. \/ LineDone(t, scan.fresh)
        \/ /\ due # {}
           /\ \E step \in {"write", "hook"} : Work(t, step, [scan EXCEPT !.hook = n])
    BY <1>10 DEF NextHook
  <2>2. ASSUME due # {}, NEW step \in {"write", "hook"}, Work(t, step, [scan EXCEPT !.hook = n])
        PROVE  Goal
    <3> DEFINE next == [scan EXCEPT !.hook = n]
    <3>1. due \subseteq Nat /\ due \subseteq DOMAIN hook_info
      BY DEF Matching, TypeInv, TypeOK
    <3>2. n \in DOMAIN hook_info /\ n \in Nat
      BY <2>2, <3>1, FirstOrLeast
    <3> HIDE DEF n
    <3>3. /\ next \in ScanRec /\ next.at = scan.at /\ next.line = scan.line
          /\ next.ignores = scan.ignores /\ next.hook = n
      BY <1>4, <3>2
    <3>4. Work(t, step, next)
      BY <2>2 DEF n
    <3> HIDE DEF next
    <3>5. Works(t, step, next)
      BY <3>2, <3>3, <3>4 DEF Works
    <3> QED
      BY <3>3, <3>5 DEF LineSteps
  <2>3. hooked' = hooked
    BY <1>10 DEF NextHook
  <2> HIDE DEF due, n
  <2> QED
    BY <1>1, <1>2, <1>5, <2>1, <2>2, <2>3, LineDoneWorks DEF TypeInv, TypeOK
<1>11. CASE WriteSlots(t)
  <2>1. Works(t, "hook", scan)
    BY <1>2, <1>11 DEF WriteSlots, Works
  <2>2. hook_info[scan.hook].symbol \in Symbols
    BY <1>11, HooksAssumption DEF WriteSlots, At, TypeInv, TypeOK, HookReached
  <2>3. hooked' \subseteq hooked \cup ({scan.at} \X Symbols)
    BY <1>11, <2>2 DEF WriteSlots
  <2>4. hooked' \subseteq Bases \X Symbols
    BY <1>2, <2>3 DEF TypeInv, TypeOK
  <2> QED
    BY <1>1, <1>2, <1>5, <2>1, <2>4 DEF LineSteps
<1> QED
  BY <1>6, <1>7, <1>8, <1>9, <1>10, <1>11 DEF LineStep

LEMMA ScanType ==
    ASSUME TypeInv, NEW t \in Threads, ScanStep(t)
    PROVE  TypeInv'
<1> USE DEF locks, lists, loader
<1>1. /\ scan \in ScanRec /\ NoScan \in ScanRec
      /\ "scan" \in ScanGoals(t) /\ "line" \in ScanGoals(t) /\ "scanned" \in ScanGoals(t)
  <2>1. scan \in ScanRec
    BY DEF TypeInv, TypeOK, ScanRec
  <2>2. NoScan \in ScanRec
    BY <2>1, ScanFields DEF ScanRec
  <2> QED
    BY <2>1, <2>2 DEF ScanGoals, ScanSteps
<1>2. pc[t] \in ScanSteps \ {"sync"} => refresh_mutex = t
  BY DEF TypeInv, UnderRefreshMutex
<1>3. ASSUME BeginScan(t) PROVE TypeInv'
  <2>1. PICK step \in {"scan", "scanned"} : Goto(t, step)
    BY <1>3 DEF BeginScan
  <2>2. refresh_mutex = None /\ refresh_mutex' = t /\ scan' = NoScan
    BY <1>3 DEF BeginScan
  <2>3. UNCHANGED <<mutex, flag, tid, calls, arg, lists, map_info, loader, hooked, alive, setting>>
    BY <1>3 DEF BeginScan
  <2>4. step \in ScanGoals(t) /\ step \notin LineSteps
    BY <1>1, <2>1 DEF LineSteps
  <2>5. scan' \in ScanRec
    BY <1>1, <2>2
  <2> QED
    BY <2>1, <2>2, <2>3, <2>4, <2>5, ScanMoves DEF TypeInv, TypeOK, ScanRec, LineSteps
<1>4. ASSUME ReadLine(t) PROVE TypeInv'
  <2> DEFINE b == FirstOr(Above, 0)
             n == Len(ignore_info)
  <2>1. Above # {} /\ Above \subseteq Nat
    BY <1>4 DEF ReadLine, Above, Bases
  <2>2. b \in Above
    BY <2>1, FirstOrLeast
  <2>3. b \in Bases /\ maps[b] \in Mapping /\ n \in Nat
    BY <2>2 DEF Above, TypeInv, TypeOK
  <2>4. scan' = [scan EXCEPT !.at = b, !.line = maps[b], !.ignores = n] /\ Goto(t, "line")
    BY <1>4 DEF ReadLine
  <2>5. UNCHANGED <<locks, flag, tid, calls, arg, lists, map_info, loader, hooked, alive, setting>>
    BY <1>4 DEF ReadLine
  <2> HIDE DEF b, n
  <2>6. scan' \in ScanRec /\ scan'.at = b /\ scan'.line = maps[b]
    <3> DEFINE m == maps[b]
    <3>1. scan' = [scan EXCEPT !.at = b, !.line = m, !.ignores = n] /\ m \in Mapping
      BY <2>3, <2>4
    <3>2. b \in 0..MaxBase
      BY <2>3 DEF Bases
    <3> HIDE DEF m
    <3>3. scan' \in ScanRec /\ scan'.at = b /\ scan'.line = m
      BY <1>1, <2>3, <3>1, <3>2 DEF ScanRec
    <3> QED
      BY <3>3 DEF m
  <2>7. refresh_mutex = t
    BY <1>2, <1>4 DEF ReadLine, At, ScanSteps
  <2> QED
    BY <1>1, <2>3, <2>4, <2>5, <2>6, <2>7, ScanMoves DEF TypeInv, TypeOK, ScanRec
<1>5. ASSUME LineStep(t) PROVE TypeInv'
  <2>1. PICK step \in {"scan"} \cup LineSteps, next \in ScanRec : Works(t, step, next)
    BY <1>5, LineStepWorks
  <2>2. /\ alive' = alive /\ pc[t] \in LineSteps /\ UNCHANGED ScanRest
        /\ map_info' \in [Paths -> 0..MaxBase] /\ hooked' \subseteq Bases \X Symbols
    BY <1>5, LineStepWorks
  <2>3. scan.at \in Bases /\ scan.line \in Mapping /\ refresh_mutex = t
    BY <1>2, <2>2 DEF TypeInv, LineRead, LineSteps, ScanSteps
  <2>4. step \in ScanGoals(t)
    BY DEF ScanGoals, ScanSteps, LineSteps
  <2>5. Goto(t, step) /\ scan' = next /\ scan' \in ScanRec
    BY <2>1 DEF Works, Work
  <2>6. /\ step \in LineSteps => scan'.at \in Bases /\ scan'.line \in Mapping
        /\ step = "write" => scan'.hook \in DOMAIN hook_info'
    BY <2>1, <2>2, <2>3, <2>5 DEF Works, ScanRest
  <2>7. arg' = arg /\ refresh_mutex' = refresh_mutex
    BY <2>2 DEF ScanRest
  <2>8. /\ pc' \in [Threads -> Steps] /\ UnderRefreshMutex' /\ LineRead' /\ HookReached' /\ Pending'
        /\ \A u \in Callers : pc'[u] \in CallerSteps \cup ScanSteps
        /\ \A r \in Refreshers : pc'[r] \in {"none", "while", "lock", "wait", "done"} \cup ScanSteps
    BY <2>3, <2>4, <2>5, <2>6, <2>7, ScanMoves
  <2>9. TypeOK'
    BY <2>2, <2>5, <2>8 DEF TypeInv, TypeOK, ScanRec, ScanRest
  <2> QED
    BY <2>8, <2>9 DEF TypeInv
<1>6. ASSUME Fault(t) PROVE TypeInv'
  BY <1>6 DEF Fault, ScanRest, TypeInv, TypeOK, UnderRefreshMutex, LineRead, HookReached, Pending
<1>7. ASSUME EndScan(t) PROVE TypeInv'
  <2>1. refresh_mutex = t /\ Goto(t, "scanned")
    BY <1>2, <1>7 DEF EndScan, At, ScanSteps
  <2>2. map_info' \in [Paths -> 0..MaxBase] /\ scan' = NoScan /\ scan' \in ScanRec
    BY <1>1, <1>7 DEF EndScan, TypeInv, TypeOK
  <2>3. UNCHANGED <<locks, flag, tid, calls, arg, lists, loader, hooked, alive, setting>>
    BY <1>7 DEF EndScan
  <2> QED
    BY <1>1, <2>1, <2>2, <2>3, ScanMoves DEF TypeInv, TypeOK, ScanRec, LineSteps
<1>8. ASSUME Scanned(t) PROVE TypeInv'
  <2>1. PICK step \in ScanGoals(t) \ ScanSteps : Goto(t, step)
    BY <1>8 DEF Scanned, ScanGoals, ScanSteps
  <2>2. refresh_mutex = t /\ refresh_mutex' = None
    BY <1>2, <1>8 DEF Scanned, At, ScanSteps
  <2>3. UNCHANGED <<mutex, flag, tid, calls>> /\ UNCHANGED Rest
    BY <1>8 DEF Scanned
  <2>4. step \notin LineSteps /\ arg' = arg
    BY <2>3, RestKeeps DEF LineSteps, ScanSteps
  <2>5. step \in ScanGoals(t) /\ step \notin ScanSteps /\ step # "write"
    BY DEF ScanSteps
  <2>6. /\ pc' \in [Threads -> Steps] /\ UnderRefreshMutex' /\ LineRead' /\ HookReached' /\ Pending'
        /\ \A u \in Callers : pc'[u] \in CallerSteps \cup ScanSteps
        /\ \A r \in Refreshers : pc'[r] \in {"none", "while", "lock", "wait", "done"} \cup ScanSteps
    BY <2>1, <2>2, <2>4, <2>5, ScanMoves
  <2>7. TypeOK'
    BY <2>2, <2>3, <2>6, RestKeeps DEF TypeInv, TypeOK
  <2> QED
    BY <2>6, <2>7 DEF TypeInv
<1> QED
  BY <1>3, <1>4, <1>5, <1>6, <1>7, <1>8 DEF ScanStep, LineStep

LEMMA LoaderType ==
    ASSUME TypeInv, NEW b \in Bases, Load(b) \/ Unload(b)
    PROVE  TypeInv'
<1> USE DEF locks, lists, Outside
<1>1. UNCHANGED <<pc, arg, mutex, refresh_mutex, flag, tid, hook_info, ignore_info, late, map_info,
                  scan, alive, calls, setting>>
  BY DEF Load, Unload
<1>2. hooked' \subseteq Bases \X Symbols
  BY DEF Load, Unload, Fresh, TypeInv, TypeOK
<1> DEFINE LoaderOk == /\ maps \in [Bases -> Mapping \cup {None}] /\ had \subseteq Paths \X Bases
                       /\ loads \in Nat
<1>3. LoaderOk'
  <2>1. ASSUME Load(b) PROVE LoaderOk'
    <3>1. PICK p \in Paths, elf \in BOOLEAN :
             /\ maps' = [maps EXCEPT ![b] = [path |-> p, elf |-> elf, again |-> <<p, b>> \in had]]
             /\ had' = had \cup {<<p, b>>}
      BY <2>1 DEF Load
    <3>2. [path |-> p, elf |-> elf, again |-> <<p, b>> \in had] \in Mapping
      BY DEF Mapping
    <3> QED
      BY <2>1, <3>1, <3>2 DEF Load, TypeInv, TypeOK
  <2>2. ASSUME Unload(b) PROVE LoaderOk'
    BY <2>2 DEF Unload, TypeInv, TypeOK
  <2> QED
    BY <2>1, <2>2
<1> QED
  BY <1>1, <1>2, <1>3 DEF TypeInv, TypeOK, UnderRefreshMutex, LineRead, HookReached, Pending

LEMMA NextType == TypeInv /\ [Next]_vars => TypeInv'
<1> SUFFICES ASSUME TypeInv, [Next]_vars PROVE TypeInv'
  OBVIOUS
<1>1. ASSUME NEW t \in Callers, NewCall(t) \/ CallStep(t) \/ ScanStep(t) PROVE TypeInv'
  <2>1. t \in Threads
    BY DEF Threads
  <2> QED
    BY <1>1, <2>1, InitOnceType, InitAsyncType, ClearType, RegisterType, ScanType
    DEF NewCall, CallStep
<1>2. ASSUME NEW r \in Refreshers, While(r) \/ TakeTask(r) \/ SpuriousWake(r) \/ ScanStep(r)
      PROVE  TypeInv'
  <2>1. r \in Threads
    BY DEF Threads
  <2> QED
    BY <1>2, <2>1, RefresherType, ScanType
<1>3. ASSUME NEW b \in Bases, Load(b) \/ Unload(b) PROVE TypeInv'
  BY <1>3, LoaderType
<1>4. CASE UNCHANGED vars
  BY <1>4 DEF vars, locks, lists, loader, TypeInv, TypeOK, UnderRefreshMutex, LineRead, HookReached, Pending
<1> QED
  BY <1>1, <1>2, <1>3, <1>4 DEF Next

\* The variables of xh_core.c keep their types, whatever the threads, the loader
\* and the calls that fail do.
THEOREM XhCoreTypeCorrect == Spec => []TypeOK
<1>1. TypeInv => TypeOK
  BY DEF TypeInv
<1> QED
  BY <1>1, InitType, NextType, PTL DEF Spec

-----------------------------------------------------------------------------
(***************************************************************************)
(* The lists and the tree belong to the refresh.                           *)
(***************************************************************************)
UntouchedInScan ==
    \A t \in Threads : (pc[t] \in ScanSteps \ {"sync", "scanned"} /\ pc'[t] = pc[t]) =>
        /\ Len(hook_info') >= Len(hook_info) /\ Len(ignore_info') >= Len(ignore_info)
        /\ map_info' = map_info

\* A list that is left alone does not get shorter.
LEMMA SameNotShorter ==
    ASSUME TypeInv
    PROVE  Len(hook_info) >= Len(hook_info) /\ Len(ignore_info) >= Len(ignore_info)
BY DEF TypeInv, TypeOK

LEMMA RestUntouched ==
    ASSUME TypeInv, UNCHANGED <<hook_info, ignore_info, map_info>>
    PROVE  UntouchedInScan
BY SameNotShorter DEF UntouchedInScan

LEMMA CallUntouched ==
    ASSUME TypeInv, NEW t \in Callers, NewCall(t) \/ CallStep(t)
    PROVE  UntouchedInScan
<1>1. CASE RegisterInsert(t)
  <2>1. /\ hook_info' = Append(hook_info, arg[t]) /\ arg[t] \in Hooks
        /\ UNCHANGED <<ignore_info, map_info>>
    BY <1>1 DEF RegisterInsert, At, TypeInv, Pending
  <2>2. Len(Append(hook_info, arg[t])) >= Len(hook_info)
    BY <2>1 DEF TypeInv, TypeOK
  <2> QED
    BY <2>1, <2>2, SameNotShorter DEF UntouchedInScan
<1>2. CASE IgnoreInsert(t)
  <2>1. /\ ignore_info' = Append(ignore_info, arg[t]) /\ arg[t] \in Ignores
        /\ UNCHANGED <<hook_info, map_info>>
    BY <1>2 DEF IgnoreInsert, At, TypeInv, Pending
  <2>2. Len(Append(ignore_info, arg[t])) >= Len(ignore_info)
    BY <2>1 DEF TypeInv, TypeOK
  <2> QED
    BY <2>1, <2>2, SameNotShorter DEF UntouchedInScan
<1>3. CASE ClearLists(t)
  <2>1. refresh_mutex = None
    BY <1>3 DEF ClearLists
  <2>2. \A u \in Threads : pc[u] \notin ScanSteps \ {"sync"}
    BY <2>1, ThreadsAssumption DEF TypeInv, UnderRefreshMutex, Threads
  <2> QED
    BY <2>2 DEF UntouchedInScan
<1>4. CASE Register(t) \/ Ignore(t)
  BY <1>4, RestUntouched DEF Register, Ignore, lists
<1>5. CASE Refresh(t) \/ InitOnce(t) \/ InitLocked(t) \/ InitSet(t) \/ InitCheck(t) \/ Request(t)
  <2>1. UNCHANGED Rest
    BY <1>5 DEF Refresh, InitOnce, InitLocked, InitSet, InitCheck, Request
  <2> QED
    BY <2>1, RestKeeps, RestUntouched
<1>6. CASE InitAsyncOnce(t) \/ InitAsyncLocked(t) \/ InitAsyncSet(t) \/ InitAsyncCheck(t)
  <2>1. UNCHANGED Rest
    BY <1>6 DEF InitAsyncOnce, InitAsyncLocked, InitAsyncSet, InitAsyncCheck
  <2> QED
    BY <2>1, RestKeeps, RestUntouched
<1>7. CASE Clear(t) \/ ClearBegin(t) \/ ClearStop(t) \/ ClearJoin(t) \/ ClearFlags(t) \/ ClearLock(t)
  <2>1. UNCHANGED Rest
    BY <1>7 DEF Clear, ClearBegin, ClearStop, ClearJoin, ClearFlags, ClearFlag, ClearLock
  <2> QED
    BY <2>1, RestKeeps, RestUntouched
<1> QED
  BY <1>1, <1>2, <1>3, <1>4, <1>5, <1>6, <1>7 DEF NewCall, CallStep

LEMMA ScanUntouched ==
    ASSUME TypeInv, NEW t \in Threads, ScanStep(t)
    PROVE  UntouchedInScan
<1> USE DEF ScanRest, lists
<1>1. CASE BeginScan(t) \/ ReadLine(t) \/ Fault(t)
  BY <1>1, RestUntouched DEF BeginScan, ReadLine, Fault
<1>2. CASE CheckPath(t) \/ NotElf(t) \/ NewElf(t) \/ InitElf(t) \/ NextHook(t) \/ WriteSlots(t)
  BY <1>2, RestUntouched DEF CheckPath, NotElf, NewElf, InitElf, NextHook, WriteSlots
<1>3. CASE Scanned(t)
  <2>1. UNCHANGED Rest
    BY <1>3 DEF Scanned
  <2> QED
    BY <2>1, RestKeeps, RestUntouched
<1>4. CASE KnownElf(t) \/ EndScan(t)
  <2>1. pc[t] \in {"header", "scan"} /\ UNCHANGED lists
    BY <1>4 DEF KnownElf, EndScan, At
  <2>2. \E step \in {"scan", "elf", "scanned"} : Goto(t, step) /\ step # pc[t]
    BY <1>4, <2>1 DEF KnownElf, EndScan, At, LineDone, Work
  <2>3. pc'[t] # pc[t]
    BY <2>2 DEF Goto, TypeInv
  <2>4. \A u \in Threads \ {t} : pc[u] \notin ScanSteps \ {"sync"}
    BY <2>1 DEF TypeInv, UnderRefreshMutex, ScanSteps
  <2> QED
    BY <2>1, <2>3, <2>4 DEF UntouchedInScan
<1> QED
  BY <1>1, <1>2, <1>3, <1>4 DEF ScanStep

LEMMA NextUntouched == TypeInv /\ [Next]_vars => [UntouchedInScan]_vars
<1> SUFFICES ASSUME TypeInv, Next PROVE UntouchedInScan
  OBVIOUS
<1>1. ASSUME NEW t \in Callers, NewCall(t) \/ CallStep(t) \/ ScanStep(t) PROVE UntouchedInScan
  BY <1>1, CallUntouched, ScanUntouched DEF Threads
<1>2. ASSUME NEW r \in Refreshers, While(r) \/ TakeTask(r) \/ SpuriousWake(r)
      PROVE  UntouchedInScan
  <2>1. UNCHANGED Rest
    BY <1>2 DEF While, TakeTask, SpuriousWake
  <2> QED
    BY <2>1, RestKeeps, RestUntouched
<1>3. ASSUME NEW r \in Refreshers, ScanStep(r) PROVE UntouchedInScan
  BY <1>3, ScanUntouched DEF Threads
<1>4. ASSUME NEW b \in Bases, Load(b) \/ Unload(b) PROVE UntouchedInScan
  BY <1>4, RestUntouched DEF Load, Unload, Outside, lists
<1> QED
  BY <1>1, <1>2, <1>3, <1>4 DEF Next

\* Nobody frees an element of the lists or a record of the tree while a refresh
\* goes through them: all refreshes and clear hold the refresh mutex.
THEOREM NothingFreedUnderRefresh == Spec => NothingFreedInScan
<1>1. Spec => []TypeInv
  BY InitType, NextType, PTL DEF Spec
<1>2. [][UntouchedInScan]_vars => NothingFreedInScan
  BY PTL DEF NothingFreedInScan, UntouchedInScan
<1> QED
  BY <1>1, <1>2, NextUntouched, PTL DEF Spec

-----------------------------------------------------------------------------
(***************************************************************************)
(* The ignore list.                                                        *)
(***************************************************************************)

\* What was ignored when the line was read is in the list yet, and the hook that is
\* about to be made was judged by it.
IgnoreInv ==
    \A t \in Threads :
        /\ pc[t] \in LineSteps => scan.ignores <= Len(ignore_info)
        /\ pc[t] = "write" => ~IgnoredThen(scan.line.path, hook_info[scan.hook].symbol)
NotIgnoredWritten ==
    \A b \in Bases, s \in Symbols :
        <<b, s>> \in hooked' \ hooked /\ ~Stale => ~IgnoredThen(scan.line.path, s)

\* What an entry of the list forbids, the hook of that symbol is forbidden by some
\* entry.
LEMMA VerdictSound ==
    ASSUME TypeInv, scan.ignores <= Len(ignore_info), NEW path, NEW h \in Hooks,
           IgnoredThen(path, h.symbol)
    PROVE  Verdict(h, path) # None
<1> DEFINE hits == {n \in DOMAIN ignore_info : /\ Concerns(ignore_info[n], path)
                                               /\ ignore_info[n].symbol \in {All, h.symbol}}
<1>1. 1..scan.ignores \subseteq DOMAIN ignore_info
  BY DEF TypeInv, TypeOK
<1>2. hits # {} /\ hits \subseteq Nat
  BY <1>1 DEF IgnoredThen, TypeInv, TypeOK
<1>3. FirstOr(hits, 0) \in hits
  BY <1>2, FirstOrLeast
<1>4. h.symbol \in Symbols
  BY HooksAssumption
<1>5. ignore_info[FirstOr(hits, 0)].symbol # None
  BY <1>3, <1>4, NoneAssumption
<1>6. Verdict(h, path) = ignore_info[FirstOr(hits, 0)].symbol
  BY <1>2 DEF Verdict
<1> QED
  BY <1>5, <1>6

\* No step of a caller outside of a refresh takes a thread into one.
LEMMA OutsideScan ==
    ASSUME TypeInv, NEW t \in Callers, NewCall(t) \/ CallStep(t)
    PROVE  \A u \in Threads : pc'[u] \in ScanSteps \ {"sync"} => pc'[u] = pc[u]
<1> USE DEF CallerSteps, ClearSteps, Steps, ScanSteps
<1>1. CASE Request(t) \/ ClearStop(t)
  BY <1>1, SignalType DEF Request, ClearStop, Threads
<1>2. CASE InitAsyncLocked(t)
  <2>1. CASE Goto(t, "async_check")
    BY <2>1, GotoType DEF Threads
  <2>2. CASE \E r \in Refreshers : pc' = [pc EXCEPT ![t] = "async_set", ![r] = "while"]
    BY <2>2 DEF TypeInv
  <2> QED
    BY <1>2, <2>1, <2>2 DEF InitAsyncLocked
<1>3. CASE ClearJoin(t)
  BY <1>3 DEF ClearJoin, TypeInv
<1>4. CASE ~(Request(t) \/ ClearStop(t) \/ InitAsyncLocked(t) \/ ClearJoin(t))
  <2>1. \E step \in CallerSteps \cup {"sync"} : Goto(t, step)
    BY <1>4 DEF NewCall, Register, Ignore, Refresh, Clear, CallStep, RegisterInsert, IgnoreInsert,
                InitOnce, InitLocked, InitSet, InitCheck, InitAsyncOnce, InitAsyncSet,
                InitAsyncCheck, ClearBegin, ClearFlags, ClearFlag, ClearLock, ClearLists
  <2> QED
    BY <2>1, GotoType DEF Threads
<1> QED
  BY <1>1, <1>2, <1>3, <1>4

\* Lists that grow at their ends, and threads that do not move on within a line.
LEMMA IgnoreKept ==
    ASSUME TypeInv, IgnoreInv, scan' = scan,
           \A t \in Threads : pc'[t] \in LineSteps => pc'[t] = pc[t],
           Len(ignore_info') \in Nat, Len(ignore_info') >= Len(ignore_info),
           \A n \in DOMAIN ignore_info : ignore_info'[n] = ignore_info[n],
           \A n \in DOMAIN hook_info : hook_info'[n] = hook_info[n]
    PROVE  IgnoreInv'
<1> SUFFICES ASSUME NEW t \in Threads, pc'[t] \in LineSteps
             PROVE  /\ scan.ignores <= Len(ignore_info')
                    /\ pc'[t] = "write" =>
                          ~IgnoredThen(scan.line.path, hook_info[scan.hook].symbol)'
  BY DEF IgnoreInv, LineSteps
<1>1. pc'[t] = pc[t] /\ scan.ignores \in Nat /\ scan.ignores <= Len(ignore_info)
  BY DEF IgnoreInv, TypeInv, TypeOK
<1>2. scan.ignores <= Len(ignore_info')
  BY <1>1 DEF TypeInv, TypeOK
<1>3. 1..scan.ignores \subseteq DOMAIN ignore_info
  BY <1>1 DEF TypeInv, TypeOK
<1>4. ASSUME pc'[t] = "write" PROVE ~IgnoredThen(scan.line.path, hook_info[scan.hook].symbol)'
  <2>1. hook_info'[scan.hook] = hook_info[scan.hook]
    BY <1>1, <1>4 DEF TypeInv, HookReached
  <2>2. ~IgnoredThen(scan.line.path, hook_info[scan.hook].symbol)
    BY <1>1, <1>4 DEF IgnoreInv
  <2> QED
    BY <1>3, <2>1, <2>2 DEF IgnoredThen, Concerns
<1> QED
  BY <1>2, <1>4

LEMMA RestIgnore ==
    ASSUME TypeInv, IgnoreInv, UNCHANGED <<hook_info, ignore_info, scan>>,
           \A t \in Threads : pc'[t] \in LineSteps => pc'[t] = pc[t]
    PROVE  IgnoreInv'
<1>1. Len(ignore_info) \in Nat /\ Len(ignore_info) >= Len(ignore_info)
  BY DEF TypeInv, TypeOK
<1> QED
  BY <1>1, IgnoreKept

LEMMA CallIgnore ==
    ASSUME TypeInv, IgnoreInv, NEW t \in Callers, NewCall(t) \/ CallStep(t)
    PROVE  IgnoreInv'
<1>1. \A u \in Threads : pc'[u] \in LineSteps => pc'[u] = pc[u]
  BY OutsideScan DEF LineSteps, ScanSteps
<1>2. CASE RegisterInsert(t)
  <2>1. /\ hook_info' = Append(hook_info, arg[t]) /\ arg[t] \in Hooks
        /\ UNCHANGED <<ignore_info, scan>>
    BY <1>2 DEF RegisterInsert, At, TypeInv, Pending
  <2>2. \A n \in DOMAIN hook_info : hook_info'[n] = hook_info[n]
    BY <2>1 DEF TypeInv, TypeOK
  <2>3. Len(ignore_info) \in Nat /\ Len(ignore_info) >= Len(ignore_info)
    BY DEF TypeInv, TypeOK
  <2> QED
    BY <1>1, <2>1, <2>2, <2>3, IgnoreKept
<1>3. CASE IgnoreInsert(t)
  <2>1. /\ ignore_info' = Append(ignore_info, arg[t]) /\ arg[t] \in Ignores
        /\ UNCHANGED <<hook_info, scan>>
    BY <1>3 DEF IgnoreInsert, At, TypeInv, Pending
  <2>2. /\ \A n \in DOMAIN ignore_info : ignore_info'[n] = ignore_info[n]
        /\ Len(ignore_info') \in Nat /\ Len(ignore_info') >= Len(ignore_info)
    BY <2>1 DEF TypeInv, TypeOK
  <2> QED
    BY <1>1, <2>1, <2>2, IgnoreKept
<1>4. CASE ClearLists(t)
  <2>1. refresh_mutex = None
    BY <1>4 DEF ClearLists
  <2>2. \A u \in Threads : pc'[u] \notin LineSteps
    BY <1>1, <2>1, ThreadsAssumption
       DEF TypeInv, UnderRefreshMutex, Threads, LineSteps, ScanSteps
  <2> QED
    BY <2>2 DEF IgnoreInv, LineSteps
<1>5. CASE Register(t) \/ Ignore(t)
  BY <1>1, <1>5, RestIgnore DEF Register, Ignore, lists
<1>6. CASE ~(RegisterInsert(t) \/ IgnoreInsert(t) \/ ClearLists(t) \/ Register(t) \/ Ignore(t))
  <2>1. UNCHANGED Rest
    BY <1>6 DEF NewCall, Refresh, Clear, CallStep, InitOnce, InitLocked, InitSet, InitCheck,
                InitAsyncOnce, InitAsyncLocked, InitAsyncSet, InitAsyncCheck, Request, ClearBegin,
                ClearStop, ClearJoin, ClearFlags, ClearFlag, ClearLock
  <2> QED
    BY <1>1, <2>1, RestKeeps, RestIgnore
<1> QED
  BY <1>2, <1>3, <1>4, <1>5, <1>6

\* A thread that works on a line is the only one.
LEMMA OneInScan ==
    ASSUME TypeInv, NEW t \in Threads, pc[t] \in ScanSteps \ {"sync"}
    PROVE  /\ refresh_mutex = t /\ t # None
           /\ \A u \in Threads \ {t} : pc[u] \notin ScanSteps \ {"sync"}
BY ThreadsAssumption DEF TypeInv, UnderRefreshMutex, Threads

LEMMA ScanIgnore ==
    ASSUME TypeInv, IgnoreInv, NEW t \in Threads, ScanStep(t)
    PROVE  IgnoreInv'
<1> USE DEF locks, lists, LineSteps
<1>1. \A step : Goto(t, step) => pc'[t] = step /\ \A u \in Threads \ {t} : pc'[u] = pc[u]
  BY DEF Goto, TypeInv
<1>2. CASE BeginScan(t)
  <2>1. \A u \in Threads : pc[u] \notin LineSteps
    BY <1>2, ThreadsAssumption DEF BeginScan, TypeInv, UnderRefreshMutex, ScanSteps, Threads
  <2>2. \A u \in Threads : pc'[u] \notin LineSteps
    BY <1>1, <1>2, <2>1 DEF BeginScan
  <2> QED
    BY <2>2 DEF IgnoreInv
<1>3. CASE ReadLine(t)
  <2>1. pc'[t] = "line" /\ pc[t] = "scan" /\ \A u \in Threads \ {t} : pc'[u] = pc[u]
    BY <1>1, <1>3 DEF ReadLine, At
  <2>2. \A u \in Threads \ {t} : pc'[u] \notin LineSteps
    BY <2>1, OneInScan DEF ScanSteps
  <2>3. scan'.ignores = Len(ignore_info) /\ ignore_info' = ignore_info
    BY <1>3 DEF ReadLine, TypeInv, TypeOK
  <2>4. Len(ignore_info) <= Len(ignore_info)
    BY DEF TypeInv, TypeOK
  <2> QED
    BY <2>1, <2>2, <2>3, <2>4 DEF IgnoreInv
<1>4. CASE LineStep(t)
  <2>1. PICK step \in {"scan"} \cup LineSteps, next \in ScanRec : Works(t, step, next)
    BY <1>4, LineStepWorks
  <2>2. /\ pc[t] \in LineSteps /\ UNCHANGED <<hook_info, ignore_info>>
    BY <1>4, LineStepWorks DEF ScanRest
  <2>3. pc'[t] = step /\ scan' = next /\ \A u \in Threads \ {t} : pc'[u] = pc[u]
    BY <1>1, <2>1 DEF Works, Work
  <2>4. \A u \in Threads \ {t} : pc'[u] \notin LineSteps
    BY <2>2, <2>3, OneInScan DEF ScanSteps
  <2>5. step \in LineSteps => scan'.ignores = scan.ignores /\ scan'.line = scan.line
    BY <2>1, <2>3 DEF Works
  <2>6. scan.ignores <= Len(ignore_info)
    BY <2>2 DEF IgnoreInv
  <2>7. ASSUME step = "write" PROVE ~IgnoredThen(scan.line.path, hook_info[scan.hook].symbol)'
    <3> DEFINE path == scan.line.path
               n == scan'.hook
    <3>1. step \notin {"scan", "header", "elf", "hook"}
      BY <2>7
    <3>2. NextHook(t)
      BY <1>1, <1>4, <2>3, <3>1
         DEF LineStep, CheckPath, NotElf, KnownElf, NewElf, InitElf, WriteSlots, LineDone, Work
    <3>3. Verdict(hook_info[n], path) = None
      BY <1>1, <2>3, <2>7, <3>2 DEF NextHook, LineDone, Work, TypeInv, TypeOK
    <3>4. n \in DOMAIN hook_info
      BY <2>1, <2>3, <2>7 DEF Works
    <3>5. hook_info[n] \in Hooks
      BY <3>4 DEF TypeInv, TypeOK
    <3> HIDE DEF n, path
    <3>6. ~IgnoredThen(path, hook_info[n].symbol)
      BY <2>6, <3>3, <3>5, VerdictSound
    <3> QED
      BY <2>2, <2>5, <2>7, <3>6 DEF IgnoredThen, Concerns, n, path
  <2> QED
    BY <2>2, <2>3, <2>4, <2>5, <2>6, <2>7 DEF IgnoreInv
<1>5. CASE Fault(t)
  BY <1>5, RestIgnore DEF Fault, ScanRest
<1>6. CASE EndScan(t) \/ Scanned(t)
  <2>1. pc[t] \in ScanSteps \ {"sync"}
    BY <1>6 DEF EndScan, Scanned, At, ScanSteps
  <2>2. pc'[t] \notin LineSteps /\ \A u \in Threads \ {t} : pc'[u] = pc[u]
    BY <1>1, <1>6 DEF EndScan, Scanned
  <2>3. \A u \in Threads : pc'[u] \notin LineSteps
    BY <2>1, <2>2, OneInScan DEF ScanSteps
  <2> QED
    BY <2>3 DEF IgnoreInv
<1> QED
  BY <1>2, <1>3, <1>4, <1>5, <1>6 DEF ScanStep, LineStep

LEMMA InitIgnore == Init => IgnoreInv
BY DEF Init, IgnoreInv, LineSteps

LEMMA NextIgnore == TypeInv /\ IgnoreInv /\ [Next]_vars => IgnoreInv'
<1> SUFFICES ASSUME TypeInv, IgnoreInv, [Next]_vars PROVE IgnoreInv'
  OBVIOUS
<1>1. ASSUME NEW t \in Callers, NewCall(t) \/ CallStep(t) \/ ScanStep(t) PROVE IgnoreInv'
  BY <1>1, CallIgnore, ScanIgnore DEF Threads
<1>2. ASSUME NEW r \in Refreshers, ScanStep(r) PROVE IgnoreInv'
  BY <1>2, ScanIgnore DEF Threads
<1>3. ASSUME NEW r \in Refreshers, While(r) \/ TakeTask(r) \/ SpuriousWake(r) PROVE IgnoreInv'
  <2>1. UNCHANGED Rest
    BY <1>3 DEF While, TakeTask, SpuriousWake
  <2>2. \A t \in Threads : pc'[t] \in LineSteps => pc'[t] = pc[t]
    BY <1>3 DEF While, TakeTask, SpuriousWake, Goto, TypeInv, LineSteps
  <2> QED
    BY <2>1, <2>2, RestKeeps, RestIgnore
<1>4. ASSUME NEW b \in Bases, Load(b) \/ Unload(b) PROVE IgnoreInv'
  BY <1>4, RestIgnore DEF Load, Unload, Outside, lists
<1>5. CASE UNCHANGED vars
  BY <1>5, RestIgnore DEF vars, lists
<1> QED
  BY <1>1, <1>2, <1>3, <1>4, <1>5 DEF Next

LEMMA NextWritten == TypeInv /\ IgnoreInv /\ [Next]_vars => [NotIgnoredWritten]_vars
<1> SUFFICES ASSUME TypeInv, IgnoreInv, Next PROVE NotIgnoredWritten
  OBVIOUS
<1>1. hooked' \subseteq hooked => NotIgnoredWritten
  BY DEF NotIgnoredWritten
<1>2. ASSUME NEW t \in Threads, ScanStep(t) PROVE NotIgnoredWritten
  <2>1. CASE WriteSlots(t)
    <3>1. pc[t] = "write" /\ ~IgnoredThen(scan.line.path, hook_info[scan.hook].symbol)
      BY <2>1 DEF WriteSlots, At, IgnoreInv
    <3>2. ~Stale => hooked' \subseteq hooked \cup {<<scan.at, hook_info[scan.hook].symbol>>}
      BY <2>1 DEF WriteSlots
    <3> HIDE DEF Stale
    <3> QED
      BY <3>1, <3>2 DEF NotIgnoredWritten
  <2>2. CASE ~WriteSlots(t)
    <3>1. hooked' = hooked
      BY <1>2, <2>2
         DEF ScanStep, BeginScan, ReadLine, CheckPath, Fault, NotElf, KnownElf, NewElf, InitElf,
             NextHook, EndScan, Scanned, Rest
    <3> QED
      BY <1>1, <3>1
  <2> QED
    BY <2>1, <2>2
<1>3. ASSUME NEW t \in Callers, NewCall(t) \/ CallStep(t) PROVE NotIgnoredWritten
  <2>1. hooked' = hooked
    BY <1>3 DEF NewCall, Register, Ignore, Refresh, Clear, CallStep, RegisterInsert, IgnoreInsert,
                InitOnce, InitLocked, InitSet, InitCheck, InitAsyncOnce, InitAsyncLocked,
                InitAsyncSet, InitAsyncCheck, Request, ClearBegin, ClearStop, ClearJoin,
                ClearFlags, ClearFlag, ClearLock, ClearLists, Rest
  <2> QED
    BY <1>1, <2>1
<1>4. ASSUME NEW r \in Refreshers, While(r) \/ TakeTask(r) \/ SpuriousWake(r)
      PROVE  NotIgnoredWritten
  BY <1>1, <1>4 DEF While, TakeTask, SpuriousWake, Rest
<1>5. ASSUME NEW b \in Bases, Load(b) \/ Unload(b) PROVE NotIgnoredWritten
  BY <1>1, <1>5 DEF Load, Unload, Fresh
<1> QED
  BY <1>2, <1>3, <1>4, <1>5 DEF Next, Threads

\* An ignore that was in the list when the line of an ELF was read is respected: no
\* slot of the symbol it names, by itself or with all others, is written in that ELF.
THEOREM IgnoredStaysUnhooked == Spec => IgnoredNotHooked
<1>1. Spec => [](TypeInv /\ IgnoreInv)
  BY InitType, NextType, InitIgnore, NextIgnore, PTL DEF Spec
<1>2. [][NotIgnoredWritten]_vars => IgnoredNotHooked
  BY PTL DEF IgnoredNotHooked, NotIgnoredWritten
<1> QED
  BY <1>1, <1>2, NextWritten, PTL DEF Spec

-----------------------------------------------------------------------------
(***************************************************************************)
(* clear and the thread of the library.                                    *)
(***************************************************************************)
HoldSteps == {"init_locked", "init_set", "async_locked", "async_set", "clear_lists"}
ClearedSteps == {"uninit", "uninit_ok", "uninited", "clear_lock", "clear_lists"}

\* Who is in a critical section that takes several steps holds the mutex.
MutexHeld == \A t \in Callers : pc[t] \in HoldSteps => mutex = t
\* Clear is called by one thread and is alone,
Alone ==
    /\ \A t \in Callers : pc[t] \in ClearSteps => t = Clearer
    /\ Clearing => \A t \in Callers \ {Clearer} : pc[t] = "idle"
\* there is one thread at most, its id is known, and the flags say so unless the
\* caller who started it is about to set them,
OneThread ==
    \A r \in Refreshers : pc[r] # "none" =>
        /\ tid = r /\ flag["async_inited"]
        /\ flag["async_init_ok"] \/ \E t \in Callers : pc[t] = "async_set"
\* and when clear has got past the join there is none.
Gone == pc[Clearer] \in ClearedSteps => \A r \in Refreshers : pc[r] = "none"

ThreadInv == ~setting.overlap => MutexHeld /\ Alone /\ OneThread /\ Gone

LEMMA InitThread == Init => ThreadInv
<1> SUFFICES ASSUME Init PROVE ThreadInv
  OBVIOUS
<1>1. /\ \A t \in Callers : pc[t] = "idle"
      /\ \A r \in Refreshers : pc[r] = "none"
  BY ThreadsAssumption DEF Init, Threads
<1> QED
  BY <1>1, ClearerAssumption
  DEF ThreadInv, MutexHeld, HoldSteps, Alone, Clearing, ClearSteps, OneThread, Gone, ClearedSteps

\* A step that no other caller sees, and which starts no thread.
LEMMA ThreadKept ==
    ASSUME TypeInv, ThreadInv, ~setting.overlap, NEW t \in Callers,
           \A u \in Callers \ {t} : pc'[u] = pc[u],
           \A r \in Refreshers : pc'[r] # "none" => pc[r] # "none",
           UNCHANGED tid,
           \/ /\ flag["async_inited"] => flag'["async_inited"]
              /\ flag["async_init_ok"] => flag'["async_init_ok"]
              /\ pc[t] = "async_set" => flag'["async_init_ok"]
           \/ \A r \in Refreshers : pc'[r] = "none",
           pc[t] \in HoldSteps \/ pc'[t] \in HoldSteps => mutex \in {t, None},
           mutex' # mutex => mutex \in {t, None},
           pc'[t] \in HoldSteps => mutex' = t,
           pc'[t] # "idle" /\ t # Clearer => pc[t] # "idle" \/ ~Clearing,
           pc'[t] \in ClearSteps => pc[t] \in ClearSteps \/ t = Clearer,
           t = Clearer /\ pc'[t] \in ClearSteps => pc[t] \in ClearSteps \/ \A u \in Callers : pc[u] = "idle",
           t = Clearer /\ pc'[t] \in ClearedSteps =>
                pc[t] \in ClearedSteps \/ \A r \in Refreshers : pc'[r] = "none"
    PROVE  MutexHeld' /\ Alone' /\ OneThread' /\ Gone'
<1> USE DEF ThreadInv
<1>1. MutexHeld'
  <2> SUFFICES ASSUME NEW u \in Callers, pc'[u] \in HoldSteps PROVE mutex' = u
    BY DEF MutexHeld
  <2>1. CASE u = t
    BY <2>1
  <2>2. CASE u # t
    <3>1. mutex = u
      BY <2>2 DEF MutexHeld
    <3> QED
      BY <2>2, <3>1, ThreadsAssumption
  <2> QED
    BY <2>1, <2>2
<1>2. Alone'
  <2>0. \A u \in Callers : pc'[u] \in ClearSteps => u = Clearer
    BY DEF Alone
  <2> SUFFICES ASSUME Clearing', NEW u \in Callers \ {Clearer} PROVE pc'[u] = "idle"
    BY <2>0 DEF Alone
  <2>1. CASE t = Clearer
    BY <2>1 DEF Alone, Clearing
  <2>2. CASE t # Clearer
    BY <2>2, ClearerAssumption DEF Alone, Clearing
  <2> QED
    BY <2>1, <2>2
<1>3. OneThread'
  BY DEF OneThread
<1>4. Gone'
  <2>1. CASE t = Clearer
    BY <2>1 DEF Gone
  <2>2. CASE t # Clearer
    BY <2>2, ClearerAssumption DEF Gone
  <2> QED
    BY <2>1, <2>2
<1> QED
  BY <1>1, <1>2, <1>3, <1>4

\* What a step with one Goto does to pc.
LEMMA GotoOthers ==
    ASSUME TypeInv, NEW t \in Callers, NEW step \in Steps, Goto(t, step)
    PROVE  /\ pc'[t] = step
           /\ \A u \in Callers \ {t} : pc'[u] = pc[u]
           /\ \A r \in Refreshers : pc'[r] = pc[r]
<1>1. t \in Threads
  BY DEF Threads
<1> QED
  BY <1>1, GotoType, ThreadsAssumption DEF Threads

\* All steps of callers but those that start or end a thread or reset the flag
\* that says one was started.
LEMMA CallerThread ==
    ASSUME TypeInv, ThreadInv, ~setting.overlap, NEW t \in Callers,
           \/ NewCall(t)
           \/ RegisterInsert(t) \/ IgnoreInsert(t)
           \/ InitOnce(t) \/ InitLocked(t) \/ InitSet(t) \/ InitCheck(t)
           \/ InitAsyncOnce(t) \/ InitAsyncCheck(t) \/ Request(t)
           \/ ClearBegin(t) \/ ClearStop(t) \/ ClearLock(t) \/ ClearLists(t)
    PROVE  MutexHeld' /\ Alone' /\ OneThread' /\ Gone'
<1> USE DEF locks, Steps, CallerSteps, ClearSteps, ScanSteps, HoldSteps, ClearedSteps, At
<1>0. /\ mutex = t \/ pc[t] \notin HoldSteps
      /\ t = Clearer /\ pc[t] \in ClearedSteps => \A r \in Refreshers : pc[r] = "none"
      /\ flag \in [Flags -> BOOLEAN]
  BY ClearerAssumption DEF ThreadInv, MutexHeld, Gone, TypeInv, TypeOK
<1>1. CASE Register(t)
  BY <1>0, <1>1, GotoOthers, ThreadKept DEF Register, Call, Set, Reset, Flags
<1>2. CASE Ignore(t)
  BY <1>0, <1>2, GotoOthers, ThreadKept DEF Ignore, Call, Set, Reset, Flags
<1>3. CASE Refresh(t)
  BY <1>0, <1>3, GotoOthers, ThreadKept DEF Refresh, Call, Set, Reset, Flags
<1>4. CASE RegisterInsert(t)
  BY <1>0, <1>4, GotoOthers, ThreadKept DEF RegisterInsert, InMutex, Set, Reset, Flags
<1>5. CASE IgnoreInsert(t)
  BY <1>0, <1>5, GotoOthers, ThreadKept DEF IgnoreInsert, InMutex, Set, Reset, Flags
<1>6. CASE InitOnce(t)
  BY <1>0, <1>6, GotoOthers, ThreadKept DEF InitOnce, Lock, Set, Reset, Flags
<1>7. CASE InitLocked(t)
  BY <1>0, <1>7, GotoOthers, ThreadKept DEF InitLocked, Unlock, Set, Reset, Flags
<1>8. CASE InitSet(t)
  BY <1>0, <1>8, GotoOthers, ThreadKept DEF InitSet, Unlock, Set, Reset, Flags
<1>9. CASE InitCheck(t)
  BY <1>0, <1>9, GotoOthers, ThreadKept DEF InitCheck, Set, Reset, Flags
<1>10. CASE InitAsyncOnce(t)
  BY <1>0, <1>10, GotoOthers, ThreadKept DEF InitAsyncOnce, Lock, Set, Reset, Flags
<1>11. CASE InitAsyncCheck(t)
  BY <1>0, <1>11, GotoOthers, ThreadKept DEF InitAsyncCheck, Set, Reset, Flags
<1>12. CASE Clear(t)
  BY <1>0, <1>12, GotoOthers, ThreadKept DEF Clear, Call, Set, Reset, Flags
<1>13. CASE ClearBegin(t)
  <2>1. t = Clearer => \A u \in Callers : pc[u] # "async_set"
    BY <1>13 DEF ClearBegin, ThreadInv, Alone, Clearing
  <2>2. t = Clearer /\ ~flag["async_init_ok"] => \A r \in Refreshers : pc[r] = "none"
    BY <2>1 DEF ThreadInv, OneThread
  <2> QED
    BY <1>0, <1>13, <2>2, GotoOthers, ThreadKept DEF ClearBegin
<1>14. CASE ClearLock(t)
  BY <1>0, <1>14, GotoOthers, ThreadKept DEF ClearLock, Lock, Set, Reset, Flags
<1>15. CASE ClearLists(t)
  BY <1>0, <1>15, GotoOthers, ThreadKept DEF ClearLists, Unlock, Set, Reset, Flags
<1>16. CASE Request(t)
  BY <1>0, <1>16, SignalType, ThreadKept DEF Request, InMutex, Set, Flags
<1>17. CASE ClearStop(t)
  BY <1>0, <1>17, SignalType, ThreadKept DEF ClearStop, InMutex, Reset, Flags
<1> QED
  BY <1>1, <1>2, <1>3, <1>4, <1>5, <1>6, <1>7, <1>8, <1>9, <1>10, <1>11, <1>12, <1>13, <1>14, <1>15, <1>16, <1>17 DEF NewCall

\* A thread is started: there was none, and clear is not running.
LEMMA StartThread ==
    ASSUME TypeInv, ThreadInv, ~setting.overlap, NEW t \in Callers, pc[t] = "async_locked",
           ~flag["async_inited"], NEW r \in Refreshers,
           pc' = [pc EXCEPT ![t] = "async_set", ![r] = "while"], tid' = r,
           flag' = [flag EXCEPT !["async_inited"] = TRUE, !["running"] = TRUE],
           UNCHANGED mutex
    PROVE  MutexHeld' /\ Alone' /\ OneThread' /\ Gone'
<1>1. \A u \in Refreshers : pc[u] = "none"
  BY DEF ThreadInv, OneThread
<1>2. t \in Threads /\ r \in Threads /\ t \notin Refreshers /\ r \notin Callers
  BY ThreadsAssumption DEF Threads
<1>3. /\ pc'[t] = "async_set" /\ pc'[r] = "while"
      /\ \A u \in Callers \ {t} : pc'[u] = pc[u]
      /\ \A u \in Refreshers \ {r} : pc'[u] = "none"
  BY <1>1, <1>2 DEF TypeInv, Threads
<1>4. ~Clearing /\ ~Clearing'
  BY <1>3, ClearerAssumption DEF ThreadInv, Alone, Clearing, ClearSteps
<1>5. MutexHeld'
  BY <1>3 DEF MutexHeld, ThreadInv, HoldSteps
<1>6. OneThread'
  BY <1>3 DEF OneThread, TypeInv, TypeOK, Flags
<1>7. Alone' /\ Gone'
  BY <1>3, <1>4 DEF ThreadInv, Alone, Gone, Clearing, ClearSteps, ClearedSteps
<1> QED
  BY <1>5, <1>6, <1>7

LEMMA ThreadChanges ==
    ASSUME TypeInv, ThreadInv, ~setting.overlap, NEW t \in Callers,
           InitAsyncLocked(t) \/ InitAsyncSet(t) \/ ClearJoin(t) \/ ClearFlags(t)
    PROVE  MutexHeld' /\ Alone' /\ OneThread' /\ Gone'
<1> USE DEF locks, Steps, CallerSteps, ClearSteps, ScanSteps, HoldSteps, ClearedSteps, At
<1>0. /\ mutex = t \/ pc[t] \notin HoldSteps
      /\ t = Clearer /\ pc[t] \in ClearedSteps => \A r \in Refreshers : pc[r] = "none"
      /\ flag \in [Flags -> BOOLEAN]
  BY ClearerAssumption DEF ThreadInv, MutexHeld, Gone, TypeInv, TypeOK
<1>1. CASE InitAsyncLocked(t)
  <2>1. CASE flag["async_inited"]
    BY <1>0, <1>1, <2>1, GotoOthers, ThreadKept DEF InitAsyncLocked, Unlock
  <2>2. CASE tid' = tid /\ ~flag["async_inited"] /\ Goto(t, "async_check")
    BY <1>0, <1>1, <2>2, GotoOthers, ThreadKept DEF InitAsyncLocked, Unlock, Flags
  <2>3. ASSUME NEW r \in Refreshers, ~flag["async_inited"],
               pc' = [pc EXCEPT ![t] = "async_set", ![r] = "while"], tid' = r,
               flag' = [flag EXCEPT !["async_inited"] = TRUE, !["running"] = TRUE],
               UNCHANGED locks
        PROVE  MutexHeld' /\ Alone' /\ OneThread' /\ Gone'
    BY <1>1, <2>3, StartThread DEF InitAsyncLocked
  <2> QED
    BY <1>1, <2>1, <2>2, <2>3 DEF InitAsyncLocked
<1>2. CASE InitAsyncSet(t)
  BY <1>0, <1>2, GotoOthers, ThreadKept DEF InitAsyncSet, Set, Unlock, Flags
<1>3. CASE ClearJoin(t)
  <2>1. t \notin Refreshers /\ tid \notin Callers
    BY ThreadsAssumption DEF TypeInv, TypeOK, Threads
  <2>2. pc'[t] = "uninit" /\ \A u \in Callers \ {t} : pc'[u] = pc[u]
    BY <1>3, <2>1 DEF ClearJoin, TypeInv, Threads
  <2>3. \A r \in Refreshers : pc'[r] = "none"
    BY <1>3, <2>1 DEF ClearJoin, TypeInv, Threads, ThreadInv, OneThread
  <2> QED
    BY <1>0, <1>3, <2>2, <2>3, ThreadKept DEF ClearJoin
<1>4. CASE ClearFlags(t)
  <2>1. PICK step \in {"uninit", "uninit_ok", "uninited"}, f \in Flags,
             next \in ClearedSteps \ {"uninit", "clear_lists"} : ClearFlag(t, step, f, next)
    BY <1>4 DEF ClearFlags, Flags
  <2>2. t = Clearer
    BY <2>1 DEF ClearFlag, ThreadInv, Alone
  <2> QED
    BY <1>0, <2>1, <2>2, GotoOthers, ThreadKept DEF ClearFlag
<1> QED
  BY <1>1, <1>2, <1>3, <1>4

\* A step that moves a thread within a refresh, or the thread of the library
\* that is there, leaves the rest as it is.
LEMMA OthersThread ==
    ASSUME TypeInv, ThreadInv, ~setting.overlap, NEW t \in Threads, NEW step \in Steps,
           Goto(t, step), pc[t] \notin ClearSteps \cup HoldSteps \cup {"idle", "none"},
           step \notin ClearSteps \cup HoldSteps \cup {"none"},
           UNCHANGED <<mutex, tid, setting>>,
           flag'["async_inited"] = flag["async_inited"],
           flag'["async_init_ok"] = flag["async_init_ok"]
    PROVE  MutexHeld' /\ Alone' /\ OneThread' /\ Gone'
<1>1. /\ pc'[t] = step /\ \A u \in Threads \ {t} : pc'[u] = pc[u]
  BY GotoType
<1>2. \A u \in Callers : pc'[u] = pc[u] \/ u = t
  BY <1>1 DEF Threads
<1>3. \A u \in Refreshers : pc'[u] # "none" => pc[u] # "none"
  BY <1>1 DEF Threads
<1>4. MutexHeld'
  BY <1>1, <1>2 DEF MutexHeld, ThreadInv
<1>5. Clearing' => Clearing
  BY <1>1, <1>2, ClearerAssumption DEF Clearing
<1>6. Alone'
  BY <1>1, <1>2, <1>5 DEF Alone, ThreadInv, Clearing
<1>7. OneThread'
  BY <1>1, <1>2, <1>3 DEF OneThread, ThreadInv, HoldSteps
<1>8. Gone'
  BY <1>1, <1>2, <1>3, ClearerAssumption DEF Gone, ThreadInv, ClearedSteps, ClearSteps
<1> QED
  BY <1>4, <1>6, <1>7, <1>8

LEMMA NextThread == TypeInv /\ ThreadInv /\ [Next]_vars => ThreadInv'
<1> SUFFICES ASSUME TypeInv, ThreadInv, [Next]_vars, ~setting'.overlap
             PROVE  MutexHeld' /\ Alone' /\ OneThread' /\ Gone'
  BY DEF ThreadInv
<1> DEFINE Goal == MutexHeld' /\ Alone' /\ OneThread' /\ Gone'
<1>1. ASSUME UNCHANGED <<pc, mutex, tid, flag>>, UNCHANGED setting PROVE Goal
  BY <1>1 DEF ThreadInv, MutexHeld, Alone, Clearing, OneThread, Gone
<1>2. ASSUME NEW t \in Callers, NewCall(t) \/ CallStep(t) PROVE Goal
  <2>1. setting' = setting
    BY <1>2 DEF NewCall, Register, Ignore, Refresh, Clear, CallStep, RegisterInsert, IgnoreInsert,
                InitOnce, InitLocked, InitSet, InitCheck, InitAsyncOnce, InitAsyncLocked,
                InitAsyncSet, InitAsyncCheck, Request, ClearBegin, ClearStop, ClearJoin,
                ClearFlags, ClearFlag, ClearLock, ClearLists, Rest
  <2> QED
    BY <1>2, <2>1, CallerThread, ThreadChanges DEF CallStep
<1>3. ASSUME NEW t \in Threads, ScanStep(t) PROVE Goal
  <2>1. CASE Fault(t)
    BY <1>1, <2>1 DEF Fault, ScanRest, locks
  <2>2. CASE ~Fault(t)
    <3>1. /\ pc[t] \in ScanSteps
          /\ \E step \in ScanSteps \cup {"idle", "while"} : Goto(t, step)
          /\ UNCHANGED <<mutex, tid, flag, setting>>
      <4>1. CASE LineStep(t)
        BY <4>1, LineStepWorks DEF Works, Work, LineSteps, ScanSteps, ScanRest, locks
      <4>2. CASE BeginScan(t) \/ ReadLine(t) \/ EndScan(t) \/ Scanned(t)
        BY <4>2 DEF BeginScan, ReadLine, EndScan, Scanned, At, ScanSteps, Rest, locks
      <4> QED
        BY <1>3, <2>2, <4>1, <4>2 DEF ScanStep, LineStep
    <3> QED
      BY <3>1, OthersThread DEF Steps, CallerSteps, ScanSteps, ClearSteps, HoldSteps
  <2> QED
    BY <2>1, <2>2
<1>4. ASSUME NEW r \in Refreshers, While(r) \/ TakeTask(r) \/ SpuriousWake(r) PROVE Goal
  <2>1. /\ pc[r] \in {"while", "lock", "wait"}
        /\ \E step \in {"lock", "done", "wait", "sync"} : Goto(r, step)
        /\ UNCHANGED <<mutex, tid, setting>>
    BY <1>4 DEF While, TakeTask, SpuriousWake, At, Rest, InMutex, locks
  <2>2. /\ flag'["async_inited"] = flag["async_inited"]
        /\ flag'["async_init_ok"] = flag["async_init_ok"]
    BY <1>4 DEF While, TakeTask, SpuriousWake, Reset, Flags, TypeInv, TypeOK
  <2> QED
    BY <2>1, <2>2, OthersThread
    DEF Threads, Steps, CallerSteps, ScanSteps, ClearSteps, HoldSteps
<1>5. ASSUME NEW b \in Bases, Load(b) \/ Unload(b) PROVE Goal
  BY <1>1, <1>5 DEF Load, Unload, Outside, locks
<1>6. CASE UNCHANGED vars
  BY <1>1, <1>6 DEF vars, locks
<1> QED
  BY <1>2, <1>3, <1>4, <1>5, <1>6 DEF Next, Threads

\* When clear has joined, no thread of the library is left that could refresh
\* with the lists of the next registrations, unless clear ran into another call.
THEOREM ClearLeavesNoThread == Spec => []NoThreadAfterClear
<1>1. ThreadInv => NoThreadAfterClear
  BY DEF ThreadInv, Gone, ClearedSteps, NoThreadAfterClear
<1> QED
  BY <1>1, InitType, NextType, InitThread, NextThread, PTL DEF Spec

-----------------------------------------------------------------------------
(***************************************************************************)
(* What has a record is hooked.                                            *)
(***************************************************************************)

\* What a tree records, the line that is worked on and what is mapped has been
\* mapped where they say.
Known(tree) == \A p \in Paths : tree[p] # 0 => <<p, tree[p]>> \in had
Seen ==
    /\ Known(map_info) /\ Known(scan.fresh)
    /\ \A t \in Threads : pc[t] \in LineSteps => <<scan.line.path, scan.at>> \in had
    /\ \A b \in Bases : maps[b] # None => <<maps[b].path, b>> \in had

\* The new tree is empty unless a refresh is filling it, and no hook has been
\* reached before the ELF of a line is read.
Quiet ==
    /\ refresh_mutex = None => scan = NoScan
    /\ \A t \in Threads : pc[t] = "scanned" => scan = NoScan
    /\ \A t \in Threads : pc[t] \in {"scan", "line", "header", "elf"} => scan.hook = 0

\* The ELF of x as the loader maps it at an address for the first time.
First(x) == [path |-> x, elf |-> TRUE, again |-> FALSE]

\* The ELFs of these paths with a record in the tree have their slots replaced,
Replaced(tree, paths) ==
    \A x \in paths, s \in Symbols :
        (tree[x] # 0 /\ maps[tree[x]] = First(x) /\ Due(x, s)) => <<tree[x], s>> \in hooked

\* in the new tree all but the one that is worked on,
InElf(t) == pc[t] \in {"elf", "hook", "write"}
Left == {x \in Paths : \A t \in Threads : InElf(t) => x # scan.line.path}

\* and that one has as far as its hooks have been passed.
Whole(x) == maps[scan.at] = First(x) /\ Untouched(x)
Passed(t, n) == n < scan.hook \/ (n = scan.hook /\ pc[t] = "hook")
Advanced(t, x) ==
    /\ scan.elf = x
    /\ \A n \in Matching(x) : Passed(t, n) => <<scan.at, hook_info[n].symbol>> \in hooked
Progress ==
    \A t \in Threads :
        /\ InElf(t) => scan.fresh[scan.line.path] = scan.at
        /\ pc[t] \in {"hook", "write"} /\ Whole(scan.line.path) => Advanced(t, scan.line.path)

AllReplaced == Replaced(map_info, Paths) /\ Replaced(scan.fresh, Left) /\ Progress
HookInv == Seen /\ Quiet /\ (~late /\ ~setting.fails => AllReplaced)

\* With empty trees there is nothing to hook.
LEMMA NoTreeReplaced ==
    /\ NoScan.fresh = NoTree /\ NoScan.hook = 0
    /\ Known(NoTree)
    /\ \A p \in Paths : NoTree[p] = 0
BY DEF NoTree, NoScan, Known

LEMMA InitHook == Init => HookInv
<1> SUFFICES ASSUME Init PROVE HookInv
  OBVIOUS
<1>1. \A t \in Threads : pc[t] \in {"idle", "none"}
  BY DEF Init
<1>2. \A p \in Paths : map_info[p] = 0 /\ scan.fresh[p] = 0
  BY NoTreeReplaced DEF Init, NoTree
<1>3. Seen
  BY <1>1, <1>2 DEF Seen, Known, Init, LineSteps
<1>4. Quiet
  BY <1>1 DEF Quiet, Init
<1>5. AllReplaced
  BY <1>1, <1>2 DEF AllReplaced, Replaced, Left, Progress, InElf
<1> QED
  BY <1>3, <1>4, <1>5 DEF HookInv

\* What the lists say is due does not change while they do not.
LEMMA DueKept ==
    ASSUME UNCHANGED <<hook_info, ignore_info>>, NEW x
    PROVE  /\ Untouched(x)' = Untouched(x) /\ Matching(x)' = Matching(x)
           /\ \A s : Due(x, s)' = Due(x, s)
BY DEF Due, Untouched, Matching, Concerns

\* Steps that touch neither lists, trees nor what is mapped, and threads that do not
\* move on within a line.
LEMMA RestHook ==
    ASSUME TypeInv, HookInv,
           UNCHANGED <<hook_info, ignore_info, late, map_info, scan, maps, had, hooked, setting>>,
           refresh_mutex' = refresh_mutex \/ scan = NoScan,
           \A t \in Threads :
              pc[t] \in LineSteps \/ pc'[t] \in ScanSteps \ {"sync"} => pc'[t] = pc[t]
    PROVE  HookInv'
<1>0. \A t \in Threads : InElf(t)' = InElf(t)
  BY DEF InElf, LineSteps, ScanSteps
<1>1. Seen'
  BY DEF HookInv, Seen, Known, LineSteps, ScanSteps
<1>2. Quiet'
  BY DEF HookInv, Quiet, ScanSteps
<1>3. Left' = Left
  BY <1>0 DEF Left
<1>4. ASSUME AllReplaced PROVE AllReplaced'
  <2>1. Replaced(map_info, Paths)' /\ Replaced(scan.fresh, Left)'
    BY <1>3, <1>4, DueKept DEF AllReplaced, Replaced
  <2>2. Progress'
    <3> SUFFICES ASSUME NEW t \in Threads
                 PROVE  /\ InElf(t)' => scan.fresh[scan.line.path] = scan.at
                        /\ pc'[t] \in {"hook", "write"} /\ Whole(scan.line.path)' =>
                              Advanced(t, scan.line.path)'
      BY DEF Progress
    <3>1. InElf(t)' => scan.fresh[scan.line.path] = scan.at
      BY <1>0, <1>4 DEF AllReplaced, Progress
    <3>2. ASSUME pc'[t] \in {"hook", "write"}, Whole(scan.line.path)'
          PROVE  Advanced(t, scan.line.path)'
      <4>1. pc'[t] = pc[t] /\ Whole(scan.line.path)
        BY <3>2, DueKept DEF Whole, ScanSteps
      <4>2. Advanced(t, scan.line.path)
        BY <1>4, <3>2, <4>1 DEF AllReplaced, Progress
      <4> QED
        BY <4>1, <4>2, DueKept DEF Advanced, Passed
    <3> QED
      BY <3>1, <3>2
  <2> QED
    BY <2>1, <2>2 DEF AllReplaced
<1> QED
  BY <1>1, <1>2, <1>4 DEF HookInv

\* Nor does one take a thread away from a line.
LEMMA OutsideLine ==
    ASSUME TypeInv, NEW t \in Callers, NewCall(t) \/ CallStep(t)
    PROVE  \A u \in Threads : pc[u] \in LineSteps => pc'[u] = pc[u]
<1> USE DEF CallerSteps, ClearSteps, Steps, LineSteps
<1>1. CASE Request(t) \/ ClearStop(t)
  BY <1>1, SignalType DEF Request, ClearStop, Threads, At
<1>2. CASE InitAsyncLocked(t)
  <2>1. CASE Goto(t, "async_check")
    BY <1>2, <2>1, GotoType DEF Threads, InitAsyncLocked, At
  <2>2. CASE \E r \in Refreshers : pc[r] = "none" /\ pc' = [pc EXCEPT ![t] = "async_set", ![r] = "while"]
    BY <1>2, <2>2 DEF TypeInv, InitAsyncLocked, At
  <2> QED
    BY <1>2, <2>1, <2>2 DEF InitAsyncLocked
<1>3. CASE ClearJoin(t)
  BY <1>3 DEF ClearJoin, TypeInv, At
<1>4. CASE ~(Request(t) \/ ClearStop(t) \/ InitAsyncLocked(t) \/ ClearJoin(t))
  <2>1. pc[t] \notin LineSteps /\ \E step \in CallerSteps \cup {"sync"} : Goto(t, step)
    BY <1>4 DEF NewCall, Register, Ignore, Refresh, Clear, CallStep, RegisterInsert, IgnoreInsert,
                InitOnce, InitLocked, InitSet, InitCheck, InitAsyncOnce, InitAsyncSet,
                InitAsyncCheck, ClearBegin, ClearFlags, ClearFlag, ClearLock, ClearLists, Call, At
  <2> QED
    BY <2>1 DEF Threads, Goto, TypeInv
<1> QED
  BY <1>1, <1>2, <1>3, <1>4

LEMMA CallHook ==
    ASSUME TypeInv, HookInv, NEW t \in Callers, NewCall(t) \/ CallStep(t)
    PROVE  HookInv'
<1> USE DEF locks, lists, loader
<1>1. \A u \in Threads :
         pc[u] \in LineSteps \/ pc'[u] \in ScanSteps \ {"sync"} => pc'[u] = pc[u]
  BY OutsideScan, OutsideLine
<1>2. refresh_mutex = None => /\ \A u \in Threads : pc'[u] \notin ScanSteps \ {"sync"}
                              /\ scan = NoScan
  BY <1>1, ThreadsAssumption DEF TypeInv, UnderRefreshMutex, Threads, HookInv, Quiet
<1>3. ASSUME UNCHANGED <<refresh_mutex, scan, maps, had>>, map_info' \in {map_info, NoTree}
      PROVE  Seen' /\ Quiet'
  <2>1. Known(map_info)' /\ Known(scan.fresh)'
    BY <1>3, NoTreeReplaced DEF HookInv, Seen, Known
  <2>2. Seen'
    BY <1>1, <1>3, <2>1 DEF HookInv, Seen, LineSteps, ScanSteps
  <2>3. Quiet'
    BY <1>1, <1>3 DEF HookInv, Quiet, ScanSteps
  <2> QED
    BY <2>2, <2>3
<1>4. ASSUME refresh_mutex = None, map_info' = NoTree, scan' = NoScan PROVE AllReplaced'
  <2>1. \A u \in Threads : pc'[u] \notin {"elf", "hook", "write"}
    BY <1>2, <1>4 DEF ScanSteps
  <2>2. Progress'
    BY <2>1 DEF Progress, InElf
  <2>3. \A x \in Paths : map_info'[x] = 0 /\ scan'.fresh[x] = 0
    BY <1>4, NoTreeReplaced
  <2>4. Replaced(map_info, Paths)' /\ Replaced(scan.fresh, Left)'
    BY <2>3 DEF Replaced, Left
  <2> QED
    BY <2>2, <2>4 DEF AllReplaced
<1>5. CASE RegisterInsert(t) \/ IgnoreInsert(t)
  <2>1. /\ UNCHANGED <<mutex, refresh_mutex, map_info, scan, maps, had, hooked, setting>>
        /\ late' = (late \/ Recorded)
    BY <1>5 DEF RegisterInsert, IgnoreInsert, InMutex
  <2>2. ~late' => refresh_mutex = None /\ map_info' = NoTree /\ scan' = NoScan
    BY <1>2, <2>1 DEF Recorded
  <2> QED
    BY <1>3, <1>4, <2>1, <2>2 DEF HookInv
<1>6. CASE ClearLists(t)
  <2>1. /\ UNCHANGED <<refresh_mutex, scan, maps, had, hooked, setting>> /\ refresh_mutex = None
        /\ map_info' = NoTree
    BY <1>6 DEF ClearLists, Unlock, Emptied
  <2>2. scan' = NoScan
    BY <1>2, <2>1
  <2> QED
    BY <1>3, <1>4, <2>1, <2>2 DEF HookInv
<1>7. CASE Register(t) \/ Ignore(t)
  <2>1. UNCHANGED <<refresh_mutex, hook_info, ignore_info, late, map_info, scan, maps, had, hooked,
                    setting>>
    BY <1>7 DEF Register, Ignore
  <2> QED
    BY <1>1, <2>1, RestHook
<1>8. CASE ~(RegisterInsert(t) \/ IgnoreInsert(t) \/ ClearLists(t) \/ Register(t) \/ Ignore(t))
  <2>1. UNCHANGED Rest /\ refresh_mutex' = refresh_mutex
    BY <1>8 DEF NewCall, Refresh, Clear, CallStep, InitOnce, InitLocked, InitSet, InitCheck,
                InitAsyncOnce, InitAsyncLocked, InitAsyncSet, InitAsyncCheck, Request, ClearBegin,
                ClearStop, ClearJoin, ClearFlags, ClearFlag, ClearLock, Lock, Unlock, InMutex
  <2> QED
    BY <1>1, <2>1, RestKeeps, RestHook
<1> QED
  BY <1>5, <1>6, <1>7, <1>8

LEMMA RefresherHook ==
    ASSUME TypeInv, HookInv, NEW r \in Refreshers, While(r) \/ TakeTask(r) \/ SpuriousWake(r)
    PROVE  HookInv'
<1>1. UNCHANGED Rest /\ refresh_mutex' = refresh_mutex
  BY DEF While, TakeTask, SpuriousWake, InMutex, locks
<1>2. \A t \in Threads : pc[t] \in LineSteps \/ pc'[t] \in ScanSteps \ {"sync"} => pc'[t] = pc[t]
  BY DEF While, TakeTask, SpuriousWake, Goto, TypeInv, At, LineSteps, ScanSteps
<1> QED
  BY <1>1, <1>2, RestKeeps, RestHook

\* What is mapped anew is either new at its address, where no tree records it, or
\* marked as mapped again.
LEMMA LoaderHook ==
    ASSUME TypeInv, HookInv, NEW b \in Bases, Load(b) \/ Unload(b)
    PROVE  HookInv'
<1>1. UNCHANGED <<pc, refresh_mutex, hook_info, ignore_info, late, map_info, scan, setting>>
  BY DEF Load, Unload, Outside, locks, lists
<1>2. \A s \in hooked : s[1] # b => s \in hooked'
  BY DEF Load, Unload, Fresh
<1>3. Quiet'
  BY <1>1 DEF HookInv, Quiet
<1>4. Seen'
  <2>1. had \subseteq had' /\ \A c \in Bases \ {b} : maps'[c] = maps[c]
    BY DEF Load, Unload, TypeInv, TypeOK
  <2>2. maps'[b] # None => <<maps'[b].path, b>> \in had'
    <3>1. CASE Unload(b)
      BY <3>1 DEF Unload, TypeInv, TypeOK
    <3>2. CASE Load(b)
      BY <3>2 DEF Load, TypeInv, TypeOK
    <3> QED
      BY <3>1, <3>2
  <2>3. \A c \in Bases : maps'[c] # None => <<maps'[c].path, c>> \in had'
    BY <2>1, <2>2 DEF HookInv, Seen
  <2>4. \A t \in Threads : pc'[t] \in LineSteps => <<scan'.line.path, scan'.at>> \in had'
    BY <1>1, <2>1 DEF HookInv, Seen
  <2>5. Known(map_info)' /\ Known(scan.fresh)'
    BY <1>1, <2>1 DEF HookInv, Seen, Known
  <2> QED
    BY <2>3, <2>4, <2>5 DEF Seen
<1>5. ASSUME NEW p \in Paths, <<p, b>> \in had PROVE maps'[b] # First(p)
  <2>1. CASE Unload(b)
    <3>1. maps'[b] = None
      BY <2>1 DEF Unload, TypeInv, TypeOK
    <3>2. First(p) \in Mapping
      BY DEF Mapping, First
    <3> QED
      BY <3>1, <3>2, NoneAssumption
  <2>2. CASE Load(b)
    <3>1. PICK q \in Paths, elf \in BOOLEAN :
             maps' = [maps EXCEPT ![b] = [path |-> q, elf |-> elf, again |-> <<q, b>> \in had]]
      BY <2>2 DEF Load
    <3>2. maps'[b].path = q /\ (<<q, b>> \in had => maps'[b].again)
      BY <3>1 DEF TypeInv, TypeOK
    <3>3. maps'[b] = First(p) => maps'[b].path = p /\ ~maps'[b].again
      BY DEF First
    <3> QED
      BY <1>5, <3>2, <3>3
  <2> QED
    BY <2>1, <2>2
<1>6. \A c \in Bases \ {b} : maps'[c] = maps[c]
  BY DEF Load, Unload, TypeInv, TypeOK
<1>7. ASSUME NEW p \in Paths, NEW c \in 0..MaxBase, c # 0, <<p, c>> \in had, maps'[c] = First(p)
      PROVE  maps[c] = First(p) /\ \A s : <<c, s>> \in hooked => <<c, s>> \in hooked'
  <2>1. c \in Bases
    BY <1>7, MaxBaseAssumption DEF Bases
  <2>2. c # b
    BY <1>5, <1>7
  <2> QED
    BY <1>2, <1>6, <1>7, <2>1, <2>2
<1>8. ASSUME NEW tree \in [Paths -> 0..MaxBase], Known(tree), NEW paths, paths \subseteq Paths,
             Replaced(tree, paths), NEW p \in paths, NEW s \in Symbols, tree[p] # 0,
             maps'[tree[p]] = First(p), Due(p, s)
      PROVE  <<tree[p], s>> \in hooked'
  <2>1. <<p, tree[p]>> \in had /\ tree[p] \in 0..MaxBase
    BY <1>8 DEF Known
  <2>2. maps[tree[p]] = First(p) /\ (<<tree[p], s>> \in hooked => <<tree[p], s>> \in hooked')
    BY <1>7, <1>8, <2>1
  <2> QED
    BY <1>8, <2>2 DEF Replaced
<1>9. ASSUME AllReplaced PROVE AllReplaced'
  <2>1. Left' = Left /\ Left \subseteq Paths
    BY <1>1 DEF Left, InElf
  <2>2. \A p, s : Due(p, s)' = Due(p, s)
    BY <1>1, DueKept
  <2>3. map_info \in [Paths -> 0..MaxBase] /\ scan.fresh \in [Paths -> 0..MaxBase]
    BY DEF TypeInv, TypeOK
  <2>4. Replaced(map_info, Paths)'
    BY <1>1, <1>8, <1>9, <2>2, <2>3 DEF AllReplaced, HookInv, Seen, Replaced, First
  <2>5. Replaced(scan.fresh, Left)'
    BY <1>1, <1>8, <1>9, <2>1, <2>2, <2>3 DEF AllReplaced, HookInv, Seen, Replaced, First
  <2>6. Progress'
    <3> SUFFICES ASSUME NEW t \in Threads
                 PROVE  /\ InElf(t)' => (scan.fresh[scan.line.path] = scan.at)'
                        /\ pc'[t] \in {"hook", "write"} /\ Whole(scan.line.path)' =>
                              Advanced(t, scan.line.path)'
      BY DEF Progress
    <3>1. InElf(t)' => (scan.fresh[scan.line.path] = scan.at)'
      BY <1>1, <1>9 DEF AllReplaced, Progress, InElf
    <3>2. ASSUME pc'[t] \in {"hook", "write"}, Whole(scan.line.path)'
          PROVE  Advanced(t, scan.line.path)'
      <4>1. /\ scan.line.path \in Paths /\ scan.at \in 0..MaxBase /\ scan.at # 0
            /\ <<scan.line.path, scan.at>> \in had
        <5>1. pc[t] \in LineSteps
          BY <1>1, <3>2 DEF LineSteps
        <5>2. scan.at \in Bases /\ scan.line \in Mapping
          BY <5>1 DEF TypeInv, LineRead
        <5>3. <<scan.line.path, scan.at>> \in had
          BY <5>1 DEF HookInv, Seen
        <5> QED
          BY <5>2, <5>3, MaxBaseAssumption DEF Bases, Mapping
      <4>2. maps'[scan.at] = First(scan.line.path)
        BY <1>1, <3>2 DEF Whole, First
      <4>3. /\ maps[scan.at] = First(scan.line.path)
            /\ \A s : <<scan.at, s>> \in hooked => <<scan.at, s>> \in hooked'
        BY <1>7, <4>1, <4>2
      <4>4. Whole(scan.line.path)
        BY <1>1, <3>2, <4>3, DueKept DEF Whole
      <4>5. Advanced(t, scan.line.path)
        BY <1>1, <1>9, <3>2, <4>4 DEF AllReplaced, Progress
      <4> QED
        BY <1>1, <4>3, <4>5 DEF Advanced, Passed, Matching, Concerns
    <3> QED
      BY <3>1, <3>2
  <2> QED
    BY <2>4, <2>5, <2>6 DEF AllReplaced
<1> QED
  BY <1>1, <1>3, <1>4, <1>9 DEF HookInv

\* What the steps on a line do to the trees and the slots.
LEMMA LineTrees ==
    ASSUME TypeInv, NEW t \in Threads, LineStep(t)
    PROVE  /\ map_info' = map_info \/ map_info' = [map_info EXCEPT ![scan.line.path] = 0]
           /\ \/ scan'.fresh = scan.fresh
              \/ /\ pc[t] = "header"
                 /\ scan'.fresh = [scan.fresh EXCEPT ![scan.line.path] = scan.at]
           /\ hooked \subseteq hooked'
           /\ pc'[t] = "scan" => scan'.hook = 0
           /\ pc'[t] \in {"header", "elf"} => pc[t] \in {"line", "header"} /\ scan'.hook = scan.hook
           /\ pc'[t] \notin {"line", "scanned"}
<1>1. \A step, next : Work(t, step, next) => pc'[t] = step /\ scan' = next
  BY DEF Work, Goto, TypeInv
<1>2. ASSUME NEW f, LineDone(t, f)
      PROVE  pc'[t] = "scan" /\ scan'.fresh = f /\ scan'.hook = 0
  <2>1. Work(t, "scan", [NoScan EXCEPT !.at = scan.at, !.fresh = f])
    BY <1>2 DEF LineDone
  <2>2. pc'[t] = "scan" /\ scan' = [NoScan EXCEPT !.at = scan.at, !.fresh = f]
    BY <1>1, <2>1
  <2> QED
    BY <2>2 DEF NoScan
<1>3. scan \in ScanRec
  BY DEF TypeInv, TypeOK, ScanRec
<1>4. CASE CheckPath(t) \/ NotElf(t)
  BY <1>1, <1>2, <1>4 DEF CheckPath, NotElf, At
<1>5. CASE KnownElf(t)
  BY <1>1, <1>2, <1>3, <1>5 DEF KnownElf, At, ScanRec
<1>6. CASE NewElf(t)
  BY <1>1, <1>2, <1>3, <1>6 DEF NewElf, At, ScanRec
<1>7. CASE InitElf(t)
  BY <1>1, <1>2, <1>3, <1>7 DEF InitElf, At, ScanRec
<1>8. CASE NextHook(t)
  <2> DEFINE n == FirstOr({m \in Matching(scan.line.path) : m > scan.hook}, 0)
  <2>1. \/ LineDone(t, scan.fresh)
        \/ \E step \in {"write", "hook"} : Work(t, step, [scan EXCEPT !.hook = n])
    BY <1>8 DEF NextHook
  <2>2. UNCHANGED <<map_info, hooked>>
    BY <1>8 DEF NextHook
  <2> HIDE DEF n
  <2>3. CASE LineDone(t, scan.fresh)
    BY <1>2, <2>2, <2>3
  <2>4. ASSUME NEW step \in {"write", "hook"}, Work(t, step, [scan EXCEPT !.hook = n])
        PROVE  pc'[t] \in {"write", "hook"} /\ scan'.fresh = scan.fresh
    <3>1. pc'[t] = step /\ scan' = [scan EXCEPT !.hook = n]
      BY <1>1, <2>4
    <3> QED
      BY <1>3, <3>1 DEF ScanRec
  <2> QED
    BY <2>1, <2>2, <2>3, <2>4
<1>9. CASE WriteSlots(t)
  BY <1>1, <1>3, <1>9 DEF WriteSlots, At
<1> QED
  BY <1>4, <1>5, <1>6, <1>7, <1>8, <1>9 DEF LineStep

LEMMA LineSeen ==
    ASSUME TypeInv, HookInv, NEW t \in Threads, LineStep(t)
    PROVE  Seen' /\ Quiet'
<1> DEFINE path == scan.line.path
<1>1. PICK step \in {"scan"} \cup LineSteps, next \in ScanRec : Works(t, step, next)
  BY LineStepWorks
<1>2. /\ pc[t] \in LineSteps
      /\ UNCHANGED <<refresh_mutex, hook_info, ignore_info, late, maps, had, setting>>
  BY LineStepWorks DEF ScanRest, locks, lists, loader
<1>3. /\ pc'[t] = step /\ scan' = next /\ \A u \in Threads \ {t} : pc'[u] = pc[u]
      /\ step \in LineSteps => scan'.at = scan.at /\ scan'.line = scan.line
  BY <1>1 DEF Works, Work, Goto, TypeInv
<1>4. /\ refresh_mutex = t /\ t # None
      /\ \A u \in Threads \ {t} : pc'[u] \notin ScanSteps \ {"sync"}
  BY <1>2, <1>3, OneInScan DEF LineSteps, ScanSteps
<1>5. path \in Paths /\ <<path, scan.at>> \in had
  BY <1>2 DEF TypeInv, LineRead, Mapping, HookInv, Seen
<1>6. Known(map_info)'
  BY <1>2, LineTrees DEF HookInv, Seen, Known, TypeInv, TypeOK
<1>7. Known(scan.fresh)'
  BY <1>2, <1>5, LineTrees DEF HookInv, Seen, Known, TypeInv, TypeOK
<1>8. Seen'
  BY <1>2, <1>3, <1>4, <1>5, <1>6, <1>7 DEF HookInv, Seen, LineSteps, ScanSteps
<1>9. Quiet'
  <2>1. pc'[t] \in {"scan", "line", "header", "elf"} => scan'.hook = 0
    BY LineTrees DEF HookInv, Quiet
  <2>2. pc'[t] # "scanned"
    BY <1>3 DEF LineSteps
  <2> QED
    BY <1>2, <1>4, <2>1, <2>2 DEF Quiet, ScanSteps
<1> QED
  BY <1>8, <1>9

\* What is left to show of a step on a line: that the ELF it was on is hooked, if the
\* step is done with it, and otherwise how far it has got.
LEMMA LineReplaced ==
    ASSUME TypeInv, HookInv, AllReplaced, NEW t \in Threads, LineStep(t),
           \/ InElf(t)'
           \/ ~InElf(t) /\ scan'.fresh = scan.fresh
           \/ \A s \in Symbols :
                 (maps[scan.at] = First(scan.line.path) /\ Due(scan.line.path, s))
                    => <<scan.at, s>> \in hooked',
           InElf(t)' => InElf(t) \/ scan'.fresh[scan.line.path] = scan.at,
           (pc'[t] \in {"hook", "write"} /\ Whole(scan.line.path)) => Advanced(t, scan.line.path)'
    PROVE  AllReplaced'
<1> DEFINE path == scan.line.path
<1>1. PICK step \in {"scan"} \cup LineSteps, next \in ScanRec : Works(t, step, next)
  BY LineStepWorks
<1>2. /\ pc[t] \in LineSteps
      /\ UNCHANGED <<refresh_mutex, hook_info, ignore_info, late, maps, had, setting>>
  BY LineStepWorks DEF ScanRest, locks, lists, loader
<1>3. /\ pc'[t] = step /\ scan' = next /\ scan'.at = scan.at
      /\ \A u \in Threads \ {t} : pc'[u] = pc[u]
      /\ step \in LineSteps => scan'.line = scan.line
  BY <1>1 DEF Works, Work, Goto, TypeInv
<1>4. \A u \in Threads \ {t} : pc[u] \notin ScanSteps \ {"sync"} /\ ~InElf(u) /\ ~InElf(u)'
  BY <1>2, <1>3, OneInScan DEF LineSteps, ScanSteps, InElf
<1>5. path \in Paths /\ scan.at \in Bases /\ scan.at # 0
  BY <1>2 DEF TypeInv, LineRead, Mapping, Bases
<1>6. /\ \A x \in Paths : map_info'[x] # 0 => map_info'[x] = map_info[x]
      /\ \A x \in Paths \ {path} : scan'.fresh[x] = scan.fresh[x]
      /\ scan'.fresh # scan.fresh => scan'.fresh[path] = scan.at
      /\ hooked \subseteq hooked'
  BY <1>5, LineTrees DEF TypeInv, TypeOK
<1>7. \A x, s : Due(x, s)' = Due(x, s)
  BY <1>2, DueKept
<1>8. Replaced(map_info, Paths)'
  BY <1>2, <1>6, <1>7 DEF AllReplaced, Replaced, First
<1>9. InElf(t) => scan.fresh[path] = scan.at
  BY DEF AllReplaced, Progress
<1>10. InElf(t)' => pc'[t] \in LineSteps
  BY DEF InElf, LineSteps
<1>11. Replaced(scan.fresh, Left)'
  <2> SUFFICES ASSUME NEW x \in Paths, NEW s \in Symbols, InElf(t)' => x # scan'.line.path,
                      scan'.fresh[x] # 0, maps[scan'.fresh[x]] = First(x), Due(x, s)
               PROVE  <<scan'.fresh[x], s>> \in hooked'
    BY <1>2, <1>7 DEF Replaced, Left, First
  <2>1. CASE x # path \/ ~InElf(t)
    <3>1. x \in Left
      BY <1>4, <2>1 DEF Left
    <3>2. CASE scan'.fresh[x] = scan.fresh[x]
      BY <1>6, <3>1, <3>2 DEF AllReplaced, Replaced
    <3>3. CASE scan'.fresh[x] # scan.fresh[x]
      <4>1. x = path /\ scan'.fresh # scan.fresh /\ scan'.fresh[x] = scan.at
        BY <1>6, <3>3
      <4>2. ~InElf(t)'
        BY <1>3, <1>10, <4>1
      <4> QED
        BY <4>1, <4>2
    <3> QED
      BY <3>2, <3>3
  <2>2. CASE x = path /\ InElf(t)
    <3>1. ~InElf(t)' /\ scan'.fresh[x] = scan.at
      BY <1>3, <1>6, <1>9, <1>10, <2>2
    <3> QED
      BY <2>2, <3>1
  <2> QED
    BY <2>1, <2>2
<1>12. Progress'
  <2> SUFFICES ASSUME NEW u \in Threads, InElf(u)'
               PROVE  /\ (scan.fresh[scan.line.path] = scan.at)'
                      /\ pc'[u] \in {"hook", "write"} /\ Whole(scan.line.path)' =>
                            Advanced(u, scan.line.path)'
    BY DEF Progress, InElf
  <2>1. u = t
    BY <1>4
  <2>2. (scan.fresh[scan.line.path] = scan.at)'
    BY <1>3, <1>6, <1>9, <1>10, <2>1
  <2>3. Whole(scan.line.path)' = Whole(path)
    BY <1>2, <1>3, <1>10, <2>1, DueKept DEF Whole, First
  <2>4. pc'[t] \in {"hook", "write"} /\ Whole(path) => Advanced(t, path)'
    OBVIOUS
  <2> QED
    BY <1>3, <1>10, <2>1, <2>2, <2>3, <2>4
<1> QED
  BY <1>8, <1>11, <1>12 DEF AllReplaced

\* Without an entry of the ignore list for the path nothing is forbidden.
LEMMA UntouchedVerdict ==
    ASSUME NEW x, Untouched(x), NEW h
    PROVE  Verdict(h, x) = None
BY DEF Untouched, Verdict

LEMMA LineHook ==
    ASSUME TypeInv, HookInv, ~late, ~setting.fails, NEW t \in Threads, LineStep(t)
    PROVE  AllReplaced'
<1> DEFINE path == scan.line.path
<1>1. AllReplaced /\ Seen /\ Quiet
  BY DEF HookInv
<1>2. /\ pc[t] \in LineSteps /\ map_info \in [Paths -> 0..MaxBase]
      /\ scan.at \in Bases /\ scan.at # 0 /\ path \in Paths /\ scan \in ScanRec
      /\ scan.fresh \in [Paths -> 0..MaxBase]
  BY LineStepWorks DEF TypeInv, TypeOK, LineRead, Mapping, Bases, ScanRec
<1>0. First(path) # None /\ First(path).elf /\ First(path).path = path
  <2>1. First(path) \in Mapping
    BY <1>2 DEF First, Mapping
  <2>2. First(path) # None
    BY <2>1, NoneAssumption
  <2> QED
    BY <2>2 DEF First
<1>3. \A step, next : Work(t, step, next) => pc'[t] = step /\ scan' = next
  BY DEF Work, Goto, TypeInv
<1>4. ASSUME NEW f, LineDone(t, f) PROVE pc'[t] = "scan" /\ scan'.fresh = f
  <2>1. Work(t, "scan", [NoScan EXCEPT !.at = scan.at, !.fresh = f])
    BY <1>4 DEF LineDone
  <2>2. pc'[t] = "scan" /\ scan' = [NoScan EXCEPT !.at = scan.at, !.fresh = f]
    BY <1>3, <2>1
  <2> QED
    BY <2>2 DEF NoScan
<1>5. CASE CheckPath(t) \/ NotElf(t)
  <2>1. pc[t] \in {"line", "header"}
    BY <1>5 DEF CheckPath, NotElf, At
  <2>2. LineDone(t, scan.fresh) \/ Work(t, "header", scan)
    BY <1>5 DEF CheckPath, NotElf
  <2>3. pc'[t] \in {"scan", "header"} /\ scan'.fresh = scan.fresh
    BY <1>3, <1>4, <2>2
  <2> QED
    BY <1>1, <2>1, <2>3, LineReplaced DEF InElf
<1>6. CASE KnownElf(t)
  <2> DEFINE fresh == [scan.fresh EXCEPT ![path] = scan.at]
  <2>1. fresh[path] = scan.at
    BY <1>2
  <2> HIDE DEF fresh
  <2>2. CASE map_info[path] = scan.at /\ LineDone(t, fresh)
    <3>1. hooked' = hooked
      BY <1>6 DEF KnownElf
    <3>2. \A s \in Symbols :
             (maps[scan.at] = First(path) /\ Due(path, s)) => <<scan.at, s>> \in hooked'
      BY <1>1, <1>2, <2>2, <3>1 DEF AllReplaced, Replaced
    <3>3. pc'[t] = "scan"
      BY <1>4, <2>2
    <3> QED
      BY <1>1, <3>2, <3>3, LineReplaced DEF InElf
  <2>3. CASE Work(t, "elf", [scan EXCEPT !.fresh = fresh])
    <3>1. pc'[t] = "elf" /\ scan'.fresh = fresh
      BY <1>2, <1>3, <2>3 DEF ScanRec
    <3> QED
      BY <1>1, <2>1, <3>1, LineReplaced DEF InElf
  <2>4. \/ map_info[path] = scan.at /\ LineDone(t, fresh)
        \/ Work(t, "elf", [scan EXCEPT !.fresh = fresh])
    BY <1>6 DEF KnownElf, fresh
  <2> QED
    BY <2>2, <2>3, <2>4
<1>7. CASE NewElf(t)
  <2>1. CASE LineDone(t, scan.fresh)
    <3>1. pc[t] = "header"
      BY <1>7 DEF NewElf, At
    <3>2. pc'[t] = "scan" /\ scan'.fresh = scan.fresh
      BY <1>4, <2>1
    <3> QED
      BY <1>1, <3>1, <3>2, LineReplaced DEF InElf
  <2>2. CASE Work(t, "elf", [scan EXCEPT !.fresh[path] = scan.at])
    <3>1. pc'[t] = "elf" /\ scan'.fresh[path] = scan.at
      BY <1>2, <1>3, <2>2 DEF ScanRec
    <3> QED
      BY <1>1, <3>1, LineReplaced DEF InElf
  <2> QED
    BY <1>7, <2>1, <2>2 DEF NewElf
<1>8. CASE InitElf(t)
  <2>1. pc[t] = "elf"
    BY <1>8 DEF InitElf, At
  <2>2. CASE ~MappedElf /\ LineDone(t, scan.fresh)
    <3>1. maps[scan.at] # First(path)
      BY <1>0, <2>2 DEF MappedElf, Mapped
    <3>2. pc'[t] = "scan"
      BY <1>4, <2>2
    <3> QED
      BY <1>1, <3>1, <3>2, LineReplaced DEF InElf
  <2>3. CASE Work(t, "hook", [scan EXCEPT !.elf = maps[scan.at].path])
    <3>1. /\ pc'[t] = "hook" /\ scan'.elf = maps[scan.at].path /\ scan'.hook = scan.hook
          /\ scan'.line = scan.line
      BY <1>2, <1>3, <2>3 DEF ScanRec
    <3>2. scan.hook = 0
      BY <1>1, <2>1 DEF Quiet
    <3>3. hook_info' = hook_info
      BY <1>8 DEF InitElf, ScanRest, lists
    <3>4. Matching(path)' \subseteq Nat \ {0}
      BY <3>3 DEF Matching, TypeInv, TypeOK
    <3>5. \A n \in Matching(path)' : ~Passed(t, n)'
      BY <3>1, <3>2, <3>4 DEF Passed
    <3>6. Whole(path) => Advanced(t, path)'
      BY <1>0, <3>1, <3>5 DEF Advanced, Whole
    <3> QED
      BY <1>1, <2>1, <3>1, <3>6, LineReplaced DEF InElf
  <2> QED
    BY <1>8, <2>2, <2>3 DEF InitElf
<1>9. CASE NextHook(t)
  <2> DEFINE next == {n \in Matching(path) : n > scan.hook}
             k == FirstOr(next, 0)
             verdict == Verdict(hook_info[k], path)
  <2>1. pc[t] = "hook"
    BY <1>9 DEF NextHook, At
  <2>2. UNCHANGED <<hook_info, ignore_info, maps, hooked>>
    BY <1>9 DEF NextHook, ScanRest, lists, loader
  <2>3. Whole(path) => verdict = None /\ verdict # All
    BY UntouchedVerdict, NoneAssumption DEF Whole
  <2>4. Matching(path) \subseteq Nat /\ scan.hook \in Nat
    BY DEF Matching, TypeInv, TypeOK
  <2>5. Whole(path) => Advanced(t, path)
    BY <1>1, <2>1 DEF AllReplaced, Progress
  <2>6. \/ (next = {} \/ verdict = All) /\ LineDone(t, scan.fresh)
        \/ /\ next # {}
           /\ Work(t, IF verdict = None THEN "write" ELSE "hook", [scan EXCEPT !.hook = k])
    BY <1>9 DEF NextHook
  <2>7. CASE (next = {} \/ verdict = All) /\ LineDone(t, scan.fresh)
    <3>1. pc'[t] = "scan"
      BY <1>4, <2>7
    <3>2. ASSUME NEW s \in Symbols, maps[scan.at] = First(path), Due(path, s)
          PROVE  <<scan.at, s>> \in hooked'
      <4>1. Whole(path)
        BY <3>2 DEF Whole, Due
      <4>2. next = {}
        BY <2>3, <2>7, <4>1
      <4>3. PICK n \in Matching(path) : hook_info[n].symbol = s
        BY <3>2 DEF Due
      <4>4. Passed(t, n)
        BY <2>1, <2>4, <4>2 DEF Passed
      <4> QED
        BY <2>2, <2>5, <4>1, <4>3, <4>4 DEF Advanced
    <3> QED
      BY <1>1, <3>1, <3>2, LineReplaced DEF InElf
  <2>8. CASE /\ next # {}
             /\ Work(t, IF verdict = None THEN "write" ELSE "hook", [scan EXCEPT !.hook = k])
    <3>1. k \in next /\ \A n \in next : k <= n
      <4>1. next \subseteq Nat
        BY <2>4
      <4> HIDE DEF next
      <4> QED
        BY <2>8, <4>1, FirstOrLeast
    <3> HIDE DEF k, verdict
    <3>2. /\ pc'[t] \in {"write", "hook"} /\ (verdict = None => pc'[t] = "write")
          /\ scan'.hook = k /\ scan'.elf = scan.elf /\ scan'.at = scan.at /\ scan'.line = scan.line
      BY <1>2, <1>3, <2>8 DEF ScanRec
    <3>3. ASSUME Whole(path) PROVE Advanced(t, path)'
      <4>1. pc'[t] = "write" /\ Advanced(t, path) /\ Matching(path)' = Matching(path)
        BY <2>2, <2>3, <2>5, <3>2, <3>3 DEF Matching, Concerns
      <4>2. ASSUME NEW n \in Matching(path), Passed(t, n)' PROVE Passed(t, n)
        <5>1. n < k /\ n \in Nat /\ k \in Nat
          BY <2>4, <3>1, <3>2, <4>1, <4>2 DEF Passed
        <5>2. n \notin next
          BY <3>1, <5>1
        <5> QED
          BY <2>1, <2>4, <5>1, <5>2 DEF Passed
      <4> QED
        BY <2>2, <3>2, <4>1, <4>2 DEF Advanced
    <3> QED
      BY <1>1, <2>1, <3>2, <3>3, LineReplaced DEF InElf
  <2> QED
    BY <2>6, <2>7, <2>8
<1>10. CASE WriteSlots(t)
  <2>1. pc[t] = "write" /\ UNCHANGED <<hook_info, ignore_info, maps>>
    BY <1>10 DEF WriteSlots, At, ScanRest, lists, loader
  <2>2. pc'[t] = "hook" /\ scan' = scan
    BY <1>3, <1>10 DEF WriteSlots
  <2>3. ASSUME Whole(path) PROVE Advanced(t, path)'
    <3>1. Advanced(t, path)
      BY <1>1, <2>1, <2>3 DEF AllReplaced, Progress
    <3>2. ~Stale
      BY <1>0, <2>3, <3>1 DEF Stale, MappedElf, Mapped, Whole, Advanced
    <3>3. hooked' = hooked \cup {<<scan.at, hook_info[scan.hook].symbol>>}
      BY <1>10, <3>2 DEF WriteSlots
    <3>4. Matching(path)' = Matching(path) /\ Matching(path) \subseteq Nat /\ scan.hook \in Nat
      BY <2>1, <2>2 DEF Matching, Concerns, TypeInv, TypeOK
    <3>5. ASSUME NEW n \in Matching(path), Passed(t, n)' PROVE Passed(t, n) \/ n = scan.hook
      BY <2>2, <3>5 DEF Passed
    <3> QED
      BY <2>1, <2>2, <3>1, <3>3, <3>4, <3>5 DEF Advanced
  <2> QED
    BY <1>1, <2>1, <2>2, <2>3, LineReplaced DEF InElf
<1> QED
  BY <1>5, <1>6, <1>7, <1>8, <1>9, <1>10 DEF LineStep

LEMMA ScanHook ==
    ASSUME TypeInv, HookInv, NEW t \in Threads, ScanStep(t)
    PROVE  HookInv'
<1> USE DEF locks, lists, loader
<1>1. ASSUME NEW step, Goto(t, step)
      PROVE  pc'[t] = step /\ \A u \in Threads \ {t} : pc'[u] = pc[u]
  BY <1>1 DEF Goto, TypeInv
<1>2. ASSUME UNCHANGED <<hook_info, ignore_info, late, maps, had, hooked, setting>>,
             map_info' \in {map_info, scan.fresh}, scan'.fresh \in {scan.fresh, NoTree},
             \A u \in Threads : ~InElf(u) /\ ~InElf(u)'
      PROVE  /\ Known(map_info)' /\ Known(scan.fresh)'
             /\ ~late' /\ ~setting'.fails => AllReplaced'
  <2>1. Known(map_info)' /\ Known(scan.fresh)'
    BY <1>2, NoTreeReplaced DEF HookInv, Seen, Known
  <2>2. Left = Paths /\ Left' = Paths
    BY <1>2 DEF Left
  <2>3. \A x, s : Due(x, s)' = Due(x, s)
    BY <1>2, DueKept
  <2>4. ASSUME AllReplaced PROVE AllReplaced'
    <3>1. Replaced(map_info, Paths)'
      BY <1>2, <2>2, <2>3, <2>4 DEF AllReplaced, Replaced, First
    <3>2. Replaced(scan.fresh, Left)'
      BY <1>2, <2>2, <2>3, <2>4, NoTreeReplaced DEF AllReplaced, Replaced, First
    <3>3. Progress'
      BY <1>2 DEF Progress, InElf
    <3> QED
      BY <3>1, <3>2, <3>3 DEF AllReplaced
  <2> QED
    BY <1>2, <2>1, <2>4 DEF HookInv
<1>3. CASE BeginScan(t)
  <2>1. PICK step \in {"scan", "scanned"} : Goto(t, step)
    BY <1>3 DEF BeginScan
  <2>2. /\ refresh_mutex = None /\ refresh_mutex' = t /\ scan' = NoScan /\ t # None
        /\ UNCHANGED <<hook_info, ignore_info, late, map_info, maps, had, hooked, setting>>
    BY <1>3, ThreadsAssumption DEF BeginScan, Threads
  <2>3. \A u \in Threads : pc[u] \notin ScanSteps \ {"sync"}
    BY <2>2, ThreadsAssumption DEF TypeInv, UnderRefreshMutex, Threads
  <2>4. \A u \in Threads : pc'[u] \notin LineSteps
    BY <1>1, <2>1, <2>3 DEF LineSteps, ScanSteps
  <2>5. \A u \in Threads : ~InElf(u) /\ ~InElf(u)'
    BY <2>3, <2>4 DEF InElf, LineSteps, ScanSteps
  <2>6. Quiet'
    BY <2>2, NoTreeReplaced DEF Quiet
  <2>7. Known(map_info)' /\ Known(scan.fresh)' /\ (~late' /\ ~setting'.fails => AllReplaced')
    BY <1>2, <2>2, <2>5, NoTreeReplaced
  <2>8. Seen'
    BY <2>2, <2>4, <2>7 DEF HookInv, Seen
  <2> QED
    BY <2>6, <2>7, <2>8 DEF HookInv
<1>4. CASE ReadLine(t)
  <2> DEFINE b == FirstOr(Above, 0)
  <2>1. Above # {} /\ Above \subseteq Nat
    BY <1>4 DEF ReadLine, Above, Bases
  <2>2. b \in Bases /\ maps[b] # None
    BY <2>1, FirstOrLeast DEF Above
  <2>3. /\ scan' = [scan EXCEPT !.at = b, !.line = maps[b], !.ignores = Len(ignore_info)]
        /\ Goto(t, "line") /\ pc[t] = "scan"
        /\ UNCHANGED <<refresh_mutex, hook_info, ignore_info, late, map_info, maps, had, hooked, setting>>
    BY <1>4 DEF ReadLine, At
  <2> HIDE DEF b
  <2>4. scan'.at = b /\ scan'.line = maps[b] /\ scan'.fresh = scan.fresh /\ scan'.hook = scan.hook
    BY <2>3 DEF TypeInv, TypeOK
  <2>5. pc'[t] = "line" /\ \A u \in Threads \ {t} : pc'[u] = pc[u]
    BY <1>1, <2>3
  <2>6. /\ refresh_mutex = t /\ t # None
        /\ \A u \in Threads \ {t} : pc[u] \notin ScanSteps \ {"sync"}
    BY <2>3, OneInScan DEF ScanSteps
  <2>7. \A u \in Threads : ~InElf(u) /\ ~InElf(u)'
    BY <2>3, <2>5, <2>6 DEF InElf, ScanSteps
  <2>8. Known(map_info)' /\ Known(scan.fresh)' /\ (~late' /\ ~setting'.fails => AllReplaced')
    BY <1>2, <2>3, <2>4, <2>7
  <2>9. Seen'
    BY <2>2, <2>3, <2>4, <2>5, <2>6, <2>8 DEF HookInv, Seen, ScanSteps, LineSteps
  <2>10. Quiet'
    BY <2>3, <2>4, <2>5, <2>6 DEF HookInv, Quiet, ScanSteps
  <2> QED
    BY <2>8, <2>9, <2>10 DEF HookInv
<1>5. CASE LineStep(t)
  <2>1. late' = late /\ setting' = setting
    BY <1>5, LineStepWorks DEF ScanRest
  <2> QED
    BY <1>5, <2>1, LineSeen, LineHook DEF HookInv
<1>6. CASE Fault(t)
  <2>1. UNCHANGED <<pc, refresh_mutex, hook_info, ignore_info, late, map_info, scan, maps, had, hooked,
                    setting>>
    BY <1>6 DEF Fault, ScanRest
  <2> QED
    BY <2>1, RestHook
<1>7. CASE EndScan(t)
  <2>1. /\ map_info' = scan.fresh /\ scan' = NoScan /\ Goto(t, "scanned") /\ pc[t] = "scan"
        /\ UNCHANGED <<refresh_mutex, hook_info, ignore_info, late, maps, had, hooked, setting>>
    BY <1>7 DEF EndScan, At
  <2>2. pc'[t] = "scanned" /\ \A u \in Threads \ {t} : pc'[u] = pc[u]
    BY <1>1, <2>1
  <2>3. \A u \in Threads \ {t} : pc[u] \notin ScanSteps \ {"sync"}
    BY <2>1, OneInScan DEF ScanSteps
  <2>4. \A u \in Threads : ~InElf(u) /\ ~InElf(u)' /\ pc'[u] \notin LineSteps
    BY <2>1, <2>2, <2>3 DEF InElf, LineSteps, ScanSteps
  <2>5. Known(map_info)' /\ Known(scan.fresh)' /\ (~late' /\ ~setting'.fails => AllReplaced')
    BY <1>2, <2>1, <2>4, NoTreeReplaced
  <2>6. Seen'
    BY <2>1, <2>4, <2>5 DEF HookInv, Seen
  <2>7. Quiet'
    BY <2>1, NoTreeReplaced DEF Quiet
  <2> QED
    BY <2>5, <2>6, <2>7 DEF HookInv
<1>8. CASE Scanned(t)
  <2>1. scan = NoScan /\ pc[t] = "scanned"
    BY <1>8 DEF Scanned, At, HookInv, Quiet
  <2>2. UNCHANGED Rest
    BY <1>8 DEF Scanned
  <2>3. pc'[t] \in {"idle", "while"} /\ \A u \in Threads \ {t} : pc'[u] = pc[u]
    BY <1>1, <1>8 DEF Scanned
  <2>4. \A u \in Threads :
           pc[u] \in LineSteps \/ pc'[u] \in ScanSteps \ {"sync"} => pc'[u] = pc[u]
    BY <2>1, <2>3 DEF LineSteps, ScanSteps
  <2> QED
    BY <2>1, <2>2, <2>4, RestKeeps, RestHook
<1> QED
  BY <1>3, <1>4, <1>5, <1>6, <1>7, <1>8 DEF ScanStep, LineStep

LEMMA NextHooked == TypeInv /\ HookInv /\ [Next]_vars => HookInv'
<1> SUFFICES ASSUME TypeInv, HookInv, [Next]_vars PROVE HookInv'
  OBVIOUS
<1>1. ASSUME NEW t \in Callers, NewCall(t) \/ CallStep(t) \/ ScanStep(t) PROVE HookInv'
  BY <1>1, CallHook, ScanHook DEF Threads
<1>2. ASSUME NEW r \in Refreshers, While(r) \/ TakeTask(r) \/ SpuriousWake(r) \/ ScanStep(r)
      PROVE  HookInv'
  BY <1>2, RefresherHook, ScanHook DEF Threads
<1>3. ASSUME NEW b \in Bases, Load(b) \/ Unload(b) PROVE HookInv'
  BY <1>3, LoaderHook
<1>4. CASE UNCHANGED vars
  BY <1>4, RestHook DEF vars, lists, loader, locks
<1> QED
  BY <1>1, <1>2, <1>3, <1>4 DEF Next

\* Between refreshes an ELF with a record has every symbol that is due hooked at
\* the address where it is, for any threads, loads and unloads.
THEOREM RecordedElfHooked == Spec => []RecordedHooked
<1>1. TypeInv /\ HookInv => RecordedHooked
  BY DEF HookInv, AllReplaced, Replaced, First, RecordedHooked
<1> QED
  BY <1>1, InitType, NextType, InitHook, NextHooked, PTL DEF Spec
=============================================================================
