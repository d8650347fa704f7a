------------------------- MODULE PatchLifecycleProofs -------------------------
(***************************************************************************)
(* Proofs about PatchLifecycle, for any patches and any number of updates  *)
(* and crashes: its types, that user.db is never seen half written, that   *)
(* no process runs with the table of another apk, and that, undisturbed,   *)
(* a careful game has the library of its patch.                            *)
(***************************************************************************)
EXTENDS PatchLifecycle, TLAPS

\* Once user.db has been read it stays there until the start is over.
BootHasDb ==
    pc \in {"boot_check", "boot_unlink", "boot_rename", "boot_open"} => user_db # None

TypeInv == TypeOK /\ BootHasDb

\* What a step of a start, a step of use_data_dir or the game leaves alone.
LEMMA GotoKeeps ==
    ASSUME NEW step, Goto(step)
    PROVE  /\ pc' = step
           /\ arg' = arg /\ result' = result /\ running' = running
           /\ apk' = apk /\ crashes' = crashes /\ setting' = setting
BY DEF Goto

LEMMA FilesKeep ==
    ASSUME UNCHANGED files
    PROVE  /\ user_db' = user_db /\ user_db_tmp' = user_db_tmp
           /\ data_new' = data_new /\ data_so' = data_so /\ dir' = dir
BY DEF files

\* The records written to user.db.tmp are of their type.
LEMMA NewDbType ==
    ASSUME TypeOK, NEW p \in Patches, NEW whole \in BOOLEAN
    PROVE  /\ NewDb(p, whole) \in Db
           /\ NewDb(p, whole).apk = apk
           /\ NewDb(p, whole).whole = whole
           /\ NewDb(p, whole).older = FALSE
BY DEF TypeOK, NewDb, Db

LEMMA LibType ==
    ASSUME NEW p \in Patches, NEW whole \in BOOLEAN
    PROVE  Lib(p, whole) \in Library
BY DEF Lib, Library

-----------------------------------------------------------------------------
LEMMA InitType == Init => TypeInv
BY SettingsAssumption DEF Init, TypeInv, TypeOK, BootHasDb, DirState, Apk, Idle, Booting, Using

LEMMA AroundType == TypeInv /\ (Crash \/ Quit \/ UpdateApk) => TypeInv'
<1> SUFFICES ASSUME TypeInv, Crash \/ Quit \/ UpdateApk PROVE TypeInv'
  OBVIOUS
<1> USE DEF TypeInv, BootHasDb, Dies, Using
<1>1. Crash => TypeInv'
  BY FilesKeep DEF TypeOK, Crash
<1>2. Quit => TypeInv'
  BY FilesKeep DEF TypeOK, Quit
<1>3. UpdateApk => TypeInv'
  <2> SUFFICES ASSUME UpdateApk PROVE TypeInv'
    OBVIOUS
  <2>1. PICK path \in {apk.path, apk.path + 1} :
            apk' = [version |-> apk.version + 1, path |-> path]
    BY DEF UpdateApk
  <2>2. apk' \in Apk
    BY <2>1 DEF TypeOK, Apk
  <2>3. user_db' \in Db \cup {None}
    BY DEF UpdateApk, TypeOK, Db
  <2> QED
    BY <2>2, <2>3 DEF UpdateApk, TypeOK
<1> QED
  BY <1>1, <1>2, <1>3

LEMMA GameType == TypeInv /\ GameStep => TypeInv'
<1> SUFFICES ASSUME TypeInv, GameStep PROVE TypeInv'
  OBVIOUS
<1> USE DEF TypeInv, TypeOK, BootHasDb, Using, Idle, DirState
<1>1. UseNone => TypeInv'
  BY DEF UseNone, Return
<1>2. ASSUME NEW p \in Patches, UseStart(p) PROVE TypeInv'
  <2>1. UNCHANGED files /\ UNCHANGED <<apk, crashes, setting>>
    BY <1>2 DEF UseStart, Return
  <2>2. \/ pc' = Idle /\ arg' = None /\ result' = "error"
        \/ pc' = "use_open" /\ arg' = p /\ result' = result
    BY <1>2 DEF UseStart, Return
  <2>3. running' = running
    BY <1>2 DEF UseStart, Return
  <2> QED
    BY <2>1, <2>2, <2>3, FilesKeep
<1>3. ASSUME NEW p \in Patches, ProvideNew(p) PROVE TypeInv'
  BY <1>3 DEF ProvideNew
<1>4. ASSUME NEW p \in Patches, DeleteDir(p) PROVE TypeInv'
  BY <1>4 DEF DeleteDir
<1> QED
  BY <1>1, <1>2, <1>3, <1>4 DEF GameStep

LEMMA UseType == TypeInv /\ UseStep => TypeInv'
<1> SUFFICES ASSUME TypeInv, UseStep PROVE TypeInv'
  OBVIOUS
<1> USE DEF TypeInv, BootHasDb, Using
<1>1. CopyOpen => TypeInv'
  <2> SUFFICES ASSUME CopyOpen PROVE TypeInv'
    OBVIOUS
  <2>1. arg \in Patches
    BY DEF CopyOpen, TypeOK
  <2>2. Lib(arg, FALSE) \in Library
    BY <2>1, LibType
  <2> QED
    BY <2>1, <2>2, FilesKeep DEF CopyOpen, Goto, TypeOK
<1>2. CopyWrite => TypeInv'
  <2> SUFFICES ASSUME CopyWrite PROVE TypeInv'
    OBVIOUS
  <2>1. arg \in Patches
    BY DEF CopyWrite, TypeOK
  <2>2. data_new' \in Library
    BY <2>1, LibType DEF CopyWrite
  <2> QED
    BY <2>1, <2>2 DEF CopyWrite, Goto, TypeOK
<1>3. RenameInDir => TypeInv'
  BY DEF RenameInDir, Goto, TypeOK, DirState
<1>4. ShadowInit => TypeInv'
  BY FilesKeep DEF ShadowInit, Goto, Return, Exit, Dies, Idle, TypeOK
<1>5. OpenTmp => TypeInv'
  <2> SUFFICES ASSUME OpenTmp PROVE TypeInv'
    OBVIOUS
  <2>1. arg \in Patches
    BY DEF OpenTmp, TypeOK
  <2>2. NewDb(arg, FALSE) \in Db
    BY <2>1, NewDbType
  <2> QED
    BY <2>1, <2>2, FilesKeep DEF OpenTmp, Goto, Return, Idle, TypeOK
<1>6. WriteTmp => TypeInv'
  <2> SUFFICES ASSUME WriteTmp PROVE TypeInv'
    OBVIOUS
  <2>1. arg \in Patches
    BY DEF WriteTmp, TypeOK
  <2>2. user_db_tmp' \in Db \/ UNCHANGED files
    BY <2>1, NewDbType DEF WriteTmp
  <2> QED
    BY <2>1, <2>2, FilesKeep DEF WriteTmp, Goto, Exit, Dies, TypeOK
<1>7. UnlinkDb => TypeInv'
  BY DEF UnlinkDb, Goto, TypeOK
<1>8. RenameTmp => TypeInv'
  BY DEF RenameTmp, Return, Idle, TypeOK
<1> QED
  BY <1>1, <1>2, <1>3, <1>4, <1>5, <1>6, <1>7, <1>8 DEF UseStep

LEMMA BootType == TypeInv /\ BootStep => TypeInv'
<1> SUFFICES ASSUME TypeInv, BootStep PROVE TypeInv'
  OBVIOUS
<1> USE DEF TypeInv, BootHasDb, Using, Booting, Goto, Unpatched, Idle
<1>1. Start => TypeInv'
  BY FilesKeep DEF Start, TypeOK
<1>2. BootRead => TypeInv'
  BY FilesKeep DEF BootRead, ReadTorn, Exit, Dies, TypeOK
<1>3. BootCheck => TypeInv'
  BY FilesKeep DEF BootCheck, TypeOK
<1>4. BootUnlinkSo => TypeInv'
  BY FilesKeep DEF BootUnlinkSo, TypeOK
<1>5. BootRenameSo => TypeInv'
  BY DEF BootRenameSo, TypeOK
<1>6. BootOpenSo => TypeInv'
  <2> SUFFICES ASSUME BootOpenSo PROVE TypeInv'
    OBVIOUS
  <2>1. user_db \in Db
    BY DEF BootOpenSo, TypeOK
  <2>2. running' \in Running \cup {None}
    BY <2>1 DEF BootOpenSo, RunPatched, Running, Db, TypeOK
  <2> QED
    BY <2>2, FilesKeep DEF BootOpenSo, RunPatched, TypeOK
<1> QED
  BY <1>1, <1>2, <1>3, <1>4, <1>5, <1>6 DEF BootStep

LEMMA StutterType == TypeInv /\ UNCHANGED vars => TypeInv'
BY FilesKeep DEF TypeInv, TypeOK, BootHasDb, vars

\* Every variable of PatchLifecycle keeps its type; in particular a start that
\* reads fields of user.db or opens the library has a user.db to read.
THEOREM PatchTypeCorrect == Spec => []TypeOK
<1>1. TypeInv /\ [Next]_vars => TypeInv'
  BY AroundType, GameType, UseType, BootType, StutterType DEF Next
<1>2. TypeInv => TypeOK
  BY DEF TypeInv
<1> QED
  BY InitType, <1>1, <1>2, PTL DEF Spec

LEMMA TypeInvAlways == Spec => []TypeInv
<1>1. TypeInv /\ [Next]_vars => TypeInv'
  BY AroundType, GameType, UseType, BootType, StutterType DEF Next
<1> QED
  BY InitType, <1>1, PTL DEF Spec

-----------------------------------------------------------------------------
(***************************************************************************)
(* No torn user.db.  The name user.db only ever gets the file of           *)
(* user.db.tmp, and only after all of that was written.                    *)
(***************************************************************************)
TmpWhole ==
    (pc \in {"use_unlink", "use_commit"} /\ ~May("flush")) => user_db_tmp.whole = TRUE

WholeInv == DbNeverTorn /\ TmpWhole

LEMMA SettingKept == [Next]_vars => setting' = setting
BY DEF Next, vars, BootStep, Start, BootRead, ReadTorn, BootCheck, BootUnlinkSo,
       BootRenameSo, BootOpenSo, RunPatched, Unpatched, UseStep, CopyOpen, CopyWrite,
       RenameInDir, ShadowInit, OpenTmp, WriteTmp, UnlinkDb, RenameTmp, Goto, Return,
       Exit, GameStep, UseNone, UseStart, ProvideNew, DeleteDir, Crash, Quit, UpdateApk

LEMMA WholeStep ==
    ASSUME TypeInv, WholeInv, [Next]_vars
    PROVE  WholeInv'
<1>0. May("flush")' = May("flush")
  BY SettingKept DEF May
<1> USE DEF WholeInv, DbNeverTorn, TmpWhole
<1>a. CASE May("flush")
  BY <1>0, <1>a
<1>b. SUFFICES ASSUME ~May("flush") PROVE WholeInv'
  BY <1>a
<1> USE <1>0, <1>b
<1>1. CASE UNCHANGED vars
  BY <1>1, FilesKeep DEF vars
<1>2. CASE Crash \/ Quit
  BY <1>2, FilesKeep DEF Crash, Quit, Dies
<1>3. CASE UpdateApk
  BY <1>3 DEF UpdateApk, Dies, TypeInv, TypeOK, Db
<1>4. CASE GameStep
  <2>1. user_db' \in {user_db, None} /\ user_db_tmp' = user_db_tmp
    BY <1>4, FilesKeep DEF GameStep, UseNone, UseStart, ProvideNew, DeleteDir
  <2>2. pc' \in {Idle, "use_open"}
    BY <1>4 DEF GameStep, UseNone, UseStart, Return, ProvideNew, DeleteDir
  <2> QED
    BY <2>1, <2>2 DEF Idle
<1>5. CASE WriteTmp
  <2>1. arg \in Patches
    BY <1>5 DEF WriteTmp, TypeInv, TypeOK, Using
  <2>2. user_db_tmp' = NewDb(arg, TRUE) \/ pc' = "off"
    BY <1>5 DEF WriteTmp, Exit, Dies
  <2>3. user_db' = user_db
    BY <1>5, FilesKeep DEF WriteTmp
  <2>4. NewDb(arg, TRUE).whole = TRUE
    BY <2>1, NewDbType DEF TypeInv
  <2> QED
    BY <2>2, <2>3, <2>4
<1>6. CASE UnlinkDb
  BY <1>6 DEF UnlinkDb, Goto
<1>7. CASE RenameTmp
  BY <1>7 DEF RenameTmp, Return, Idle
<1>8. CASE CopyOpen \/ CopyWrite \/ RenameInDir \/ ShadowInit \/ OpenTmp
  <2>1. user_db' = user_db
    BY <1>8, FilesKeep DEF CopyOpen, CopyWrite, RenameInDir, ShadowInit, OpenTmp
  <2>2. pc' \notin {"use_unlink", "use_commit"}
    BY <1>8 DEF CopyOpen, CopyWrite, RenameInDir, ShadowInit, OpenTmp, Goto,
                Return, Exit, Dies, Idle
  <2> QED
    BY <2>1, <2>2
<1>9. CASE BootStep
  <2>1. user_db' \in {user_db, None}
    BY <1>9, FilesKeep DEF BootStep, Start, BootRead, ReadTorn, BootCheck, BootUnlinkSo,
                           BootRenameSo, BootOpenSo
  <2>2. pc' \notin {"use_unlink", "use_commit"}
    BY <1>9 DEF BootStep, Start, BootRead, ReadTorn, BootCheck, BootUnlinkSo, BootRenameSo,
                BootOpenSo, RunPatched, Goto, Unpatched, Exit, Dies, Idle
  <2> QED
    BY <2>1, <2>2
<1> QED
  BY <1>1, <1>2, <1>3, <1>4, <1>5, <1>6, <1>7, <1>8, <1>9 DEF Next, UseStep

\* Unless fclose loses what it should have written, a user.db that is there has
\* all of its bytes, wherever the process is killed: use_data_dir writes
\* user.db.tmp to its end before that file gets the name.
THEOREM UserDbNeverTorn == Spec => []DbNeverTorn
<1>1. Init => WholeInv
  BY DEF Init, WholeInv, DbNeverTorn, TmpWhole
<1>2. TypeInv /\ WholeInv /\ [Next]_vars => WholeInv'
  BY WholeStep
<1>3. WholeInv => DbNeverTorn
  BY DEF WholeInv
<1> QED
  BY <1>1, <1>2, <1>3, TypeInvAlways, PTL DEF Spec

-----------------------------------------------------------------------------
(***************************************************************************)
(* The table of the running process.  user.db is for the installed apk as  *)
(* long as the apk is not the later of the two, since an update makes it   *)
(* so; and a start goes past the check only with such a user.db.           *)
(***************************************************************************)
TmpFresh == pc \in {"use_flush", "use_unlink", "use_commit"} => user_db_tmp.apk = apk
DbFresh == (user_db # None /\ ~user_db.older) => user_db.apk = apk
BootFresh ==
    pc \in {"boot_unlink", "boot_rename", "boot_open"} => ~user_db.older

FreshInv == TmpFresh /\ DbFresh /\ BootFresh /\ TableMatchesApk

LEMMA FreshStep ==
    ASSUME TypeInv, FreshInv, [Next]_vars
    PROVE  FreshInv'
<1> USE DEF FreshInv, TmpFresh, DbFresh, BootFresh, TableMatchesApk
<1>1. CASE UNCHANGED vars
  BY <1>1, FilesKeep DEF vars
<1>2. CASE Crash \/ Quit
  BY <1>2, FilesKeep DEF Crash, Quit, Dies
<1>3. CASE UpdateApk
  <2>1. pc' = "off" /\ running' = None
    BY <1>3 DEF UpdateApk, Dies
  <2>2. user_db' # None => user_db'.older = TRUE
    BY <1>3 DEF UpdateApk, TypeInv, TypeOK, Db
  <2> QED
    BY <2>1, <2>2
<1>4. CASE GameStep
  <2>1. user_db' \in {user_db, None} /\ user_db_tmp' = user_db_tmp
    BY <1>4, FilesKeep DEF GameStep, UseNone, UseStart, ProvideNew, DeleteDir
  <2>2. pc' \in {Idle, "use_open"} /\ running' = running /\ apk' = apk
    BY <1>4 DEF GameStep, UseNone, UseStart, Return, ProvideNew, DeleteDir
  <2> QED
    BY <2>1, <2>2 DEF Idle
<1>5. CASE OpenTmp \/ WriteTmp
  <2>1. arg \in Patches
    BY <1>5 DEF OpenTmp, WriteTmp, TypeInv, TypeOK, Using
  <2>2. \A whole \in BOOLEAN : NewDb(arg, whole).apk = apk
    BY <2>1, NewDbType DEF TypeInv
  <2>3. user_db_tmp'.apk = apk \/ pc' \in {Idle, "off"}
    BY <1>5, <2>2 DEF OpenTmp, WriteTmp, Return, Exit, Dies
  <2>4. user_db' = user_db /\ apk' = apk /\ running' \in {running, None}
    BY <1>5, FilesKeep DEF OpenTmp, WriteTmp, Goto, Return, Exit, Dies
  <2>5. pc' \in {"use_flush", "use_unlink", Idle, "off"}
    BY <1>5 DEF OpenTmp, WriteTmp, Goto, Return, Exit, Dies
  <2> QED
    BY <2>3, <2>4, <2>5 DEF Idle
<1>6. CASE UnlinkDb
  BY <1>6 DEF UnlinkDb, Goto
<1>7. CASE RenameTmp
  BY <1>7 DEF RenameTmp, Return, Idle
<1>8. CASE CopyOpen \/ CopyWrite \/ RenameInDir \/ ShadowInit
  <2>1. user_db' = user_db /\ apk' = apk /\ running' \in {running, None}
    BY <1>8, FilesKeep DEF CopyOpen, CopyWrite, RenameInDir, ShadowInit, Goto,
                           Return, Exit, Dies
  <2>2. pc' \in {"use_write", "use_rename", "use_init", "use_tmp", Idle, "off"}
    BY <1>8 DEF CopyOpen, CopyWrite, RenameInDir, ShadowInit, Goto, Return, Exit, Dies
  <2> QED
    BY <2>1, <2>2 DEF Idle
<1>9. CASE Start \/ BootRead
  <2>1. user_db' = user_db /\ apk' = apk /\ running' \in {running, None}
    BY <1>9, FilesKeep DEF Start, BootRead, ReadTorn, Goto, Unpatched, Exit, Dies
  <2>2. pc' \in {"boot_read", "boot_check", Idle, "off"}
    BY <1>9 DEF Start, BootRead, ReadTorn, Goto, Unpatched, Exit, Dies
  <2> QED
    BY <2>1, <2>2 DEF Idle
<1>10. CASE BootCheck
  BY <1>10, FilesKeep DEF BootCheck, Goto, Unpatched, Idle
<1>11. CASE BootUnlinkSo \/ BootRenameSo
  BY <1>11, FilesKeep DEF BootUnlinkSo, BootRenameSo, Goto
<1>12. CASE BootOpenSo
  <2>1. user_db # None /\ ~user_db.older
    BY <1>12 DEF BootOpenSo, TypeInv, BootHasDb
  <2>2. user_db.apk = apk
    BY <2>1
  <2>3. running' = None \/ running'.apk = user_db.apk
    BY <1>12 DEF BootOpenSo, RunPatched, Unpatched
  <2>4. pc' = Idle /\ user_db' = user_db /\ apk' = apk
    BY <1>12, FilesKeep DEF BootOpenSo, RunPatched, Unpatched
  <2> QED
    BY <2>2, <2>3, <2>4 DEF Idle
<1> QED
  BY <1>1, <1>2, <1>3, <1>4, <1>5, <1>6, <1>7, <1>8, <1>9, <1>10, <1>11, <1>12
     DEF Next, UseStep, BootStep

\* A process that runs patched reads the apk through a table computed for that
\* apk, whatever was updated, killed or lost before: the times compared in
\* extract_patch_info (bootstrap.cpp:331) see every update.
THEOREM TableIsOfApk == Spec => []TableMatchesApk
<1>1. Init => FreshInv
  BY DEF Init, FreshInv, TmpFresh, DbFresh, BootFresh, TableMatchesApk
<1>2. TypeInv /\ FreshInv /\ [Next]_vars => FreshInv'
  BY FreshStep
<1>3. FreshInv => TableMatchesApk
  BY DEF FreshInv
<1> QED
  BY <1>1, <1>2, <1>3, TypeInvAlways, PTL DEF Spec

-----------------------------------------------------------------------------
(***************************************************************************)
(* The library of the patch.  Where nothing disturbs a careful game, the   *)
(* next start finds the library of user.db's patch under the .new name or  *)
(* under its own, and a use of a patch begins with no .new file about.     *)
(***************************************************************************)
\* The library the next start will open is that of p.
Installed(p) ==
    \/ data_new = Lib(p, TRUE)
    \/ data_new = None /\ data_so = Lib(p, TRUE)

\* Between two uses: no .new file waits for a start that does not want it.
Rested ==
    pc \notin Using =>
        \/ user_db = None /\ data_new = None
        \/ user_db # None /\ dir[user_db.patch] # "absent" /\ Installed(user_db.patch)

\* A start moves the .new file, if there is one, before it opens the library.
BootTakes ==
    /\ pc = "boot_rename" => data_new # None
    /\ pc = "boot_open" => data_new = None
    /\ pc = Idle /\ result = "none" => data_new = None

\* use_data_dir: copied, renamed, then written to user.db.tmp.
Copied ==
    /\ pc = "use_open" => data_new = None /\ dir[arg] = "new"
    /\ pc \in Using \ {"use_open", "use_write"} => data_new = Lib(arg, TRUE)
    /\ pc \in Using \ {"use_open", "use_write", "use_rename"} => dir[arg] # "absent"
    /\ pc \in {"use_flush", "use_unlink", "use_commit"} =>
          user_db_tmp # None /\ user_db_tmp.patch = arg /\ ~user_db_tmp.older

Loaded ==
    /\ user_db # None => ~user_db.older
    /\ running # None => running.so = Lib(running.patch, TRUE)

CareInv == Undisturbed => Rested /\ BootTakes /\ Copied /\ Loaded

\* The files are of their types, so none of them is None.
LEMMA FilesThere ==
    ASSUME NEW p \in Patches, NEW whole \in BOOLEAN, NEW a \in Apk, NEW older \in BOOLEAN
    PROVE  /\ Lib(p, whole) # None
           /\ [patch |-> p, apk |-> a, whole |-> whole, older |-> older] # None
BY NoneAssumption, LibType DEF Db

\* What an undisturbed device and a careful game rule out.
LEMMA NothingDisturbs ==
    ASSUME TypeInv, Undisturbed
    PROVE  /\ ~May("disk") /\ ~May("flush") /\ setting.careful
           /\ ~Crash /\ ~UpdateApk
<1>1. crashes \in Nat /\ apk.version \in Nat
  BY DEF TypeInv, TypeOK, Apk
<1> QED BY <1>1 DEF Undisturbed, May, Crash, UpdateApk

LEMMA CareGame ==
    ASSUME TypeInv, Undisturbed, CareInv, GameStep
    PROVE  Rested' /\ BootTakes' /\ Copied' /\ Loaded'
<1>1. /\ Rested /\ BootTakes /\ Copied /\ Loaded
      /\ dir \in [Patches -> DirState]
      /\ user_db # None => user_db.patch \in Patches
  BY DEF CareInv, TypeInv, TypeOK, Db
<1>2. setting.careful
  BY NothingDisturbs
<1> USE DEF Installed, Idle, Using
<1>3. CASE UseNone
  <2>1. /\ pc = Idle /\ pc' = Idle /\ result = "none" /\ result' = "ok"
        /\ user_db' = None /\ data_new' = data_new /\ running' = running
    BY <1>2, <1>3 DEF UseNone, Return
  <2> QED BY <1>1, <2>1 DEF Rested, BootTakes, Copied, Loaded
<1>4. ASSUME NEW p \in Patches, UseStart(p)
      PROVE  Rested' /\ BootTakes' /\ Copied' /\ Loaded'
  <2>1. /\ pc = Idle /\ result = "none" /\ dir[p] = "new"
        /\ pc' = "use_open" /\ arg' = p /\ running' = running
        /\ user_db' = user_db /\ data_new' = data_new /\ data_so' = data_so /\ dir' = dir
    BY <1>2, <1>4, FilesKeep DEF UseStart
  <2> QED BY <1>1, <2>1 DEF Rested, BootTakes, Copied, Loaded
<1>5. ASSUME NEW p \in Patches, ProvideNew(p) \/ DeleteDir(p)
      PROVE  Rested' /\ BootTakes' /\ Copied' /\ Loaded'
  <2>1. /\ pc = Idle /\ pc' = Idle /\ result' = result /\ running' = running
        /\ user_db' = user_db /\ data_new' = data_new /\ data_so' = data_so
    BY <1>5 DEF ProvideNew, DeleteDir
  <2>2. user_db # None => (dir[user_db.patch] # "absent" => dir'[user_db.patch] # "absent")
    BY <1>1, <1>5 DEF ProvideNew, DeleteDir
  <2> QED BY <1>1, <2>1, <2>2 DEF Rested, BootTakes, Copied, Loaded
<1> QED BY <1>3, <1>4, <1>5 DEF GameStep

LEMMA CareUse ==
    ASSUME TypeInv, Undisturbed, CareInv, UseStep
    PROVE  Rested' /\ BootTakes' /\ Copied' /\ Loaded'
<1>1. /\ Rested /\ BootTakes /\ Copied /\ Loaded
      /\ dir \in [Patches -> DirState] /\ arg \in Patches
      /\ apk \in Apk
  BY DEF CareInv, TypeInv, TypeOK, UseStep, Using, CopyOpen, CopyWrite, RenameInDir,
         ShadowInit, OpenTmp, WriteTmp, UnlinkDb, RenameTmp
<1>2. ~May("disk") /\ ~May("flush")
  BY NothingDisturbs
<1>3. Lib(arg, TRUE) # None /\ NewDb(arg, TRUE) # None /\ NewDb(arg, FALSE) # None
  BY <1>1, FilesThere DEF NewDb
<1> USE DEF Installed, Idle, Using
<1>4. CASE CopyOpen
  <2>1. /\ pc = "use_open" /\ pc' = "use_write" /\ arg' = arg /\ running' = running
        /\ user_db' = user_db
    BY <1>1, <1>2, <1>4, FilesKeep DEF CopyOpen, Goto, Copied
  <2> QED BY <1>1, <2>1 DEF Rested, BootTakes, Copied, Loaded
<1>5. CASE CopyWrite
  <2>1. /\ pc' = "use_rename" /\ arg' = arg /\ running' = running
        /\ data_new' = Lib(arg, TRUE) /\ user_db' = user_db
    BY <1>2, <1>5 DEF CopyWrite, Goto
  <2> QED BY <1>1, <2>1 DEF Rested, BootTakes, Copied, Loaded, Lib
<1>6. CASE RenameInDir
  <2>1. /\ pc = "use_rename" /\ pc' = "use_init" /\ arg' = arg /\ running' = running
        /\ dir'[arg] = "used" /\ data_new' = data_new /\ user_db' = user_db
    BY <1>1, <1>6 DEF RenameInDir, Goto
  <2> QED BY <1>1, <2>1 DEF Rested, BootTakes, Copied, Loaded, Lib
<1>7. CASE ShadowInit
  <2>1. /\ pc = "use_init" /\ pc' = "use_tmp" /\ arg' = arg /\ running' = running
        /\ dir' = dir /\ data_new' = data_new /\ user_db' = user_db
    BY <1>2, <1>7, FilesKeep DEF ShadowInit, Goto
  <2> QED BY <1>1, <2>1 DEF Rested, BootTakes, Copied, Loaded, Lib
<1>8. CASE OpenTmp \/ WriteTmp
  <2>1. /\ pc \in {"use_tmp", "use_flush"} /\ pc' \in {"use_flush", "use_unlink"}
        /\ arg' = arg /\ running' = running
        /\ dir' = dir /\ data_new' = data_new /\ user_db' = user_db
        /\ user_db_tmp' \in {NewDb(arg, FALSE), NewDb(arg, TRUE)}
    BY <1>2, <1>8 DEF OpenTmp, WriteTmp, Goto
  <2>2. user_db_tmp' # None /\ user_db_tmp'.patch = arg /\ ~user_db_tmp'.older
    BY <1>3, <2>1 DEF NewDb
  <2> QED BY <1>1, <2>1, <2>2 DEF Rested, BootTakes, Copied, Loaded, Lib
<1>9. CASE UnlinkDb
  <2>1. /\ pc = "use_unlink" /\ pc' = "use_commit" /\ arg' = arg /\ running' = running
        /\ dir' = dir /\ data_new' = data_new /\ user_db' = None
        /\ user_db_tmp' = user_db_tmp
    BY <1>9 DEF UnlinkDb, Goto
  <2> QED BY <1>1, <2>1 DEF Rested, BootTakes, Copied, Loaded, Lib
<1>10. CASE RenameTmp
  <2>1. /\ pc = "use_commit" /\ pc' = Idle /\ result' = "ok" /\ running' = running
        /\ dir' = dir /\ data_new' = data_new /\ user_db' = user_db_tmp
    BY <1>10 DEF RenameTmp, Return
  <2>2. /\ user_db' # None /\ user_db'.patch = arg /\ ~user_db'.older
        /\ data_new' = Lib(arg, TRUE) /\ dir'[arg] # "absent"
    BY <1>1, <2>1 DEF Copied
  <2> QED BY <1>1, <2>1, <2>2 DEF Rested, BootTakes, Copied, Loaded
<1> QED BY <1>4, <1>5, <1>6, <1>7, <1>8, <1>9, <1>10 DEF UseStep

LEMMA CareBoot ==
    ASSUME TypeInv, WholeInv, FreshInv, Undisturbed, CareInv, BootStep
    PROVE  Rested' /\ BootTakes' /\ Copied' /\ Loaded'
<1>1. /\ Rested /\ BootTakes /\ Copied /\ Loaded
      /\ user_db # None => user_db.patch \in Patches
  BY DEF CareInv, TypeInv, TypeOK, Db
<1>2. \A p \in Patches : Lib(p, TRUE) # None
  BY NoneAssumption, LibType
<1>3. ~May("flush")
  BY NothingDisturbs
<1> USE DEF Installed, Idle, Using, Goto
<1>4. CASE Start
  <2>1. pc = "off" /\ pc' = "boot_read" /\ running' = running /\ UNCHANGED files
    BY <1>4 DEF Start
  <2> QED BY <1>1, <2>1, FilesKeep DEF Rested, BootTakes, Copied, Loaded
<1>5. CASE BootRead
  <2>1. /\ pc = "boot_read" /\ UNCHANGED files
        /\ \/ user_db = None /\ pc' = Idle /\ running' = None
           \/ pc' = "boot_check" /\ running' = running
    BY <1>3, <1>5 DEF BootRead, Unpatched, WholeInv, DbNeverTorn
  <2> QED BY <1>1, <2>1, FilesKeep DEF Rested, BootTakes, Copied, Loaded
<1>6. CASE BootCheck
  <2>1. pc = "boot_check" /\ user_db # None
    BY <1>6 DEF BootCheck, TypeInv, BootHasDb
  <2>2. ~user_db.older /\ user_db.apk = apk /\ dir[user_db.patch] # "absent"
    BY <1>1, <2>1 DEF Rested, Loaded, FreshInv, DbFresh
  <2>3. pc' = "boot_unlink" /\ running' = running /\ UNCHANGED files
    BY <1>6, <2>2 DEF BootCheck
  <2> QED BY <1>1, <2>1, <2>3, FilesKeep DEF Rested, BootTakes, Copied, Loaded
<1>7. CASE BootUnlinkSo
  <2>1. pc = "boot_unlink" /\ user_db # None
    BY <1>7 DEF BootUnlinkSo, TypeInv, BootHasDb
  <2>2. /\ running' = running /\ user_db' = user_db /\ dir' = dir /\ data_new' = data_new
        /\ \/ data_new = None /\ pc' = "boot_open" /\ data_so' = data_so
           \/ data_new # None /\ pc' = "boot_rename"
    BY <1>7, FilesKeep DEF BootUnlinkSo
  <2> QED BY <1>1, <2>1, <2>2 DEF Rested, BootTakes, Copied, Loaded
<1>8. CASE BootRenameSo
  <2>1. pc = "boot_rename" /\ user_db # None
    BY <1>8 DEF BootRenameSo, TypeInv, BootHasDb
  <2>2. /\ running' = running /\ user_db' = user_db /\ dir' = dir
        /\ pc' = "boot_open" /\ data_so' = data_new /\ data_new' = None
    BY <1>8 DEF BootRenameSo
  <2> QED BY <1>1, <2>1, <2>2 DEF Rested, BootTakes, Copied, Loaded
<1>9. CASE BootOpenSo
  <2>1. pc = "boot_open" /\ user_db # None
    BY <1>9 DEF BootOpenSo, TypeInv, BootHasDb
  <2>2. data_new = None /\ data_so = Lib(user_db.patch, TRUE)
    BY <1>1, <1>2, <2>1 DEF Rested, BootTakes
  <2>3. /\ pc' = Idle /\ UNCHANGED files
        /\ running' = [patch |-> user_db.patch, apk |-> user_db.apk, so |-> data_so]
    BY <1>1, <1>2, <1>9, <2>1, <2>2 DEF BootOpenSo, RunPatched
  <2>4. running'.so = Lib(running'.patch, TRUE)
    BY <2>2, <2>3
  <2> QED BY <1>1, <2>1, <2>2, <2>3, <2>4, FilesKeep DEF Rested, BootTakes, Copied, Loaded
<1> QED BY <1>4, <1>5, <1>6, <1>7, <1>8, <1>9 DEF BootStep

LEMMA CareStep ==
    ASSUME TypeInv, WholeInv, FreshInv, CareInv, [Next]_vars
    PROVE  CareInv'
<1>1. Undisturbed' <=> Undisturbed
  BY SettingKept DEF Undisturbed
<1> SUFFICES ASSUME Undisturbed PROVE Rested' /\ BootTakes' /\ Copied' /\ Loaded'
  BY <1>1 DEF CareInv
<1>2. Rested /\ BootTakes /\ Copied /\ Loaded
  BY DEF CareInv
<1>3. CASE Quit
  <2>1. pc = Idle /\ pc' = "off" /\ running' = None /\ UNCHANGED files
    BY <1>3 DEF Quit, Dies
  <2> QED BY <1>2, <2>1, FilesKeep DEF Rested, BootTakes, Copied, Loaded, Installed, Idle, Using
<1>4. CASE UNCHANGED vars
  <2>1. /\ pc' = pc /\ arg' = arg /\ result' = result /\ running' = running
        /\ UNCHANGED files
    BY <1>4 DEF vars
  <2> QED BY <1>2, <2>1, FilesKeep DEF Rested, BootTakes, Copied, Loaded, Installed
<1> QED BY <1>3, <1>4, NothingDisturbs, CareGame, CareUse, CareBoot DEF Next

LEMMA CareAlways == Spec => [](CareInv /\ TypeInv)
<1>1. Init => CareInv
  BY DEF Init, CareInv, Rested, BootTakes, Copied, Loaded, Idle, Using
<1>2. Init => WholeInv /\ FreshInv
  BY DEF Init, WholeInv, DbNeverTorn, TmpWhole, FreshInv, TmpFresh, DbFresh, BootFresh,
         TableMatchesApk
<1>3. TypeInv /\ WholeInv /\ FreshInv /\ CareInv /\ [Next]_vars
        => WholeInv' /\ FreshInv' /\ CareInv'
  BY WholeStep, FreshStep, CareStep
<1> QED BY <1>1, <1>2, <1>3, TypeInvAlways, PTL DEF Spec

\* Where nothing fails, is killed or is updated and the game uses one patch in a
\* start, a patched process loads the whole library of its patch, through every
\* order of patches and rollbacks (prepare_so_lib and pre_process_all_so_lib).
THEOREM LibraryOfPatch == Spec => []SoMatchesPatch
<1>1. CareInv => SoMatchesPatch
  BY DEF CareInv, Loaded, SoMatchesPatch
<1> QED BY CareAlways, <1>1, PTL

\* And there copy_file finds its target free and copies all of the library.
THEOREM LibraryCopyMade == Spec => []CopyMade
<1>1. CareInv => CopyMade
  BY DEF CareInv, Copied, CopyMade, LibraryCopied, Using
<1> QED BY CareAlways, <1>1, PTL
=============================================================================
