---------------------------- MODULE PatchLifecycle ----------------------------
(***************************************************************************)
(* How a patch is put to use and how the next start of the application     *)
(* takes it up: use_data_dir and extract_patch_info (bootstrap.cpp:67-362),*)
(* and the files that carry the decision from one process to the next.     *)
(*                                                                         *)
(* A step is one call that changes a file.  The process may be killed      *)
(* between any two of them and the package may be updated at any time.     *)
(* Each patch has one native library, libil2cpp.so.                        *)
(***************************************************************************)
EXTENDS Integers

CONSTANTS
    Patches,      \* the patches, each with a directory of its own
    None,         \* no such file, no patch
    Settings      \* what a device, a player and a game may do to each other:
                  \*   faults: "disk", a call on a file fails; "flush", a write
                  \*     fails that fclose is the first to report
                  \*   careful: the game calls use_data_dir once in a start, on a
                  \*     directory that has its .new file (bootstrap.cpp:142)
                  \*   updates, crashes: how often, a bound

Setting == [faults : SUBSET {"disk", "flush"}, careful : BOOLEAN, updates : Nat, crashes : Nat]

ASSUME SettingsAssumption == Settings \subseteq Setting

VARIABLES
    pc,           \* where the process is; "off" when there is none
    arg,          \* the patch use_data_dir was called with
    result,       \* what it returned in this start: "none", "ok", "error"
    running,      \* what the process runs with, None if unpatched
    user_db, user_db_tmp,  \* the two files of that name
    data_new,     \* data/files/libil2cpp.so.new
    data_so,      \* data/files/libil2cpp.so
    dir,          \* the patch directories
    apk,          \* the installed apk
    crashes,      \* how often the process was killed
    setting       \* the setting of this device, which does not change

files == <<user_db, user_db_tmp, data_new, data_so, dir>>
vars == <<pc, arg, result, running, files, apk, crashes, setting>>

\* A library that was copied: of which patch, and whether all of it.
Library == [patch : Patches, whole : BOOLEAN]
Lib(p, whole) == [patch |-> p, whole |-> whole]

\* user.db: the patch, the apk its table was computed for, whether all of it
\* was written, and whether the apk's modification time is later than its own.
Apk == [version : Nat, path : Nat]
Db == [patch : Patches, apk : Apk, whole : BOOLEAN, older : BOOLEAN]
NewDb(p, whole) == [patch |-> p, apk |-> apk, whole |-> whole, older |-> FALSE]

ASSUME NoneAssumption == None \notin Patches /\ None \notin Library /\ None \notin Db

\* A directory is absent, or has the library under its .new or its own name.
DirState == {"absent", "new", "used"}

\* The steps of a start and of use_data_dir; Idle between calls.
Booting == {"boot_read", "boot_check", "boot_unlink", "boot_rename", "boot_open"}
Using == {"use_open", "use_write", "use_rename", "use_init", "use_tmp", "use_flush",
          "use_unlink", "use_commit"}
Idle == "idle"

Init ==
    /\ pc = "off" /\ arg = None /\ result = "none" /\ running = None
    /\ user_db = None /\ user_db_tmp = None /\ data_new = None /\ data_so = None
    /\ dir = [p \in Patches |-> "absent"]
    /\ apk = [version |-> 0, path |-> 0]
    /\ crashes = 0
    /\ setting \in Settings

-----------------------------------------------------------------------------
(***************************************************************************)
(* What happens around the process.                                        *)
(***************************************************************************)
\* The process is gone; what is on disk stays.
Dies == pc' = "off" /\ arg' = None /\ result' = "none" /\ running' = None

Crash ==
    /\ pc # "off" /\ crashes < setting.crashes
    /\ Dies /\ crashes' = crashes + 1
    /\ UNCHANGED <<files, apk, setting>>

\* The player leaves the game.
Quit ==
    /\ pc = Idle
    /\ Dies
    /\ UNCHANGED <<files, apk, crashes, setting>>

\* The package is updated: the process is killed, the apk is a new file, at
\* the same path or another, and later than a user.db written before.
UpdateApk ==
    /\ apk.version < setting.updates
    /\ Dies
    /\ \E path \in {apk.path, apk.path + 1} :
          apk' = [version |-> apk.version + 1, path |-> path]
    /\ user_db' = IF user_db = None THEN None ELSE [user_db EXCEPT !.older = TRUE]
    /\ UNCHANGED <<user_db_tmp, data_new, data_so, dir, crashes, setting>>

\* The game downloads a patch, or renames the library of one back to .new
\* ("if rollback, rename back before prepare_so_lib", bootstrap.cpp:142).
ProvideNew(p) ==
    /\ pc = Idle /\ dir[p] \in {"absent", "used"}
    /\ dir' = [dir EXCEPT ![p] = "new"]
    /\ UNCHANGED <<pc, arg, result, running, user_db, user_db_tmp, data_new, data_so,
                   apk, crashes, setting>>

\* It deletes the directory of a patch that is not to be used.
DeleteDir(p) ==
    /\ pc = Idle /\ dir[p] # "absent" /\ (user_db # None => user_db.patch # p)
    /\ dir' = [dir EXCEPT ![p] = "absent"]
    /\ UNCHANGED <<pc, arg, result, running, user_db, user_db_tmp, data_new, data_so,
                   apk, crashes, setting>>

-----------------------------------------------------------------------------
(***************************************************************************)
(* use_data_dir (164-222), prepare_so_lib (112-154), copy_file (67-110).   *)
(***************************************************************************)
May(fault) == fault \in setting.faults

Goto(step) == pc' = step /\ UNCHANGED <<arg, result, running, apk, crashes, setting>>

Return(value) ==
    /\ pc' = Idle /\ arg' = None /\ result' = value
    /\ UNCHANGED <<running, apk, crashes, setting>>

\* exit(-1)
Exit == Dies /\ UNCHANGED <<apk, crashes, setting>>

\* An empty path: no patch from the next start on (168-171).
UseNone ==
    /\ pc = Idle /\ (setting.careful => result = "none")
    /\ user_db' = None
    /\ Return("ok")
    /\ UNCHANGED <<user_db_tmp, data_new, data_so, dir>>

UseStart(p) ==
    /\ pc = Idle /\ (setting.careful => result = "none" /\ dir[p] = "new")
    /\ IF dir[p] = "absent"
       THEN Return("error")
       ELSE pc' = "use_open" /\ arg' = p /\ UNCHANGED <<result, running, apk, crashes, setting>>
    /\ UNCHANGED files

\* copy_file begins: nothing to copy, or O_EXCL finds a file of that name, or
\* the open fails, or there is a new empty file.
CopyOpen ==
    /\ pc = "use_open"
    /\ \/ dir[arg] # "new" /\ Goto("use_init") /\ UNCHANGED files
       \/ /\ dir[arg] = "new" /\ (data_new # None \/ May("disk"))
          /\ Goto("use_rename") /\ UNCHANGED files
       \/ /\ dir[arg] = "new" /\ data_new = None
          /\ data_new' = Lib(arg, FALSE)
          /\ Goto("use_write")
          /\ UNCHANGED <<user_db, user_db_tmp, data_so, dir>>

\* Mutant: one buffer is copied.
CopyWriteOnce ==
    /\ pc = "use_write"
    /\ data_new' = Lib(arg, FALSE)
    /\ Goto("use_rename")
    /\ UNCHANGED <<user_db, user_db_tmp, data_so, dir>>

\* The copy ends, or a write fails; prepare_so_lib does not look which.
CopyWrite ==
    /\ pc = "use_write"
    /\ \E whole \in IF May("disk") THEN BOOLEAN ELSE {TRUE} : data_new' = Lib(arg, whole)
    /\ Goto("use_rename")
    /\ UNCHANGED <<user_db, user_db_tmp, data_so, dir>>

\* unlink(146), rename(147): killed between the two the .new file is still there.
RenameInDir ==
    /\ pc = "use_rename"
    /\ dir' = [dir EXCEPT ![arg] = "used"]
    /\ Goto("use_init")
    /\ UNCHANGED <<user_db, user_db_tmp, data_new, data_so>>

\* ShadowZip::init (module ShadowZip) on the apk as it is: done, -1 or exit(-1).
ShadowInit ==
    /\ pc = "use_init"
    /\ Goto("use_tmp") \/ (May("disk") /\ (Return("error") \/ Exit))
    /\ UNCHANGED files

\* Mutant: user.db itself is opened and written.
OpenFormal ==
    /\ pc = "use_tmp"
    /\ user_db' = NewDb(arg, FALSE) /\ user_db_tmp' = NewDb(arg, FALSE)
    /\ Goto("use_flush")
    /\ UNCHANGED <<data_new, data_so, dir>>

OpenTmp ==
    /\ pc = "use_tmp"
    /\ \/ /\ user_db_tmp' = NewDb(arg, FALSE)
          /\ Goto("use_flush")
          /\ UNCHANGED <<user_db, data_new, data_so, dir>>
       \/ May("disk") /\ Return("error") /\ UNCHANGED files

\* The serial_ calls write all of it, or one fails and exits (211-217), or what
\* stdio still holds is lost in fclose, whose result is not looked at (218).
WriteTmp ==
    /\ pc = "use_flush"
    /\ \/ /\ \E whole \in IF May("flush") THEN BOOLEAN ELSE {TRUE} :
                user_db_tmp' = NewDb(arg, whole)
          /\ Goto("use_unlink")
          /\ UNCHANGED <<user_db, data_new, data_so, dir>>
       \/ May("disk") /\ Exit /\ UNCHANGED files

UnlinkDb ==
    /\ pc = "use_unlink"
    /\ user_db' = None
    /\ Goto("use_commit")
    /\ UNCHANGED <<user_db_tmp, data_new, data_so, dir>>

RenameTmp ==
    /\ pc = "use_commit"
    /\ user_db' = user_db_tmp /\ user_db_tmp' = None
    /\ Return("ok")
    /\ UNCHANGED <<data_new, data_so, dir>>

-----------------------------------------------------------------------------
(***************************************************************************)
(* bootstrap (801-826): extract_patch_info (264-362) and                   *)
(* pre_process_all_so_lib (224-260).                                       *)
(***************************************************************************)
Start ==
    /\ pc = "off"
    /\ Goto("boot_read")
    /\ UNCHANGED files

\* return false: the application runs as it was installed.
Unpatched == pc' = Idle /\ running' = None /\ UNCHANGED <<arg, result, apk, crashes, setting>>

\* One cut off in its first word has no magic number, one cut off later ends
\* the process.
ReadTorn == Unpatched \/ Exit

BootRead ==
    /\ pc = "boot_read"
    /\ \/ user_db = None /\ Unpatched
       \/ user_db # None /\ ~user_db.whole /\ ReadTorn
       \/ user_db # None /\ user_db.whole /\ Goto("boot_check")
    /\ UNCHANGED files

\* Mutant: the modification times are not compared.
BootCheckNoTime ==
    /\ pc = "boot_check"
    /\ LET gone == dir[user_db.patch] = "absent" \/ user_db.apk.path # apk.path
       IN  \/ gone /\ Unpatched /\ UNCHANGED files
           \/ ~gone /\ Goto("boot_unlink") /\ UNCHANGED files

\* Lines 310-335: the directory, the apk at the path it had, the times.
BootCheck ==
    /\ pc = "boot_check"
    /\ LET gone == dir[user_db.patch] = "absent" \/ user_db.apk.path # apk.path
       IN  \/ gone /\ Unpatched /\ UNCHANGED files
           \/ /\ ~gone /\ user_db.older
              /\ user_db' = None
              /\ Unpatched
              /\ UNCHANGED <<user_db_tmp, data_new, data_so, dir>>
           \/ ~gone /\ ~user_db.older /\ Goto("boot_unlink") /\ UNCHANGED files

\* Mutant: a library that is there is kept.
BootKeepSo ==
    /\ pc = "boot_unlink"
    /\ IF data_new = None \/ data_so # None THEN Goto("boot_open") ELSE Goto("boot_rename")
    /\ UNCHANGED files

\* Mutant: the new library leaves its name before it has the other one.
BootTakeNew ==
    /\ pc = "boot_unlink"
    /\ IF data_new = None THEN Goto("boot_open") /\ UNCHANGED files
       ELSE /\ data_so' = None /\ data_new' = None /\ Goto("boot_open")
            /\ UNCHANGED <<user_db, user_db_tmp, dir>>

\* unlink(251): a .new file is about to take the place of the library.
BootUnlinkSo ==
    /\ pc = "boot_unlink"
    /\ \/ data_new = None /\ Goto("boot_open") /\ UNCHANGED files
       \/ /\ data_new # None
          /\ data_so' = None
          /\ Goto("boot_rename")
          /\ UNCHANGED <<user_db, user_db_tmp, data_new, dir>>

\* Mutant: after a rename the directory is read again, and the file found again.
BootRenameAgain ==
    /\ pc = "boot_rename"
    /\ data_so' = data_new
    /\ Goto("boot_unlink")
    /\ UNCHANGED <<user_db, user_db_tmp, data_new, dir>>

BootRenameSo ==
    /\ pc = "boot_rename"
    /\ data_so' = data_new /\ data_new' = None
    /\ Goto("boot_open")
    /\ UNCHANGED <<user_db, user_db_tmp, dir>>

RunPatched ==
    /\ running' = [patch |-> user_db.patch, apk |-> user_db.apk, so |-> data_so]
    /\ pc' = Idle
    /\ UNCHANGED <<arg, result, apk, crashes, setting>>

\* Mutant: the library is not opened to see that it is there.
BootOpenSoBlind == pc = "boot_open" /\ RunPatched /\ UNCHANGED files

\* Lines 343-361: without the library, no patch.
BootOpenSo ==
    /\ pc = "boot_open"
    /\ (data_so = None /\ Unpatched) \/ (data_so # None /\ RunPatched)
    /\ UNCHANGED files

BootStep ==
    Start \/ BootRead \/ BootCheck \/ BootUnlinkSo \/ BootRenameSo \/ BootOpenSo
UseStep ==
    \/ CopyOpen \/ CopyWrite \/ RenameInDir \/ ShadowInit \/ OpenTmp \/ WriteTmp
    \/ UnlinkDb \/ RenameTmp
GameStep == UseNone \/ \E p \in Patches : UseStart(p) \/ ProvideNew(p) \/ DeleteDir(p)

Next == BootStep \/ UseStep \/ GameStep \/ Crash \/ Quit \/ UpdateApk

\* The application is started again and a start that has begun goes on.
Spec == Init /\ [][Next]_vars /\ WF_vars(BootStep)

-----------------------------------------------------------------------------
(***************************************************************************)
(* Properties.                                                             *)
(***************************************************************************)
Running == [patch : Patches, apk : Apk, so : Library]

TypeOK ==
    /\ pc \in {"off", Idle} \cup Booting \cup Using
    /\ arg \in Patches \cup {None} /\ (pc \in Using => arg \in Patches)
    /\ result \in {"none", "ok", "error"}
    /\ running \in Running \cup {None}
    /\ user_db \in Db \cup {None} /\ user_db_tmp \in Db \cup {None}
    /\ data_new \in Library \cup {None} /\ data_so \in Library \cup {None}
    /\ dir \in [Patches -> DirState]
    /\ apk \in Apk /\ crashes \in Nat /\ setting \in Setting

\* Unless fclose loses data, a user.db that is there has all of its bytes, however
\* the process is killed and whatever else fails: extract_patch_info exits on a
\* short one, at every start again.
DbNeverTorn == (user_db # None /\ ~May("flush")) => user_db.whole

\* The table a patched process reads the apk through was computed for the apk
\* that is installed, through every order of updates, kills and new patches.
TableMatchesApk == running # None => running.apk = apk

\* A careful game on a device where nothing fails, is killed or is updated.
Undisturbed ==
    setting.careful /\ setting.faults = {} /\ setting.updates = 0 /\ setting.crashes = 0

\* There, through every order of patches and rollbacks, the library a patched
\* process loads is the whole library of its patch.
SoMatchesPatch == (Undisturbed /\ running # None) => running.so = Lib(running.patch, TRUE)

\* The comment at bootstrap.cpp:134: copy_file leaves the library of the patch
\* under the name the next start takes it from.
LibraryCopied == pc = "use_rename" => data_new = Lib(arg, TRUE)

\* It does so where nothing disturbs it.
CopyMade == Undisturbed => LibraryCopied

\* A start on a user.db that has all of its bytes gets to the running
\* application, whatever an earlier process left half done (crashes are bounded,
\* so from some time on there is none).
BootEnds ==
    (pc \in Booting /\ (user_db # None => user_db.whole)) ~> pc = Idle

\* user.db names the patch, is good for the installed apk, and the library of a
\* patch is under one of its two names.
Ready(p) ==
    /\ user_db # None /\ user_db.patch = p /\ user_db.whole
    /\ ~user_db.older /\ user_db.apk.path = apk.path
    /\ dir[p] # "absent" /\ (data_new # None \/ data_so # None)

\* An application that is started with such a user.db comes to run that patch,
\* also when starts are killed, between unlink and rename of its library too,
\* unless the package is updated first.
PatchTakesEffect ==
    \A p \in Patches :
        (pc = "off" /\ Ready(p))
            ~> \/ running # None /\ running.patch = p
               \/ user_db # None /\ user_db.older
=============================================================================
