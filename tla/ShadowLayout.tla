---------------------------- MODULE ShadowLayout ----------------------------
(***************************************************************************)
(* The partition table of the shadow apk (zip/shadow_zip.h:11-24): which   *)
(* bytes of which real file stand for which bytes of the shadow file.      *)
(* ShadowZip::init builds the table, every ShadowZip handle reads through  *)
(* it, and user.db keeps it between two starts of the application.         *)
(***************************************************************************)
EXTENDS Integers, Sequences

\* struct FilePartitionInfo: [shadow_start, shadow_stop) of the shadow file is
\* [start_in_file, stop_in_file) of file file_index.
FilePartitionInfo ==
    [shadow_start : Nat, shadow_stop : Nat, file_index : Nat,
     start_in_file : Nat, stop_in_file : Nat]

Partition(shadow_start, shadow_stop, file_index, start_in_file, stop_in_file) ==
    [shadow_start |-> shadow_start, shadow_stop |-> shadow_stop,
     file_index |-> file_index,
     start_in_file |-> start_in_file, stop_in_file |-> stop_in_file]

\* Where partition k of a table that covers the shadow file has to begin.
StopBefore(parts, k) == IF k = 1 THEN 0 ELSE parts[k - 1].shadow_stop

\* The partitions follow each other without gap or overlap from 0 to eof, and
\* each has as many bytes in its file as in the shadow file.
Tiles(parts, eof) ==
    /\ \A k \in 1..Len(parts) :
          /\ parts[k].shadow_start = StopBefore(parts, k)
          /\ parts[k].shadow_start =< parts[k].shadow_stop
          /\ parts[k].start_in_file =< parts[k].stop_in_file
          /\ parts[k].shadow_stop
               = parts[k].shadow_start + (parts[k].stop_in_file - parts[k].start_in_file)
    /\ eof = StopBefore(parts, Len(parts) + 1)

\* The len bytes of the shadow file from x on are the len bytes of file f from
\* offset o on, through one partition.
Maps(parts, x, len, f, o) ==
    \E k \in 1..Len(parts) :
        /\ parts[k].file_index = f
        /\ parts[k].shadow_start =< x
        /\ x + len =< parts[k].shadow_stop
        /\ o - parts[k].start_in_file = x - parts[k].shadow_start
=============================================================================
