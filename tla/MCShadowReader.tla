--------------------------- MODULE MCShadowReader ---------------------------
(***************************************************************************)
(* Shadow apks of three partitions and a directory, some of them empty     *)
(* (what PadHeader leaves for stored files without data), in an order of   *)
(* files that has a read stay in a file, move on to others, and come back  *)
(* to one it has closed.                                                   *)
(***************************************************************************)
EXTENDS ShadowReader, SequencesExt

CONSTANTS Lined  \* whether a line ends with each partition

MCCounts == {0, 1, 3, 7, 8}
MCOffsets == {-1, 0, 3}

\* File 0 is the apk, 1 and 2 patches, 3 the directory.  Partition k has its
\* bytes at 4 * k of its file, and no two share bytes.
Lens == {0, 2}
Orders == {<<0, 1, 2>>, <<1, 0, 1>>, <<0, 0, 1>>, <<1, 2, 1>>}
Shadow(lens, files) ==
    LET start[k \in 1..4] == IF k = 1 THEN 0 ELSE start[k - 1] + lens[k - 1]
        three == [k \in 1..3 |->
                     Partition(start[k], start[k] + lens[k], files[k], 4 * k, 4 * k + lens[k])]
    IN  [parts |-> Append(three, Partition(start[4], start[4] + 2, 3, 0, 2)),
         eof |-> start[4] + 2, last |-> 3,
         sizes |-> [f \in 0..3 |-> IF f = 3 THEN 2 ELSE 16],
         newlines |-> IF Lined
                      THEN {<<files[k], 4 * k + lens[k] - 1>> : k \in 1..3} \cup {<<3, 1>>}
                      ELSE {}]

MCShadows == {Shadow(lens, files) : lens \in [1..3 -> Lens], files \in Orders}
=============================================================================
