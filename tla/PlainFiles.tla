------------------------------ MODULE PlainFiles ------------------------------
(***************************************************************************)
(* What the engine believes of open, read, lseek and close: a descriptor   *)
(* is one file with one position from its open to its close, whatever      *)
(* other threads do.  Opening the apk gives the shadow apk or, if that     *)
(* cannot be had, the apk as installed.  A failing system call may lose    *)
(* the shadow apk behind one descriptor, which then tells nothing certain, *)
(* and behind no other.  FileMapping implements it.                        *)
(***************************************************************************)
EXTENDS Naturals

CONSTANTS
    Fds,
    Length,   \* of every file: a read takes one unit of it
    None

VARIABLES
    table,    \* the open descriptors
    reply,    \* what the last call to return has returned
    alive     \* whether the process is

vars == <<table, reply, alive>>

Whats == {"shadow", "apk", "other"}
File == [what : Whats, pos : 0..Length]
Lost == [what |-> "lost", pos |-> 0]

Reply(op, what, pos) == [op |-> op, what |-> what, pos |-> pos]
Returns(op, what, pos) == reply' = Reply(op, what, pos)

Init ==
    /\ table = [fd \in Fds |-> None]
    /\ reply = Reply("none", "none", 0)
    /\ alive = TRUE

Open ==
    \E fd \in Fds, what \in Whats :
        /\ table[fd] = None
        /\ \/ table' = [table EXCEPT ![fd] = [what |-> what, pos |-> 0]]
           \/ what = "shadow" /\ table' = [table EXCEPT ![fd] = Lost]
        /\ Returns("open", what, 0)
        /\ UNCHANGED alive

\* The unit at the position, or nothing at the end of the file.
Read ==
    \E fd \in Fds :
        /\ table[fd] \notin {None, Lost}
        /\ Returns("read", table[fd].what, table[fd].pos)
        /\ table' = [table EXCEPT ![fd].pos = IF @ < Length THEN @ + 1 ELSE @]
        /\ UNCHANGED alive

Seek ==
    \E fd \in Fds, to \in 0..Length :
        /\ table[fd] \notin {None, Lost}
        /\ table' = [table EXCEPT ![fd].pos = to]
        /\ Returns("seek", table[fd].what, to)
        /\ UNCHANGED alive

Close ==
    \E fd \in Fds :
        /\ table[fd] \notin {None, Lost}
        /\ table' = [table EXCEPT ![fd] = None]
        /\ Returns("close", table[fd].what, 0)
        /\ UNCHANGED alive

Lose ==
    \E fd \in Fds :
        /\ table[fd] \notin {None, Lost} /\ table[fd].what = "shadow"
        /\ table' = [table EXCEPT ![fd] = Lost]
        /\ UNCHANGED <<reply, alive>>

\* A call on a lost file is served by the shadow apk or by the file that should
\* lead to it.
UseLost ==
    \E fd \in Fds, op \in {"read", "seek", "close"},
       what \in {"shadow", "mapping"}, pos \in 0..Length :
        /\ table[fd] = Lost
        /\ table' = IF op = "close" THEN [table EXCEPT ![fd] = None] ELSE table
        /\ Returns(op, what, pos)
        /\ UNCHANGED alive

\* The process exits.
Exit == alive /\ alive' = FALSE /\ UNCHANGED <<table, reply>>

Next == Exit \/ (alive /\ (Open \/ Read \/ Seek \/ Close \/ Lose \/ UseLost))

Spec == Init /\ [][Next]_vars
=============================================================================
