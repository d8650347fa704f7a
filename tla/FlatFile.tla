------------------------------ MODULE FlatFile ------------------------------
(***************************************************************************)
(* What a caller of the hooked stdio functions is promised: one read-only  *)
(* file, the shadow apk, as if it lay on disk in one piece.  A call is one *)
(* step that sets reply.  ShadowReader is shown to implement it.           *)
(***************************************************************************)
EXTENDS Integers, Sequences

CONSTANTS
    Counts,    \* what a caller may ask a read or a line buffer to hold
    Served,    \* the counts of them a read serves; others read nothing
    Offsets    \* what a caller may seek by

VARIABLES
    content,   \* the bytes of the file
    newlines,  \* the bytes that end a line
    is_open, pos,
    reply      \* of the last call

vars == <<content, newlines, is_open, pos, reply>>
file == <<content, newlines>>

Eof == Len(content)
Slice(from, to) == SubSeq(content, from + 1, to)
Smaller(x, y) == IF x < y THEN x ELSE y

Reply(op, ret, bytes) == [op |-> op, ret |-> ret, bytes |-> bytes]

Init ==
    /\ is_open = FALSE /\ pos = 0
    /\ reply = Reply("none", 0, <<>>)

\* The handle is at the start of the file; or the open fails and the caller is
\* given the unpatched apk instead.
Open ==
    /\ ~is_open
    /\ \/ is_open' = TRUE /\ pos' = 0 /\ reply' = Reply("open", 0, <<>>)
       \/ UNCHANGED <<is_open, pos>> /\ reply' = Reply("open", -1, <<>>)
    /\ UNCHANGED file

\* The bytes from pos on, as many as there are; ret counts them.
Read ==
    /\ is_open
    /\ \E n \in Counts :
          LET end == Smaller(pos + n, Eof)
              to == IF n \in Served /\ end > pos THEN end ELSE pos
          IN  /\ reply' = Reply("read", to - pos, Slice(pos, to))
              /\ pos' = to
    /\ UNCHANGED <<file, is_open>>

\* One line, up to and with its newline, or size - 1 bytes of it.
LineEnd(size) ==
    LET limit == Smaller(pos + size - 1, Eof)
        ends == {x \in pos + 1..limit : content[x] \in newlines}
    IN  IF ends = {} THEN limit ELSE CHOOSE x \in ends : \A y \in ends : x =< y

Gets ==
    /\ is_open
    /\ \E size \in Counts \ {0} :
          IF pos >= Eof
          THEN reply' = Reply("gets", 0, <<>>) /\ pos' = pos
          ELSE reply' = Reply("gets", 1, Slice(pos, LineEnd(size))) /\ pos' = LineEnd(size)
    /\ UNCHANGED <<file, is_open>>

\* SEEK_SET, SEEK_CUR and SEEK_END, to a place inside the file.
Seek ==
    /\ is_open
    /\ \E base \in {0, pos, Eof}, offset \in Offsets :
          LET to == base + offset
          IN  IF to \in 0..Eof
              THEN reply' = Reply("seek", 0, <<>>) /\ pos' = to
              ELSE reply' = Reply("seek", -1, <<>>) /\ pos' = pos
    /\ UNCHANGED <<file, is_open>>

Tell == is_open /\ reply' = Reply("tell", pos, <<>>) /\ UNCHANGED <<file, is_open, pos>>

Rewind == is_open /\ pos' = 0 /\ reply' = Reply("rewind", 0, <<>>) /\ UNCHANGED <<file, is_open>>

Close ==
    /\ is_open /\ is_open' = FALSE
    /\ reply' = Reply("close", 0, <<>>)
    /\ UNCHANGED <<file, pos>>

\* A file of the patch cannot be opened: the process ends.
Abort ==
    /\ is_open /\ is_open' = FALSE
    /\ reply' = Reply("abort", 0, <<>>)
    /\ UNCHANGED <<file, pos>>

Next == Open \/ Read \/ Gets \/ Seek \/ Tell \/ Rewind \/ Close \/ Abort

Spec == Init /\ [][Next]_vars
=============================================================================
