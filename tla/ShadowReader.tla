----------------------------- MODULE ShadowReader -----------------------------
(***************************************************************************)
(* One handle on the shadow apk: class ShadowZip (zip/shadow_zip.cpp:508-  *)
(* 682) as the hooks of bootstrap.cpp use it.  A read goes through the     *)
(* partition table one partition per step and opens the real files it      *)
(* needs on the way.  A byte is named by its file and its offset there.    *)
(***************************************************************************)
EXTENDS ShadowLayout, FiniteSets

CONSTANTS
    Shadows,   \* the shadow apks a handle may be opened on (see IsShadow)
    Counts,    \* sizes of the reads and of the line buffers
    Offsets,   \* seek offsets
    IntWidth   \* bits of an int (32 in the program)

\* A partition table that tiles the file, the sizes of the real files, which
\* hold every partition, and the bytes that are newlines.  This is what
\* ShadowZip::init builds (Tiling and InBounds of module ShadowZip).
IsShadow(s) ==
    /\ s.parts \in Seq(FilePartitionInfo) /\ Tiles(s.parts, s.eof)
    /\ s.last \in Nat /\ s.sizes \in [0..s.last -> Nat]
    /\ \A k \in 1..Len(s.parts) :
          /\ s.parts[k].file_index \in 0..s.last
          /\ s.parts[k].stop_in_file =< s.sizes[s.parts[k].file_index]

ASSUME ShadowsAssumption == \A s \in Shadows : IsShadow(s)
ASSUME RequestsAssumption == Counts \subseteq Nat /\ Offsets \subseteq Int
ASSUME WidthAssumption == IntWidth \in Nat \ {0}

VARIABLES
    shadow,    \* the handle's copy of the tables: patch_partitions_, all_files_, end_of_file_
    pc,        \* "closed", "idle" (no call going on), "reading", "aborted"
    pos_,
    fp_array_, \* whether the FILE* of each file index is open (else NULL)
    begin, end, i, ret, got,  \* locals of a running fread; got is what ptr holds
    reply      \* what the last call returned, and the bytes it delivered

call == <<begin, end, i, ret, got>>

\* The locals of a call, which are dead between two calls.
SetCall(from, to, k, read, bytes) ==
    begin' = from /\ end' = to /\ i' = k /\ ret' = read /\ got' = bytes
CallReturns == SetCall(0, 0, 1, 0, <<>>)
vars == <<shadow, pc, pos_, fp_array_, call, reply>>

Null == FALSE
NoFile == [f \in 0..shadow.last |-> Null]
parts == shadow.parts

\* (int)n of a size_t n.
AsInt(n) ==
    LET m == n % 2^IntWidth IN IF m < 2^(IntWidth - 1) THEN m ELSE m - 2^IntWidth

Reply(op, value, bytes) == [op |-> op, ret |-> value, bytes |-> bytes]
Smaller(x, y) == IF x < y THEN x ELSE y

\* The bytes [from, to) of real file f, as far as the file has them.
Bytes(f, from, to) ==
    [k \in 1..(Smaller(to, shadow.sizes[f]) - from) |-> <<f, from + k - 1>>]

Init ==
    /\ shadow \in Shadows
    /\ pc = "closed" /\ pos_ = 0 /\ fp_array_ = NoFile
    /\ begin = 0 /\ end = 0 /\ i = 1 /\ ret = 0 /\ got = <<>>
    /\ reply = Reply("none", 0, <<>>)

-----------------------------------------------------------------------------
\* Mutant: the files already open are left open.
PreparedKeep(f) == [fp_array_ EXCEPT ![f] = TRUE]

\* prepare_file (651-682): f is open if it was; else every other file but the
\* apk is closed and f opened.
Prepared(f) ==
    IF fp_array_[f] # Null THEN fp_array_
    ELSE [g \in DOMAIN fp_array_ |-> g = f \/ (g = 0 /\ fp_array_[0])]

\* ::fopen may fail on a file that is not open yet: out of descriptors, or the
\* patch directory is gone.  The assertion on fp, or the use of the NULL
\* pointer, ends the process.
CannotOpen(f) ==
    /\ fp_array_[f] = Null
    /\ pc' = "aborted" /\ fp_array_' = NoFile
    /\ reply' = Reply("abort", 0, <<>>)
    /\ UNCHANGED <<shadow, pos_, call>>

\* my_fopen, my_open (bootstrap.cpp:512-521, 646-656) on the apk: a new handle
\* with file 0 open, or the real apk when that fails.
Fopen ==
    /\ pc = "closed"
    /\ \/ /\ pc' = "idle" /\ pos_' = 0
          /\ fp_array_' = [NoFile EXCEPT ![0] = TRUE]
          /\ reply' = Reply("open", 0, <<>>)
       \/ /\ UNCHANGED <<pc, pos_, fp_array_>>
          /\ reply' = Reply("open", -1, <<>>)
    /\ UNCHANGED <<shadow, call>>

\* Line 564: an nmemb whose int is not positive.
ReadNothing ==
    /\ pc = "idle"
    /\ \E nmemb \in Counts : AsInt(nmemb) =< 0
    /\ reply' = Reply("read", 0, <<>>)
    /\ UNCHANGED <<shadow, pc, pos_, fp_array_, call>>

\* Mutant: the loop begins with the second partition.
ReadFromSecond ==
    /\ pc = "idle"
    /\ pc' = "reading"
    /\ \E nmemb \in Counts :
          ~ (AsInt(nmemb) =< 0) /\ SetCall(pos_, pos_ + nmemb, 2, 0, <<>>)
    /\ UNCHANGED <<shadow, pos_, fp_array_, reply>>

\* Lines 566-571; size is 1, as in my_read.
Read ==
    /\ pc = "idle"
    /\ pc' = "reading"
    /\ \E nmemb \in Counts :
          ~ (AsInt(nmemb) =< 0) /\ SetCall(pos_, pos_ + nmemb, 1, 0, <<>>)
    /\ UNCHANGED <<shadow, pos_, fp_array_, reply>>

\* Mutant: the index is not advanced past it.
SkipPartitionStuck ==
    /\ pc = "reading" /\ i =< Len(parts)
    /\ begin >= parts[i].shadow_stop
    /\ UNCHANGED vars

\* Lines 574-576: the partition lies before the read.
SkipPartition ==
    /\ pc = "reading" /\ i =< Len(parts)
    /\ begin >= parts[i].shadow_stop
    /\ i' = i + 1
    /\ UNCHANGED <<shadow, pc, pos_, fp_array_, begin, end, ret, got, reply>>

\* Lines 579-580, 615-616: where a request for [from, to) of the shadow file
\* starts and stops in the file of part.
StartInFile(part, from) == from - part.shadow_start + part.start_in_file

\* Mutant: a read that ends in this partition takes all of it.
StopInFileWhole(part, to) == part.stop_in_file

StopInFile(part, to) ==
    IF to >= part.shadow_stop THEN part.stop_in_file
    ELSE to - part.shadow_start + part.start_in_file

\* Lines 577-594.  ret and pos_ count what was asked for, got what ::fread gave.
ReadPartition ==
    /\ pc = "reading" /\ i =< Len(parts)
    /\ begin < parts[i].shadow_stop
    /\ LET part == parts[i]
           f == part.file_index
           read_size == StopInFile(part, end) - StartInFile(part, begin)
           to == begin + read_size
           all == got \o Bytes(f, StartInFile(part, begin), StopInFile(part, end))
       IN  \/ /\ fp_array_' = Prepared(f) /\ pos_' = pos_ + read_size
              /\ IF to >= end
                 THEN /\ pc' = "idle" /\ CallReturns
                      /\ reply' = Reply("read", ret + read_size, all)
                 ELSE /\ SetCall(to, end, i + 1, ret + read_size, all)
                      /\ UNCHANGED <<pc, reply>>
              /\ UNCHANGED shadow
           \/ CannotOpen(f)

\* Line 596: the table has come to its end before the request.
ReadToEof ==
    /\ pc = "reading" /\ i > Len(parts)
    /\ pc' = "idle" /\ CallReturns /\ reply' = Reply("read", ret, got)
    /\ UNCHANGED <<shadow, pos_, fp_array_>>

-----------------------------------------------------------------------------
\* The partition fgets reads from: the first that stops after pos_.
After == {k \in 1..Len(parts) : parts[k].shadow_stop > pos_}
Here == CHOOSE k \in After : \A m \in After : k =< m

\* ::fgets from offset from of file f: up to and with a newline, up to
\* size - 1 bytes, or to the end of the real file.
LineStop(f, from, size) ==
    LET limit == Smaller(from + size - 1, shadow.sizes[f])
        stops == {o \in from + 1..limit : <<f, o - 1>> \in shadow.newlines}
    IN  IF stops = {} THEN limit ELSE CHOOSE o \in stops : \A p \in stops : o =< p

\* fgets (600-634): stop_in_file plays no part in what is read.
Fgets ==
    /\ pc = "idle"
    /\ \E size \in Counts \ {0} :
          \/ /\ After = {}
             /\ reply' = Reply("gets", 0, <<>>)
             /\ UNCHANGED <<pc, pos_, fp_array_>>
          \/ /\ After # {}
             /\ LET f == parts[Here].file_index
                    from == StartInFile(parts[Here], pos_)
                    to == LineStop(f, from, size)
                IN  /\ fp_array_' = Prepared(f)
                    /\ reply' = Reply("gets", 1, Bytes(f, from, to))
                    /\ pos_' = pos_ + (to - from)
             /\ UNCHANGED pc
    /\ UNCHANGED <<shadow, call>>

FgetsAborts == pc = "idle" /\ After # {} /\ CannotOpen(parts[Here].file_index)

\* Mutant: only the end of the file is checked.
FseekBeforeStart ==
    /\ pc = "idle"
    /\ \E base \in {0, pos_, shadow.eof}, offset \in Offsets :
          LET new == base + offset
              fails == new > shadow.eof
          IN  /\ pos_' = IF fails THEN pos_ ELSE new
              /\ reply' = Reply("seek", IF fails THEN -1 ELSE 0, <<>>)
    /\ UNCHANGED <<shadow, pc, fp_array_, call>>

\* fseek (529-548), from the start, from pos_ or from the end.
Fseek ==
    /\ pc = "idle"
    /\ \E base \in {0, pos_, shadow.eof}, offset \in Offsets :
          LET new == base + offset
              fails == new < 0 \/ new > shadow.eof
          IN  /\ pos_' = IF fails THEN pos_ ELSE new
              /\ reply' = Reply("seek", IF fails THEN -1 ELSE 0, <<>>)
    /\ UNCHANGED <<shadow, pc, fp_array_, call>>

Ftell ==
    /\ pc = "idle"
    /\ reply' = Reply("tell", pos_, <<>>)
    /\ UNCHANGED <<shadow, pc, pos_, fp_array_, call>>

Rewind ==
    /\ pc = "idle"
    /\ pos_' = 0 /\ reply' = Reply("rewind", 0, <<>>)
    /\ UNCHANGED <<shadow, pc, fp_array_, call>>

\* The destructor, called by my_fclose and my_close: a loop closes each file that
\* is open and clears its entry.
Fclose ==
    /\ pc = "idle"
    /\ pc' = "closed" /\ fp_array_' = NoFile
    /\ reply' = Reply("close", 0, <<>>)
    /\ UNCHANGED <<shadow, pos_, call>>

Aborted == pc = "aborted" /\ UNCHANGED vars

Reading == SkipPartition \/ ReadPartition \/ ReadToEof
Next ==
    \/ Fopen \/ ReadNothing \/ Read \/ Reading \/ Fgets \/ FgetsAborts
    \/ Fseek \/ Ftell \/ Rewind \/ Fclose \/ Aborted

\* A call that has begun goes on.
Spec == Init /\ [][Next]_vars /\ WF_vars(Reading)

-----------------------------------------------------------------------------
(***************************************************************************)
(* Properties.                                                             *)
(***************************************************************************)
Files == 0..shadow.last

TypeOK ==
    /\ shadow \in Shadows
    /\ pc \in {"closed", "idle", "reading", "aborted"}
    /\ pos_ \in Nat /\ begin \in Nat /\ end \in Nat
    /\ i \in 1..(Len(parts) + 1) /\ ret \in Nat
    /\ got \in Seq(Files \X Nat)
    /\ fp_array_ \in [Files -> BOOLEAN]
    /\ reply.ret \in Int /\ reply.bytes \in Seq(Files \X Nat)

\* What a caller reads at offset x - 1 of the shadow file, by the table.
ByteAt(x) ==
    LET k == CHOOSE k \in 1..Len(parts) :
                 parts[k].shadow_start < x /\ x =< parts[k].shadow_stop
    IN  <<parts[k].file_index, StartInFile(parts[k], x - 1)>>

\* The handle is one flat file to its caller.  While a read runs, its position
\* is still the one it had before: pos_ - ret.
Flat == INSTANCE FlatFile WITH
    content <- [x \in 1..shadow.eof |-> ByteAt(x)],
    newlines <- shadow.newlines,
    is_open <- pc \in {"idle", "reading"},
    pos <- pos_ - ret,
    Served <- {n \in Counts : ~ (AsInt(n) =< 0)}

\* Every call answers and delivers what the same call on the flat shadow apk
\* would: across partitions, empty partitions, seeks, short reads at the end.
ReadsAsOneFile == Flat!Spec

\* The assertion of lines 577 and 613: the partition a read has come to begins
\* no later than the place it reads from.
NoGap ==
    (pc = "reading" /\ i =< Len(parts) /\ begin < parts[i].shadow_stop)
        => begin >= parts[i].shadow_start

\* The comment at line 657: besides the apk a handle has at most one file open,
\* however many patch files a read goes through.
OneFileOpen == Cardinality({f \in Files \ {0} : fp_array_[f]}) =< 1

\* A read that has begun returns, or the process ends.
ReadReturns == pc = "reading" ~> pc \in {"idle", "aborted"}

\* Readme.md:23 of a line read through the hooks: its bytes are the bytes of
\* the shadow apk before the position the handle then has.
LineMapped ==
    (pc = "idle" /\ reply.op = "gets" /\ reply.ret = 1) =>
        LET n == Len(reply.bytes) IN
        /\ pos_ =< shadow.eof
        /\ \A k \in 1..n : reply.bytes[k] = ByteAt(pos_ - n + k)
=============================================================================
