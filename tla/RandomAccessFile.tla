------------------------- MODULE RandomAccessFile -------------------------
(***************************************************************************)
(* What libtiff takes for granted of the client procedures handed to       *)
(* TIFFClientOpen (tif_open.c): an open file of Len bytes with a current   *)
(* position.  A seek that succeeds has moved the position where it says; a *)
(* read delivers the bytes found at the position; every call may fail, and *)
(* after a failure the position is unknown until the next successful seek. *)
(* The byte at offset i of the file is written i: a byte is told apart     *)
(* from every other by its offset.                                         *)
(***************************************************************************)
EXTENDS Integers

CONSTANTS Len,        \* bytes in the file
          MaxSize,    \* largest read asked for (a bound of the client)
          MaxOffset   \* largest offset asked for (a bound of the client)

VARIABLES open,  \* the handle has not been closed
          pos,   \* the position, or NoPos after a failed call
          req,   \* the outstanding request, or NoReq
          ans    \* the answer to the last request, or NoAns

vars == <<open, pos, req, ans>>

NoPos == -1
NoReq == [op |-> "none", arg |-> 0]
NoAns == [ret |-> -2, data |-> <<>>]

\* n bytes of the file from offset p on, as the caller's buffer holds them.
Bytes(p, n) == [i \in 0..(n - 1) |-> p + i]

Init == /\ open = TRUE
        /\ pos = 0
        /\ req = NoReq
        /\ ans = NoAns

Ask(op, arg) == /\ open
                /\ req = NoReq
                /\ req' = [op |-> op, arg |-> arg]
                /\ ans' = NoAns
                /\ UNCHANGED <<open, pos>>

\* The client reads only where it knows the position: at the start, after a
\* successful seek and after a successful read.
AskRead == pos # NoPos /\ \E n \in 1..MaxSize : Ask("read", n)
AskSeek == \E o \in 0..MaxOffset : Ask("seek", o)
AskSize == Ask("size", 0)
AskClose == Ask("close", 0)

Answer(ret, data) == /\ req' = NoReq
                     /\ ans' = [ret |-> ret, data |-> data]

ReadFull == /\ req.op = "read"
            /\ pos + req.arg <= Len
            /\ Answer(req.arg, Bytes(pos, req.arg))
            /\ pos' = pos + req.arg
            /\ UNCHANGED open

\* A short read: what it delivers is still a prefix of what was asked for.
ReadShort == /\ req.op = "read"
             /\ \E n \in 0..(req.arg - 1) :
                   /\ n = 0 \/ pos + n <= Len
                   /\ Answer(n, Bytes(pos, n))
             /\ pos' = NoPos
             /\ UNCHANGED open

SeekDone == /\ req.op = "seek"
            /\ Answer(req.arg, <<>>)
            /\ pos' = req.arg
            /\ UNCHANGED open

SeekFailed == /\ req.op = "seek"
              /\ Answer(-1, <<>>)
              /\ pos' = NoPos
              /\ UNCHANGED open

\* The size is what the file claims: never more than it holds.
Size == /\ req.op = "size"
        /\ \E n \in 0..Len : Answer(n, <<>>)
        /\ UNCHANGED <<open, pos>>

Close == /\ req.op = "close"
         /\ \E r \in {0, -1} : Answer(r, <<>>)
         /\ open' = FALSE
         /\ UNCHANGED pos

Next == \/ AskRead \/ AskSeek \/ AskSize \/ AskClose
        \/ ReadFull \/ ReadShort \/ SeekDone \/ SeekFailed \/ Size \/ Close

Spec == Init /\ [][Next]_vars
=============================================================================
