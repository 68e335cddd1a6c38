-------------------------- MODULE TiffInputStream --------------------------
(***************************************************************************)
(* The client procedures libtiff reads a Java stream through               *)
(* (TiffInputStream.cpp) on top of the JNI wrapper of that stream          *)
(* (JavaInputStreamAdaptor.cpp).  Every call into Java is a step of its    *)
(* own; the client that issues the requests is libtiff in read mode.       *)
(*                                                                         *)
(* The byte of the stream at offset i is written i, so that data out of    *)
(* place shows.  Offset 0 is where the stream stands when decode starts.   *)
(***************************************************************************)
EXTENDS JavaInputStream

CONSTANTS Capacity,   \* length of the byte array lent by the Java caller
          Word,       \* 2^32: the width of the C++ unsigned int and of jint
          MaxSize,    \* bound: largest read asked for
          MaxOffset,  \* bound: largest offset asked for
          Origins     \* the values of whence the client uses

ASSUME ClientAssumption ==
  /\ Capacity \in Nat \ {0}
  /\ Word \in Nat \ {0}
  /\ MaxSize \in Nat
  /\ MaxOffset \in Nat
  /\ Origins \subseteq {"beg", "cur", "end"}

VARIABLES jpos,            \* next byte the Java stream delivers
          readLimit,       \* of the mark, once it is set
          pending,         \* a Java exception is pending
          skipThrew,       \* history: the last skip() ended in an exception
          fIsAtEnd,
          m_inStream,      \* NULL, or the wrapper
          m_streamLength,
          pc,              \* the Java call that comes next
          req,             \* the request libtiff has outstanding
          origin,          \* its whence
          ans,             \* what the last request was answered
          fpos,            \* the position libtiff is told, or NoPos
          buf,             \* the buffer libtiff passed in
          size, bytesRead, \* of doRead
          skipSize         \* of seekInt

streamVars == <<jpos, readLimit>>
callVars == <<buf, size, bytesRead, skipSize>>
vars == <<jpos, readLimit, pending, skipThrew, fIsAtEnd, m_inStream,
          m_streamLength, pc, req, origin, ans, fpos, buf, size, bytesRead,
          skipSize>>

NoPos == -1
NoReq == [op |-> "none", arg |-> 0]
NoAns == [ret |-> -2, data |-> <<>>]
Junk == -1
EmptyBuffer == [i \in 0..(MaxSize - 1) |-> Junk]

IsOpen == m_inStream # "NULL"

\* A size_t passed where Java expects an int.
ToJint(x) == LET w == x % Word IN IF 2 * w >= Word THEN w - Word ELSE w

Init == /\ jpos = 0
        /\ readLimit = 0
        /\ pending = FALSE
        /\ skipThrew = FALSE
        /\ fIsAtEnd = FALSE
        /\ m_inStream = "NULL"
        /\ m_streamLength = 0
        /\ pc = "open"
        /\ req = NoReq
        /\ origin = "beg"
        /\ ans = NoAns
        /\ fpos = 0
        /\ buf = EmptyBuffer
        /\ size = 0
        /\ bytesRead = 0
        /\ skipSize = 0

(***************************************************************************)
(* The wrapper.  available() answers 0 when the call threw, and clears     *)
(* whatever exception it finds pending, its own or an earlier one.         *)
(***************************************************************************)
AvailableReturns == {IF pending \/ o.thrown THEN 0 ELSE o.ret : o \in JavaAvailable(jpos)}

(***************************************************************************)
(* makeFileStream: measure the stream, then mark it for twice its length.  *)
(* TIFFClientOpen reads the header next, with no seek before it.           *)
(***************************************************************************)
MakeFileStream == /\ pc = "open"
                  /\ m_inStream' = "wrapper"
                  /\ m_streamLength' \in AvailableReturns
                  /\ pending' = FALSE
                  /\ pc' = "mark"
                  /\ UNCHANGED <<streamVars, skipThrew, fIsAtEnd, req, origin, ans, fpos, callVars>>

MarkLimitHalf(len) == ToJint(len \div 2)   \* mutant: halves instead of doubling
MarkLimit(len) == ToJint(len * 2)

Mark == /\ pc = "mark"
        /\ readLimit' = MarkLimit(m_streamLength)
        /\ pc' = "idle"
        /\ UNCHANGED <<jpos, pending, skipThrew, fIsAtEnd, m_inStream, m_streamLength,
                       req, origin, ans, fpos, callVars>>

(***************************************************************************)
(* libtiff asks.  ReadOK and SeekOK compare the answer with what was asked *)
(* for; after anything else libtiff seeks before it reads again.           *)
(***************************************************************************)
Call(op, arg, whence, first) ==
  /\ pc = "idle"
  /\ IsOpen
  /\ req' = [op |-> op, arg |-> arg]
  /\ origin' = whence
  /\ ans' = NoAns
  /\ pc' = first
  /\ UNCHANGED <<streamVars, pending, skipThrew, fIsAtEnd, m_inStream, m_streamLength,
                 fpos, callVars>>

CallRead == fpos # NoPos /\ \E n \in 1..MaxSize : Call("read", n, "beg", "read")
CallSeek == \E o \in 0..MaxOffset, w \in Origins : Call("seek", o, w, "seek")
CallSize == Call("size", 0, "beg", "size")
CallClose == Call("close", 0, "beg", "close")

\* The procedure returns ret; the buffer is libtiff's again, and known is
\* the position libtiff now believes in.
Return(ret, data, known) ==
  /\ ans' = [ret |-> ret, data |-> data]
  /\ fpos' = known
  /\ req' = NoReq
  /\ origin' = "beg"
  /\ pc' = "idle"
  /\ buf' = EmptyBuffer
  /\ size' = 0
  /\ bytesRead' = 0
  /\ skipSize' = 0

ReturnRead(n, b) ==
  Return(n, [i \in 0..(n - 1) |-> b[i]], IF n = req.arg THEN fpos + n ELSE NoPos)

ReturnSeek(r) == Return(r, <<>>, r)

\* mutant: the request is not cut down to what is available
ActualUncut(remain, asked) == remain
Actual(remain, asked) == Smaller(remain, asked)

(***************************************************************************)
(* read: never ask for more than available() says, then loop in chunks of  *)
(* the lent array; one more available() whose result is dropped.           *)
(***************************************************************************)
Read == /\ pc = "read"
        /\ IF IsOpen
           THEN /\ \E remain \in AvailableReturns : size' = Actual(remain, req.arg)
                /\ pending' = FALSE
                /\ pc' = "chunk"
                /\ UNCHANGED <<req, origin, ans, fpos, buf, bytesRead, skipSize>>
           ELSE ReturnRead(0, buf) /\ UNCHANGED pending
        /\ UNCHANGED <<streamVars, skipThrew, fIsAtEnd, m_inStream, m_streamLength>>

\* mutant: the buffer pointer is not advanced from chunk to chunk
CopiedAtStart(b, at, p, n) ==
  [i \in DOMAIN b |-> IF i < n THEN p + i ELSE b[i]]

\* GetByteArrayRegion: the n bytes just read from offset p go to buffer + at.
Copied(b, at, p, n) ==
  [i \in DOMAIN b |-> IF at <= i /\ i < at + n THEN p + (i - at) ELSE b[i]]

MoreOnce(left) == FALSE      \* mutant: one Java read per request
MoreAlways(left) == left >= 0  \* mutant: goes on asking for nothing
More(left) == left # 0

ChunkRead(o) == /\ buf' = Copied(buf, bytesRead, jpos, o.ret)
                /\ bytesRead' = bytesRead + o.ret
                /\ size' = size - o.ret
                /\ pc' = IF More(size') THEN "chunk" ELSE "trailing"
                /\ UNCHANGED <<fIsAtEnd, req, origin, ans, fpos, skipSize>>

ChunkAtEnd == /\ fIsAtEnd' = TRUE
              /\ pc' = "trailing"
              /\ UNCHANGED <<req, origin, ans, fpos, callVars>>

\* Bytes already copied are forgotten: the answer is 0.
ChunkThrew == /\ fIsAtEnd' = TRUE
              /\ ReturnRead(0, buf)

Chunk == /\ pc = "chunk"
         /\ \E o \in JavaRead(jpos, Smaller(size, Capacity)) :
               /\ jpos' = o.pos
               /\ \/ ~o.thrown /\ o.ret >= 0 /\ ChunkRead(o)
                  \/ ~o.thrown /\ o.ret < 0 /\ ChunkAtEnd
                  \/ o.thrown /\ ChunkThrew
         /\ UNCHANGED <<readLimit, pending, skipThrew, m_inStream, m_streamLength>>

Trailing == /\ pc = "trailing"
            /\ pending' = FALSE
            /\ ReturnRead(bytesRead, buf)
            /\ UNCHANGED <<streamVars, skipThrew, fIsAtEnd, m_inStream, m_streamLength>>

(***************************************************************************)
(* seek: the offset is narrowed to unsigned int on its way to seekInt; a   *)
(* position from the start or the end is reached by rewinding to the mark  *)
(* and skipping.  What reset and skip report is not looked at: the answer  *)
(* is the offset that was asked for.                                       *)
(***************************************************************************)
Narrow(offset) == offset % Word

RewindsFromEnd(whence) == whence = "end"   \* mutant: no reset() before SEEK_SET
Rewinds(whence) == whence \in {"beg", "end"}

SeekInt == /\ pc = "seek"
           /\ IF IsOpen
              THEN /\ skipSize' = IF origin = "end" THEN m_streamLength - Narrow(req.arg)
                                                    ELSE Narrow(req.arg)
                   /\ pc' = IF Rewinds(origin) THEN "reset" ELSE "skip"
                   /\ UNCHANGED <<req, origin, ans, fpos, buf, size, bytesRead>>
              ELSE ReturnSeek(-1)
           /\ UNCHANGED <<streamVars, pending, skipThrew, fIsAtEnd, m_inStream, m_streamLength>>

\* An exception of reset() is described, cleared and forgotten.
Reset == /\ pc = "reset"
         /\ jpos' = JavaReset(jpos, readLimit).pos
         /\ pc' = "skip"
         /\ UNCHANGED <<readLimit, pending, skipThrew, fIsAtEnd, m_inStream, m_streamLength,
                        req, origin, ans, fpos, callVars>>

Skip == /\ pc = "skip"
        /\ \E o \in JavaSkip(jpos, skipSize) :
              /\ jpos' = o.pos
              /\ pending' = o.thrown
              /\ skipThrew' = o.thrown
        /\ pc' = "skipAvailable"
        /\ UNCHANGED <<readLimit, fIsAtEnd, m_inStream, m_streamLength,
                       req, origin, ans, fpos, callVars>>

\* doSkip calls available() before it looks for the exception of skip().
SkipAvailable == /\ pc = "skipAvailable"
                 /\ pending' = FALSE
                 /\ pc' = "skipCheck"
                 /\ UNCHANGED <<streamVars, skipThrew, fIsAtEnd, m_inStream, m_streamLength,
                                req, origin, ans, fpos, callVars>>

SkipCheck == /\ pc = "skipCheck"
             /\ pending' = FALSE
             /\ skipThrew' = FALSE
             /\ ReturnSeek(req.arg)
             /\ UNCHANGED <<streamVars, fIsAtEnd, m_inStream, m_streamLength>>

Size == /\ pc = "size"
        /\ Return(m_streamLength, <<>>, fpos)
        /\ UNCHANGED <<streamVars, pending, skipThrew, fIsAtEnd, m_inStream, m_streamLength>>

Close == /\ pc = "close"
         /\ Return(IF IsOpen THEN 0 ELSE -1, <<>>, fpos)
         /\ m_inStream' = "NULL"
         /\ UNCHANGED <<streamVars, pending, skipThrew, fIsAtEnd, m_streamLength>>

Open == MakeFileStream \/ Mark
Handle == \/ Read \/ Chunk \/ Trailing
          \/ SeekInt \/ Reset \/ Skip \/ SkipAvailable \/ SkipCheck
          \/ Size \/ Close
Next == Open \/ CallRead \/ CallSeek \/ CallSize \/ CallClose \/ Handle

Spec == Init /\ [][Next]_vars

\* The thread that calls libtiff keeps running: an operation under way goes on.
FairSpec == Spec /\ WF_vars(Open) /\ WF_vars(Handle)

-----------------------------------------------------------------------------
\* The Java calls an operation can be at.
Calls == {"open", "mark", "idle", "read", "chunk", "trailing", "seek", "reset",
          "skip", "skipAvailable", "skipCheck", "size", "close"}

FlagsOK == {pending, skipThrew, fIsAtEnd} \subseteq BOOLEAN

\* The values the variables take; the doRead loop never holds more bytes than
\* libtiff's buffer has room for (JavaInputStreamAdaptor.cpp:158-161).
TypeOK ==
  /\ jpos \in 0..Len
  /\ readLimit \in Int
  /\ FlagsOK
  /\ m_inStream \in {"NULL", "wrapper"}
  /\ m_streamLength \in 0..Len
  /\ pc \in Calls
  /\ req \in [op : {"none", "read", "seek", "size", "close"}, arg : Nat]
  /\ origin \in {"beg", "cur", "end"}
  /\ fpos \in Nat \cup {NoPos}
  /\ buf \in [0..(MaxSize - 1) -> Nat \cup {Junk}]
  /\ size \in Nat
  /\ bytesRead \in Nat
  /\ bytesRead + size <= MaxSize
  /\ skipSize \in Int

\* The streams and the clients the procedures are right for: reset() and skip()
\* do what was asked, the mark outlives the read limit or the length measured
\* at the start was the true one, and every offset fits an unsigned int.
Reliable ==
  /\ FullSkip
  /\ MarkSupported
  /\ MarkStrict => ExactAvailable /\ "available" \notin Throws /\ 4 * Len < Word
  /\ "skip" \notin Throws
  /\ Origins \subseteq {"beg"}
  /\ MaxOffset < Word

\* Between two requests the Java stream stands where libtiff was told it
\* stands (at the end, when that is beyond it): what seek and read answer is
\* true, though neither the skip nor the reset is checked
\* (TiffInputStream.cpp:117-155).
PositionAgrees ==
  pc = "idle" /\ fpos # NoPos => jpos = Smaller(fpos, Len)

\* While a read collects its chunks, what the buffer holds so far is the file
\* from the position on, in order and without a gap
\* (JavaInputStreamAdaptor.cpp:114-162).
BufferIsTrue ==
  pc \in {"chunk", "trailing"} =>
    \A i \in 0..(bytesRead - 1) : buf[i] = fpos + i

\* A read the file can satisfy is satisfied in full, however small the pieces
\* the Java stream hands out and however small the lent array
\* (TiffInputStream.cpp:54-65, JavaInputStreamAdaptor.cpp:108-169).
CompleteReads ==
  [][pc = "trailing" /\ fpos + req.arg <= Len => ans'.ret = req.arg]_vars

\* Rewinding never finds the mark gone: twice the length measured at the start
\* is never read past, though a stream may drop its mark beyond that
\* (TiffInputStream.cpp:34-36, 131).
RewindWithinMark ==
  pc = "reset" => ~JavaReset(jpos, readLimit).thrown

\* Every request libtiff makes is answered: doRead's loop, which has no bound
\* of its own, ends (JavaInputStreamAdaptor.cpp:114-162).
RequestsAnswered == (req # NoReq) ~> (req = NoReq)

\* An exception thrown by skip() is still there when doSkip looks for it, so
\* that the handler written for it runs (JavaInputStreamAdaptor.cpp:178-183).
SkipExceptionSeen ==
  pc = "skipCheck" /\ skipThrew => pending

\* The procedures are the random access file libtiff expects: they implement
\* the abstract specification, the position being what libtiff was last told.
RAF == INSTANCE RandomAccessFile
         WITH pos <- fpos, open <- (pc \in {"open", "mark"} \/ IsOpen)
IsRandomAccessFile == RAF!Spec
=============================================================================
