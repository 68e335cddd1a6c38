----------------------- MODULE TiffInputStream_proofs -----------------------
(***************************************************************************)
(* Proofs about the client procedures of TiffInputStream, for every stream *)
(* length, lent array, buffer and offset.                                  *)
(***************************************************************************)
EXTENDS TiffInputStream, TLAPS

(***************************************************************************)
(* What the calls into Java may return, from the contract alone.           *)
(***************************************************************************)

\* available() answers between nothing and what is left of the stream.
LEMMA AvailableRange ==
  ASSUME jpos \in 0..Len, NEW r \in AvailableReturns
  PROVE  r \in 0..(Len - jpos)
<1>1. PICK o \in JavaAvailable(jpos) : r = IF pending \/ o.thrown THEN 0 ELSE o.ret
  BY DEF AvailableReturns
<1>2. o.ret \in 0..(Len - jpos)
  BY StreamAssumption DEF JavaAvailable, Failures, Returns, Smaller, StreamAssumption
<1> QED
  BY <1>1, <1>2, StreamAssumption DEF StreamAssumption

\* A call that throws is allowed to, and leaves the stream where it was or
\* further on.
LEMMA FailureRange ==
  ASSUME NEW p \in 0..Len, NEW n \in Nat, NEW call, NEW o \in Failures(call, p, n)
  PROVE  o.pos \in p..Len /\ o.thrown = TRUE /\ call \in Throws
<1>1. call \in Throws
  BY DEF Failures
<1>2. PICK q \in p..Smaller(p + n, Len) : o = [pos |-> q, ret |-> 0, thrown |-> TRUE]
  BY <1>1 DEF Failures
<1>3. q \in p..Len
  BY StreamAssumption DEF Smaller, StreamAssumption
<1> QED
  BY <1>1, <1>2, <1>3

\* read() that returns n delivers n bytes and moves by n; -1 only at the end.
LEMMA ReadRange ==
  ASSUME NEW p \in 0..Len, NEW n \in Nat, NEW o \in JavaRead(p, n)
  PROVE  /\ o.pos \in p..Len
         /\ o.thrown \in BOOLEAN
         /\ ~o.thrown /\ o.ret >= 0 => o.ret \in 0..n /\ o.pos = p + o.ret
         /\ ~o.thrown /\ o.ret < 0 => o.pos = p /\ p = Len
<1>1. CASE \E k \in (IF n = 0 THEN 0 ELSE 1)..Smaller(n, Len - p) : o = Returns(p + k, k)
  BY <1>1, StreamAssumption DEF Returns, Smaller, StreamAssumption
<1>2. CASE p = Len /\ o = Returns(p, -1)
  BY <1>2, StreamAssumption DEF Returns, StreamAssumption
<1>3. CASE o \in Failures("read", p, n)
  BY <1>3, FailureRange
<1> QED
  BY <1>1, <1>2, <1>3 DEF JavaRead

\* skip() stays inside the stream; one that is full and does not throw goes as
\* far as it can.
LEMMA SkipRange ==
  ASSUME NEW p \in 0..Len, NEW n \in Int, NEW o \in JavaSkip(p, n)
  PROVE  /\ o.pos \in p..Len
         /\ o.thrown \in BOOLEAN
         /\ FullSkip /\ "skip" \notin Throws /\ n >= 0 => o.pos = Smaller(p + n, Len)
<1> DEFINE most == IF n <= 0 THEN 0 ELSE Smaller(n, Len - p)
<1>0. most \in 0..(Len - p) /\ (n >= 0 => p + most = Smaller(p + n, Len))
  BY StreamAssumption DEF Smaller, StreamAssumption
<1>1. CASE \E k \in (IF FullSkip THEN {most} ELSE 0..most) : o = Returns(p + k, k)
  BY <1>0, <1>1, StreamAssumption DEF Returns, StreamAssumption
<1>2. CASE o \in Failures("skip", p, most)
  <2>1. most \in Nat /\ p + most <= Len
    BY <1>0, StreamAssumption DEF StreamAssumption
  <2> HIDE DEF most
  <2>2. o.pos \in p..Len /\ o.thrown = TRUE /\ "skip" \in Throws
    BY <1>2, <2>1, FailureRange
  <2> QED
    BY <2>2
<1> QED
  BY <1>1, <1>2 DEF JavaSkip

\* reset() goes to the start of the stream or nowhere.
LEMMA ResetRange ==
  ASSUME NEW p \in 0..Len, NEW limit \in Int
  PROVE  JavaReset(p, limit).pos \in {0, p}
BY DEF JavaReset, Returns

(***************************************************************************)
(* Type correctness.  A read is only under way for at least one byte and   *)
(* for no more bytes than the buffer holds, and doRead's two counters      *)
(* never add up to more than what libtiff asked for.                       *)
(***************************************************************************)
CallInv ==
  /\ pc \in {"read", "chunk", "trailing"} =>
       /\ req.op = "read"
       /\ req.arg \in 1..MaxSize
       /\ fpos \in Nat
       /\ bytesRead + size <= req.arg
  /\ pc = "read" => bytesRead = 0
  /\ pc \in {"open", "mark", "idle"} => bytesRead = 0 /\ size = 0
  /\ pc \in {"mark", "read", "chunk", "trailing", "seek", "reset", "skip",
             "skipAvailable", "skipCheck", "size", "close"} => IsOpen
  /\ pc \in {"open", "mark", "idle"} => req = NoReq
  /\ pc = "size" => req.op = "size"
  /\ pc = "close" => req.op = "close"

TInv == TypeOK /\ CallInv

LEMMA BufferType == EmptyBuffer \in [0..(MaxSize - 1) -> Nat \cup {Junk}]
BY DEF EmptyBuffer

LEMMA InitTInv == Init => TInv
<1> SUFFICES ASSUME Init PROVE TypeOK /\ CallInv
  BY DEF TInv
<1>0. FlagsOK
  BY Zenon DEF Init, FlagsOK
<1>1. TypeOK
  BY <1>0, StreamAssumption, ClientAssumption, BufferType
     DEF Init, TypeOK, Calls, NoReq, StreamAssumption, ClientAssumption
<1>2. CallInv
  BY DEF Init, CallInv
<1> QED
  BY <1>1, <1>2

LEMMA JintType == \A x \in Int : ToJint(x) \in Int
BY ClientAssumption DEF ToJint, ClientAssumption

\* The flags stay Boolean: each is left alone, set to a constant or to whether
\* skip() threw.
LEMMA NextFlags ==
  ASSUME jpos \in 0..Len, skipSize \in Int, FlagsOK, [Next]_vars
  PROVE  FlagsOK'
<1> USE Zenon DEF FlagsOK
<1>1. CASE MakeFileStream \/ Mark \/ CallRead \/ CallSeek \/ CallSize \/ CallClose
  BY <1>1 DEF MakeFileStream, Mark, CallRead, CallSeek, CallSize, CallClose, Call
<1>2. CASE Read \/ Trailing
  BY <1>2 DEF Read, Trailing
<1>3. CASE Chunk
  BY <1>3 DEF Chunk, ChunkRead, ChunkAtEnd, ChunkThrew
<1>4. CASE SeekInt \/ Reset \/ SkipAvailable \/ SkipCheck
  BY <1>4 DEF SeekInt, Reset, SkipAvailable, SkipCheck
<1>5. CASE Skip
  BY <1>5, SkipRange DEF Skip
<1>6. CASE Size \/ Close
  BY <1>6 DEF Size, Close
<1>7. CASE UNCHANGED vars
  BY <1>7 DEF vars
<1> QED
  BY <1>1, <1>2, <1>3, <1>4, <1>5, <1>6, <1>7 DEF Next, Open, Handle

\* A chunk moves r bytes from what is left to what has been read.
LEMMA ChunkCounts ==
  \A left, done \in Nat : \A r \in 0..left :
    /\ (done + r) + (left - r) = done + left
    /\ done + r \in Nat
    /\ left - r \in Nat
OBVIOUS

LEMMA NextTInv == TInv /\ [Next]_vars => TInv'
<1> SUFFICES ASSUME TypeOK, CallInv, [Next]_vars
             PROVE  TInv'
  BY DEF TInv
<1> USE StreamAssumption, ClientAssumption DEF StreamAssumption, ClientAssumption
<1> USE DEF TypeOK, CallInv, TInv, Calls, NoReq, NoPos, IsOpen
<1>f. FlagsOK'
  BY NextFlags
<1> USE <1>f
<1>a. jpos \in 0..Len /\ size \in Nat /\ bytesRead \in Nat
  OBVIOUS
<1>b. EmptyBuffer \in [0..(MaxSize - 1) -> Nat \cup {Junk}]
  BY BufferType
<1>1. CASE MakeFileStream
  <2>1. m_streamLength' \in 0..Len
    BY <1>1, <1>a, AvailableRange DEF MakeFileStream
  <2> QED
    BY <1>1, <2>1 DEF MakeFileStream, streamVars, callVars
<1>2. CASE Mark
  <2>1. readLimit' \in Int
    BY <1>2, JintType DEF Mark, MarkLimit
  <2> QED
    BY <1>2, <2>1 DEF Mark, callVars
<1>3. CASE CallRead
  BY <1>3 DEF CallRead, Call, streamVars, callVars
<1>4. CASE CallSeek
  BY <1>4 DEF CallSeek, Call, streamVars, callVars
<1>5. CASE CallSize \/ CallClose
  BY <1>5 DEF CallSize, CallClose, Call, streamVars, callVars
<1>6. CASE Read
  <2>1. PICK remain \in AvailableReturns : size' = Actual(remain, req.arg)
    BY <1>6 DEF Read
  <2>2. remain \in Nat
    BY <2>1, AvailableRange
  <2>3. size' \in 0..req.arg
    BY <1>6, <2>1, <2>2 DEF Actual, Smaller, Read
  <2>4. /\ pc = "read" /\ pc' = "chunk"
        /\ UNCHANGED <<jpos, readLimit, m_inStream, m_streamLength, req, origin, fpos,
                       buf, bytesRead, skipSize>>
    BY <1>6 DEF Read, streamVars
  <2>5. bytesRead' + size' <= req.arg /\ req.arg \in 1..MaxSize
    BY <2>3, <2>4
  <2>a. size' \in Nat /\ bytesRead' + size' <= MaxSize
    <3>1. \A a \in 1..MaxSize : \A s \in 0..a : s \in Nat /\ 0 + s <= MaxSize
      OBVIOUS
    <3>2. bytesRead' = 0
      BY <2>4
    <3> QED
      BY <2>3, <2>5, <3>1, <3>2
  <2>6. TypeOK'
    BY <2>4, <2>a
  <2>7. CallInv'
    BY <2>3, <2>4, <2>5
  <2> QED
    BY <2>6, <2>7
<1>7. CASE Chunk
  <2>1. PICK o \in JavaRead(jpos, Smaller(size, Capacity)) :
           /\ jpos' = o.pos
           /\ \/ ~o.thrown /\ o.ret >= 0 /\ ChunkRead(o)
              \/ ~o.thrown /\ o.ret < 0 /\ ChunkAtEnd
              \/ o.thrown /\ ChunkThrew
    BY <1>7 DEF Chunk
  <2>2. Smaller(size, Capacity) \in 0..size
    BY DEF Smaller
  <2>3. /\ o.pos \in jpos..Len
        /\ ~o.thrown /\ o.ret >= 0 => o.ret \in 0..size /\ o.pos = jpos + o.ret
    BY <2>1, <2>2, ReadRange
  <2>4. CASE ~o.thrown /\ o.ret >= 0 /\ ChunkRead(o)
    <3>0. o.ret \in 0..size /\ o.pos = jpos + o.ret
      BY <2>3, <2>4, Zenon
    <3>1. buf' \in [0..(MaxSize - 1) -> Nat \cup {Junk}]
      BY <2>4, <3>0 DEF ChunkRead, Copied
    <3>2. bytesRead' = bytesRead + o.ret /\ size' = size - o.ret
      BY <2>4, Zenon DEF ChunkRead
    <3>3. bytesRead' + size' = bytesRead + size /\ bytesRead' \in Nat /\ size' \in Nat
      BY <1>a, <3>0, <3>2, ChunkCounts
    <3>4. pc' \in {"chunk", "trailing"} /\ UNCHANGED <<req, origin, fpos, skipSize>>
      BY <2>4 DEF ChunkRead
    <3>5. UNCHANGED <<readLimit, m_inStream, m_streamLength>> /\ jpos' \in 0..Len /\ pc = "chunk"
      BY <1>7, <2>1, <2>3 DEF Chunk
    <3>6. bytesRead' + size' <= MaxSize
      BY <3>3
    <3>7. TypeOK'
      BY <3>1, <3>3, <3>4, <3>5, <3>6
    <3>8. CallInv'
      BY <3>3, <3>4, <3>5
    <3> QED
      BY <3>7, <3>8
  <2>5. CASE ~o.thrown /\ o.ret < 0 /\ ChunkAtEnd
    BY <1>7, <2>1, <2>3, <2>5 DEF Chunk, ChunkAtEnd, callVars
  <2>6. CASE o.thrown /\ ChunkThrew
    BY <1>7, <1>b, <2>1, <2>3, <2>6 DEF Chunk, ChunkThrew, ReturnRead, Return
  <2> QED
    BY <2>1, <2>4, <2>5, <2>6
<1>8. CASE Trailing
  BY <1>8, <1>b DEF Trailing, ReturnRead, Return, streamVars
<1>9. CASE SeekInt
  <2>1. Narrow(req.arg) \in Nat
    BY DEF Narrow
  <2> QED
    BY <1>9, <2>1 DEF SeekInt, Rewinds, streamVars
<1>10. CASE Reset
  BY <1>10, ResetRange DEF Reset, callVars
<1>11. CASE Skip
  <2>1. PICK o \in JavaSkip(jpos, skipSize) :
           jpos' = o.pos /\ pending' = o.thrown /\ skipThrew' = o.thrown
    BY <1>11 DEF Skip
  <2>2. o.pos \in 0..Len /\ o.thrown \in BOOLEAN
    BY <2>1, SkipRange
  <2> QED
    BY <1>11, <2>1, <2>2 DEF Skip, callVars
<1>12. CASE SkipAvailable
  BY <1>12 DEF SkipAvailable, streamVars, callVars
<1>13. CASE SkipCheck
  BY <1>13, <1>b DEF SkipCheck, ReturnSeek, Return, streamVars
<1>14. CASE Size
  BY <1>14, <1>b DEF Size, Return, streamVars
<1>15. CASE Close
  BY <1>15, <1>b DEF Close, Return, streamVars
<1>16. CASE UNCHANGED vars
  BY <1>16 DEF vars
<1> QED
  BY <1>1, <1>2, <1>3, <1>4, <1>5, <1>6, <1>7, <1>8, <1>9, <1>10, <1>11, <1>12,
     <1>13, <1>14, <1>15, <1>16 DEF Next, Open, Handle

\* Every variable keeps its type and doRead never overruns libtiff's buffer.
THEOREM TypeCorrect == Spec => []TypeOK
<1>1. Spec => []TInv
  BY InitTInv, NextTInv, PTL DEF Spec
<1> QED
  BY <1>1, PTL DEF TInv

(***************************************************************************)
(* The position.  For the streams Reliable describes, the Java stream is   *)
(* where libtiff believes it is whenever no request is under way; during a *)
(* read it is bytesRead bytes further on, and during a seek it is first at *)
(* the mark and then at the offset asked for.                              *)
(***************************************************************************)
StartInv == pc = "open" => jpos = 0 /\ fpos = 0 /\ ~pending

AtRest == pc \in {"open", "mark", "idle", "read", "size", "close"} /\ fpos # NoPos
            => jpos = Smaller(fpos, Len)

Reading == pc \in {"chunk", "trailing"} =>
             /\ bytesRead = 0 => jpos = Smaller(fpos, Len)
             /\ bytesRead # 0 => jpos = fpos + bytesRead

Seeking ==
  /\ pc \in {"seek", "reset", "skip", "skipAvailable", "skipCheck"} =>
       req.op = "seek" /\ req.arg \in 0..MaxOffset /\ origin = "beg"
  /\ pc \in {"reset", "skip"} => skipSize = req.arg
  /\ pc = "skip" => jpos = 0
  /\ pc \in {"skipAvailable", "skipCheck"} => jpos = Smaller(req.arg, Len)

MarkLasts == MarkStrict =>
               /\ pc = "mark" => m_streamLength = Len
               /\ pc \notin {"open", "mark"} => readLimit = 2 * Len

PInv == StartInv /\ AtRest /\ Reading /\ Seeking /\ MarkLasts /\ BufferIsTrue

LEMMA InitPInv == Init => PInv
BY StreamAssumption
   DEF Init, PInv, StartInv, AtRest, Reading, Seeking, MarkLasts, BufferIsTrue, Smaller,
       StreamAssumption

\* Nothing is lost in the passage of the offset through an unsigned int.
LEMMA NarrowFits == Reliable => \A off \in 0..MaxOffset : Narrow(off) = off
<1> SUFFICES ASSUME Reliable, NEW off \in 0..MaxOffset PROVE off % Word = off
  BY DEF Narrow
<1> QED
  BY ClientAssumption DEF Reliable, ClientAssumption

\* Twice the length is a value an int can hold.
LEMMA JintFits == Reliable /\ MarkStrict => ToJint(Len * 2) = 2 * Len
<1> SUFFICES ASSUME Reliable, MarkStrict PROVE ToJint(Len * 2) = 2 * Len
  OBVIOUS
<1>1. Len \in Nat /\ Word \in Nat \ {0} /\ 4 * Len < Word
  BY StreamAssumption, ClientAssumption DEF StreamAssumption, ClientAssumption, Reliable
<1>2. (Len * 2) % Word = 2 * Len
  BY <1>1
<1> QED
  BY <1>1, <1>2 DEF ToJint

\* What Chunk does to the buffer: the r bytes from jpos go behind those read.
LEMMA CopyExtends ==
  ASSUME TypeOK, pc = "chunk", BufferIsTrue, fpos \in Nat,
         NEW r \in Nat, bytesRead + r <= MaxSize,
         r # 0 => jpos = fpos + bytesRead,
         buf' = Copied(buf, bytesRead, jpos, r),
         bytesRead' = bytesRead + r,
         fpos' = fpos
  PROVE  BufferIsTrue'
<1> SUFFICES ASSUME NEW i \in 0..(bytesRead' - 1) PROVE buf'[i] = fpos' + i
  BY Zenon DEF BufferIsTrue
<1>1. bytesRead \in Nat /\ jpos \in Nat /\ MaxSize \in Nat
      /\ buf \in [0..(MaxSize - 1) -> Nat \cup {Junk}]
  BY StreamAssumption, ClientAssumption DEF TypeOK, StreamAssumption, ClientAssumption
<1>2. i \in DOMAIN buf
  BY <1>1
<1>3. buf'[i] = IF bytesRead <= i /\ i < bytesRead + r THEN jpos + (i - bytesRead) ELSE buf[i]
  BY <1>2 DEF Copied
<1>4. CASE i < bytesRead
  BY <1>1, <1>3, <1>4 DEF BufferIsTrue
<1>5. CASE bytesRead <= i
  BY <1>1, <1>3, <1>5
<1> QED
  BY <1>1, <1>4, <1>5

LEMMA NextPInv == Reliable /\ TInv /\ PInv /\ [Next]_vars => PInv'
<1> SUFFICES ASSUME Reliable, TypeOK, CallInv, PInv, [Next]_vars
             PROVE  PInv'
  BY DEF TInv
<1> USE DEF PInv, StartInv, AtRest, Reading, Seeking, MarkLasts, BufferIsTrue, Calls
<1>a. jpos \in 0..Len /\ size \in Nat /\ bytesRead \in Nat /\ Len \in Nat
      /\ fpos \in Nat \cup {NoPos}
  BY StreamAssumption DEF TypeOK, StreamAssumption
<1>1. CASE MakeFileStream
  <2>1. MarkStrict => m_streamLength' = Len
    BY <1>1, <1>a DEF MakeFileStream, AvailableReturns, JavaAvailable, Failures, Returns,
                      Reliable
  <2> QED
    BY <1>1, <2>1 DEF MakeFileStream, streamVars, callVars
<1>2. CASE Mark
  <2>1. MarkStrict => readLimit' = 2 * Len
    BY <1>2, JintFits DEF Mark, MarkLimit
  <2> QED
    BY <1>2, <2>1 DEF Mark, callVars
<1>3. CASE CallRead
  BY <1>3 DEF CallRead, Call, streamVars, callVars
<1>4. CASE CallSeek
  BY <1>4 DEF CallSeek, Call, streamVars, callVars, Reliable
<1>5. CASE CallSize \/ CallClose
  BY <1>5 DEF CallSize, CallClose, Call, streamVars, callVars
<1>6. CASE Read
  <2>1. /\ pc = "read" /\ pc' = "chunk" /\ bytesRead = 0 /\ fpos \in Nat
        /\ UNCHANGED <<streamVars, m_streamLength, req, origin, fpos, buf, bytesRead, skipSize>>
    BY <1>6 DEF Read, CallInv
  <2> QED
    BY <2>1, <1>a DEF streamVars, NoPos
<1>7. CASE Chunk
  <2>1. PICK o \in JavaRead(jpos, Smaller(size, Capacity)) :
           /\ jpos' = o.pos
           /\ \/ ~o.thrown /\ o.ret >= 0 /\ ChunkRead(o)
              \/ ~o.thrown /\ o.ret < 0 /\ ChunkAtEnd
              \/ o.thrown /\ ChunkThrew
    BY <1>7 DEF Chunk
  <2>2. Smaller(size, Capacity) \in 0..size
    BY <1>a, ClientAssumption DEF Smaller, ClientAssumption
  <2>3. /\ o.pos \in jpos..Len
        /\ ~o.thrown /\ o.ret >= 0 => o.ret \in 0..size /\ o.pos = jpos + o.ret
        /\ ~o.thrown /\ o.ret < 0 => o.pos = jpos
    BY <1>a, <2>1, <2>2, ReadRange
  <2>4. /\ pc = "chunk" /\ fpos \in Nat /\ req.arg \in 1..MaxSize
        /\ bytesRead + size <= req.arg
        /\ UNCHANGED <<readLimit, m_streamLength>>
    BY <1>7 DEF Chunk, CallInv
  <2>5. CASE ~o.thrown /\ o.ret >= 0 /\ ChunkRead(o)
    <3>1. PICK r \in 0..size : o.ret = r /\ jpos' = jpos + r /\ jpos' \in jpos..Len
      BY <2>1, <2>3, <2>5, Zenon
    <3>2. /\ buf' = Copied(buf, bytesRead, jpos, r)
          /\ bytesRead' = bytesRead + r
          /\ pc' \in {"chunk", "trailing"}
          /\ UNCHANGED <<req, origin, fpos, skipSize>>
      BY <2>5, <3>1 DEF ChunkRead
    <3>3. r # 0 => jpos = fpos + bytesRead
      BY <1>a, <2>4, <3>1 DEF Smaller
    <3>4. Reading'
      BY <1>a, <2>4, <3>1, <3>2, <3>3
    <3>5. r \in Nat /\ bytesRead + r <= MaxSize
      BY <1>a, <2>4, <3>1, ClientAssumption DEF ClientAssumption
    <3>6. BufferIsTrue'
      BY <2>4, <3>2, <3>3, <3>5, CopyExtends
    <3> QED
      BY <2>4, <3>2, <3>4, <3>6
  <2>6. CASE ~o.thrown /\ o.ret < 0 /\ ChunkAtEnd
    BY <2>1, <2>3, <2>4, <2>6 DEF ChunkAtEnd, callVars
  <2>7. CASE o.thrown /\ ChunkThrew
    <3>1. pc' = "idle" /\ fpos' = NoPos
      BY <2>4, <2>7 DEF ChunkThrew, ReturnRead, Return
    <3> QED
      BY <2>4, <3>1 DEF NoPos
  <2> QED
    BY <2>1, <2>5, <2>6, <2>7
<1>8. CASE Trailing
  <2>1. /\ pc = "trailing" /\ fpos \in Nat /\ req.arg \in 1..MaxSize
        /\ UNCHANGED <<streamVars, m_streamLength>>
    BY <1>8 DEF Trailing, CallInv
  <2>2. pc' = "idle" /\ fpos' = IF bytesRead = req.arg THEN fpos + bytesRead ELSE NoPos
    BY <1>8 DEF Trailing, ReturnRead, Return
  <2>3. AtRest'
    BY <1>a, <2>1, <2>2 DEF streamVars, Smaller, NoPos
  <2> QED
    BY <2>1, <2>2, <2>3 DEF streamVars
<1>9. CASE SeekInt
  <2>1. Narrow(req.arg) = req.arg
    BY <1>9, NarrowFits DEF SeekInt
  <2> QED
    BY <1>9, <2>1 DEF SeekInt, Rewinds, streamVars, CallInv
<1>10. CASE Reset
  <2>1. jpos' = 0
    BY <1>10, <1>a DEF Reset, JavaReset, Returns, Reliable
  <2> QED
    BY <1>10, <2>1 DEF Reset, callVars
<1>11. CASE Skip
  <2>1. PICK o \in JavaSkip(jpos, skipSize) : jpos' = o.pos
    BY <1>11 DEF Skip
  <2>2. pc = "skip" /\ jpos = 0 /\ skipSize = req.arg /\ req.arg \in 0..MaxOffset
    BY <1>11 DEF Skip
  <2>3. req.arg \in Nat
    BY <2>2, ClientAssumption DEF ClientAssumption
  <2>4. jpos' = Smaller(req.arg, Len)
    BY <1>a, <2>1, <2>2, <2>3, SkipRange DEF Reliable
  <2>5. /\ pc' = "skipAvailable"
        /\ UNCHANGED <<readLimit, m_streamLength, req, origin, fpos, callVars>>
    BY <1>11 DEF Skip
  <2> QED
    BY <2>2, <2>4, <2>5 DEF callVars
<1>12. CASE SkipAvailable
  BY <1>12 DEF SkipAvailable, streamVars, callVars
<1>13. CASE SkipCheck
  BY <1>13 DEF SkipCheck, ReturnSeek, Return, streamVars
<1>14. CASE Size
  BY <1>14 DEF Size, Return, streamVars
<1>15. CASE Close
  BY <1>15 DEF Close, Return, streamVars
<1>16. CASE UNCHANGED vars
  BY <1>16 DEF vars
<1> QED
  BY <1>1, <1>2, <1>3, <1>4, <1>5, <1>6, <1>7, <1>8, <1>9, <1>10, <1>11, <1>12,
     <1>13, <1>14, <1>15, <1>16 DEF Next, Open, Handle

LEMMA AlwaysPInv == Reliable => (Spec => [](TInv /\ PInv))
<1> SUFFICES ASSUME Reliable PROVE Spec => [](TInv /\ PInv)
  OBVIOUS
<1>1. Init => TInv /\ PInv
  BY InitTInv, InitPInv
<1>2. TInv /\ PInv /\ [Next]_vars => TInv' /\ PInv'
  BY NextTInv, NextPInv
<1> QED
  BY <1>1, <1>2, PTL DEF Spec

\* On a reliable stream libtiff is never wrong about where it is.
THEOREM PositionCorrect == Reliable => (Spec => []PositionAgrees)
<1>1. PInv => PositionAgrees
  BY DEF PInv, AtRest, PositionAgrees
<1> QED
  BY <1>1, AlwaysPInv, PTL

\* On a reliable stream the buffer fills with the file's own bytes, in order.
THEOREM BufferCorrect == Reliable => (Spec => []BufferIsTrue)
BY AlwaysPInv, PTL DEF PInv

\* On a reliable stream the mark is never lost by the time a seek rewinds to it.
THEOREM MarkCorrect == Reliable => (Spec => []RewindWithinMark)
<1> SUFFICES ASSUME Reliable PROVE Spec => []RewindWithinMark
  OBVIOUS
<1>1. TInv /\ PInv => RewindWithinMark
  <2> SUFFICES ASSUME TypeOK, MarkLasts, pc = "reset"
               PROVE  ~JavaReset(jpos, readLimit).thrown
    BY DEF TInv, PInv, RewindWithinMark
  <2>1. MarkStrict => jpos <= readLimit
    BY StreamAssumption DEF TypeOK, MarkLasts, StreamAssumption
  <2> QED
    BY <2>1 DEF JavaReset, Returns, Reliable
<1> QED
  BY <1>1, AlwaysPInv, PTL

(***************************************************************************)
(* Reads in full.  When available() is exact, what has been read and what  *)
(* is still wanted make up the request from the first step on; and a       *)
(* pending exception never makes available() answer 0.                     *)
(***************************************************************************)
Exact == ExactAvailable /\ "available" \notin Throws

Satisfiable == fpos + req.arg <= Len

Complete ==
  /\ ~pending
  /\ pc = "chunk" /\ Satisfiable => bytesRead + size = req.arg /\ size > 0
  /\ pc = "trailing" /\ Satisfiable => bytesRead = req.arg

LEMMA InitComplete == Init => Complete
BY DEF Init, Complete

LEMMA NextComplete ==
  ASSUME Reliable, Exact, TInv, PInv, Complete, [Next]_vars
  PROVE  Complete'
<1>a. jpos \in 0..Len /\ size \in Nat /\ bytesRead \in Nat /\ Len \in Nat /\ CallInv
      /\ fpos \in Nat \cup {NoPos}
  BY StreamAssumption DEF TInv, TypeOK, StreamAssumption
<1>1. CASE Open \/ CallRead \/ CallSeek \/ CallSize \/ CallClose
  BY <1>1 DEF Complete, Open, MakeFileStream, Mark, CallRead, CallSeek, CallSize, CallClose, Call
<1>2. CASE Read
  <2>1. CASE IsOpen
    <3>1. /\ pc = "read" /\ pc' = "chunk" /\ ~pending'
          /\ UNCHANGED <<req, fpos, bytesRead>>
          /\ \E remain \in AvailableReturns : size' = Actual(remain, req.arg)
      BY <1>2, <2>1 DEF Read
    <3>2. size' = Actual(Len - jpos, req.arg)
      BY <3>1 DEF AvailableReturns, JavaAvailable, Failures, Returns, Complete, Exact
    <3>3. /\ bytesRead = 0 /\ fpos \in Nat /\ req.arg \in 1..MaxSize
          /\ jpos = Smaller(fpos, Len)
      BY <1>a, <3>1 DEF CallInv, PInv, AtRest, NoPos
    <3>4. Satisfiable' => bytesRead' + size' = req'.arg /\ size' > 0
      BY <1>a, <3>1, <3>2, <3>3, ClientAssumption
         DEF Satisfiable, Actual, Smaller, ClientAssumption
    <3> QED BY <3>1, <3>4 DEF Complete
  <2>2. CASE ~IsOpen
    BY <1>2, <2>2 DEF Read, ReturnRead, Return, Complete
  <2> QED BY <2>1, <2>2
<1>3. CASE Chunk
  <2>1. PICK o \in JavaRead(jpos, Smaller(size, Capacity)) :
           /\ jpos' = o.pos
           /\ \/ ~o.thrown /\ o.ret >= 0 /\ ChunkRead(o)
              \/ ~o.thrown /\ o.ret < 0 /\ ChunkAtEnd
              \/ o.thrown /\ ChunkThrew
    BY <1>3 DEF Chunk
  <2>2. /\ Smaller(size, Capacity) \in 0..size
        /\ size > 0 => Smaller(size, Capacity) > 0
    BY <1>a, ClientAssumption DEF Smaller, ClientAssumption
  <2>3. /\ pc = "chunk" /\ pending' = pending /\ fpos \in Nat /\ req.arg \in 1..MaxSize
        /\ bytesRead + size <= req.arg
    BY <1>3, <1>a DEF Chunk, CallInv
  <2>4. CASE ~o.thrown /\ o.ret >= 0 /\ ChunkRead(o)
    <3>1. PICK r \in 0..size : o.ret = r
      BY <1>a, <2>1, <2>2, <2>4, ReadRange
    <3>2. /\ bytesRead' = bytesRead + r /\ size' = size - r
          /\ pc' = IF size' # 0 THEN "chunk" ELSE "trailing"
          /\ UNCHANGED <<req, fpos>>
      BY <2>4, <3>1 DEF ChunkRead, More
    <3>3. Satisfiable' = Satisfiable
      BY <3>2 DEF Satisfiable
    <3> QED BY <1>a, <2>3, <3>1, <3>2, <3>3, ClientAssumption DEF Complete, ClientAssumption
  <2>5. CASE ~o.thrown /\ o.ret < 0 /\ ChunkAtEnd
    <3>1. ~Satisfiable
      <4>1. SUFFICES ASSUME Satisfiable PROVE FALSE
        OBVIOUS
      <4>2. bytesRead + size = req.arg /\ size > 0
        BY <2>3, <4>1 DEF Complete
      <4>3. jpos = Len
        BY <1>a, <2>1, <2>2, <2>5, <4>2, ReadRange
      <4>4. jpos = fpos + bytesRead
        BY <1>a, <2>3, <4>1, ClientAssumption DEF PInv, Reading, Satisfiable, Smaller, ClientAssumption
      <4> QED BY <1>a, <2>3, <4>1, <4>2, <4>3, <4>4, ClientAssumption
              DEF Satisfiable, ClientAssumption
    <3>2. pc' = "trailing" /\ UNCHANGED <<req, fpos>>
      BY <2>5 DEF ChunkAtEnd
    <3> QED BY <2>3, <3>1, <3>2 DEF Complete, Satisfiable
  <2>6. CASE o.thrown /\ ChunkThrew
    BY <2>3, <2>6 DEF ChunkThrew, ReturnRead, Return, Complete
  <2> QED BY <2>1, <2>4, <2>5, <2>6
<1>4. CASE Trailing
  BY <1>4 DEF Trailing, ReturnRead, Return, Complete
<1>5. CASE SeekInt \/ Reset
  BY <1>5 DEF Complete, SeekInt, ReturnSeek, Return, Reset
<1>6. CASE Skip
  <2>1. PICK o \in JavaSkip(jpos, skipSize) : pending' = o.thrown /\ pc' = "skipAvailable"
    BY <1>6 DEF Skip
  <2>2. ~o.thrown
    BY <2>1 DEF JavaSkip, Failures, Returns, Reliable
  <2> QED BY <2>1, <2>2 DEF Complete
<1>7. CASE SkipAvailable \/ SkipCheck \/ Size \/ Close
  BY <1>7 DEF Complete, SkipAvailable, SkipCheck, ReturnSeek, Size, Close, Return
<1>8. CASE UNCHANGED vars
  BY <1>8 DEF Complete, Satisfiable, vars
<1> QED
  BY <1>1, <1>2, <1>3, <1>4, <1>5, <1>6, <1>7, <1>8 DEF Next, Handle

\* On a reliable stream whose available() is exact, a read that the file can satisfy
\* and that ends without an exception is satisfied in full
\* (TiffInputStream.cpp:54-65, JavaInputStreamAdaptor.cpp:108-169).
THEOREM ReadsAreComplete == Reliable /\ Exact => (Spec => CompleteReads)
<1> SUFFICES ASSUME Reliable, Exact PROVE Spec => CompleteReads
  OBVIOUS
<1>1. Init => TInv /\ PInv /\ Complete
  BY InitTInv, InitPInv, InitComplete
<1>2. TInv /\ PInv /\ Complete /\ [Next]_vars => TInv' /\ PInv' /\ Complete'
  BY NextTInv, NextPInv, NextComplete
<1>3. ASSUME TInv, Complete, [Next]_vars
      PROVE  [pc = "trailing" /\ fpos + req.arg <= Len => ans'.ret = req.arg]_vars
  <2> SUFFICES ASSUME pc = "trailing", fpos + req.arg <= Len, ~UNCHANGED vars
               PROVE  ans'.ret = req.arg
    OBVIOUS
  <2>1. bytesRead = req.arg
    BY <1>3 DEF Complete, Satisfiable
  <2>2. Trailing
    BY <1>3 DEF Next, Open, MakeFileStream, Mark, CallRead, CallSeek, CallSize, CallClose, Call,
         Handle, Read, Chunk, SeekInt, Reset, Skip, SkipAvailable, SkipCheck, Size, Close
  <2> QED BY <2>1, <2>2 DEF Trailing, ReturnRead, Return
<1> QED
  BY <1>1, <1>2, <1>3, PTL DEF Spec, CompleteReads

(***************************************************************************)
(* Refinement.  A request is the abstract request; the step that returns   *)
(* is the abstract answer; every step between them is a stutter.           *)
(***************************************************************************)
Stutter == UNCHANGED <<pc \in {"open", "mark"} \/ IsOpen, fpos, req, ans>>

LEMMA StutterRefines == Stutter => UNCHANGED RAF!vars
BY DEF Stutter, RAF!vars

\* The data a read of n bytes hands over, as the abstract file has it.
LEMMA DataRefines ==
  ASSUME NEW n \in Nat, NEW f \in Nat, NEW b, \A i \in 0..(n - 1) : b[i] = f + i
  PROVE  [i \in 0..(n - 1) |-> b[i]] = RAF!Bytes(f, n)
BY DEF RAF!Bytes

LEMMA InitRefines == Init => RAF!Init
BY DEF Init, RAF!Init, NoReq, NoAns, RAF!NoReq, RAF!NoAns

LEMMA NextRefines ==
  Reliable /\ TInv /\ PInv /\ [Next]_vars => [RAF!Next]_RAF!vars
<1> SUFFICES ASSUME Reliable, TypeOK, CallInv, PInv, [Next]_vars
             PROVE  RAF!Next \/ UNCHANGED RAF!vars
  BY DEF TInv
<1>1. CASE MakeFileStream
  BY <1>1, StutterRefines DEF MakeFileStream, Stutter, IsOpen
<1>2. CASE Mark
  BY <1>2, StutterRefines DEF Mark, Stutter, IsOpen, CallInv
<1>3. CASE CallRead
  <2>1. RAF!AskRead
    BY <1>3 DEF CallRead, Call, RAF!AskRead, RAF!Ask, NoPos, RAF!NoPos, IsOpen, CallInv,
                NoReq, RAF!NoReq, NoAns, RAF!NoAns
  <2> QED
    BY <2>1 DEF RAF!Next
<1>4. CASE CallSeek
  <2>1. RAF!AskSeek
    BY <1>4 DEF CallSeek, Call, RAF!AskSeek, RAF!Ask, IsOpen, CallInv,
                NoReq, RAF!NoReq, NoAns, RAF!NoAns
  <2> QED
    BY <2>1 DEF RAF!Next
<1>5. CASE CallSize \/ CallClose
  <2>1. RAF!AskSize \/ RAF!AskClose
    BY <1>5 DEF CallSize, CallClose, Call, RAF!AskSize, RAF!AskClose, RAF!Ask, IsOpen,
                CallInv, NoReq, RAF!NoReq, NoAns, RAF!NoAns
  <2> QED
    BY <2>1 DEF RAF!Next
<1>6. CASE Read
  BY <1>6, StutterRefines DEF Read, Stutter, IsOpen, CallInv
<1>7. CASE Chunk
  <2>1. UNCHANGED <<pc \in {"open", "mark"} \/ IsOpen>> /\ pc = "chunk" /\ req.op = "read"
        /\ fpos \in Nat /\ req.arg \in 1..MaxSize
    BY <1>7 DEF Chunk, ChunkRead, ChunkAtEnd, ChunkThrew, ReturnRead, Return, IsOpen, CallInv
  <2>2. CASE UNCHANGED <<fpos, req, ans>>
    BY <2>1, <2>2, StutterRefines DEF Stutter
  <2>3. CASE ChunkThrew
    <3>1. [i \in 0..(0 - 1) |-> buf[i]] = RAF!Bytes(fpos, 0)
      <4>1. 0 \in Nat /\ \A i \in 0..(0 - 1) : buf[i] = fpos + i
        OBVIOUS
      <4> QED
        BY <2>1, <4>1, DataRefines, Zenon
    <3>2. RAF!Answer(0, RAF!Bytes(fpos, 0)) /\ fpos' = RAF!NoPos
      BY <2>1, <2>3, <3>1 DEF ChunkThrew, ReturnRead, Return, RAF!Answer, NoReq, RAF!NoReq,
                              NoPos, RAF!NoPos
    <3>3. RAF!ReadShort
      BY <2>1, <3>2 DEF RAF!ReadShort
    <3> QED
      BY <3>3 DEF RAF!Next
  <2> QED
    BY <1>7, <2>2, <2>3 DEF Chunk, ChunkRead, ChunkAtEnd
<1>8. CASE Trailing
  <2>1. /\ pc = "trailing" /\ req.op = "read" /\ fpos \in Nat /\ req.arg \in 1..MaxSize
        /\ bytesRead \in 0..req.arg
        /\ UNCHANGED (pc \in {"open", "mark"} \/ IsOpen)
    BY <1>8 DEF Trailing, ReturnRead, Return, IsOpen, CallInv, TypeOK
  <2>2. [i \in 0..(bytesRead - 1) |-> buf[i]] = RAF!Bytes(fpos, bytesRead)
    BY <2>1, DataRefines DEF PInv, BufferIsTrue
  <2>3. RAF!Answer(bytesRead, RAF!Bytes(fpos, bytesRead))
    BY <1>8, <2>2 DEF Trailing, ReturnRead, Return, RAF!Answer, NoReq, RAF!NoReq
  <2>4. bytesRead = 0 \/ fpos + bytesRead <= Len
    BY <2>1, StreamAssumption DEF PInv, Reading, TypeOK, StreamAssumption
  <2>5. fpos' = IF bytesRead = req.arg THEN fpos + bytesRead ELSE RAF!NoPos
    BY <1>8 DEF Trailing, ReturnRead, Return, NoPos, RAF!NoPos
  <2>6. CASE bytesRead = req.arg
    <3>1. RAF!ReadFull
      BY <2>1, <2>3, <2>4, <2>5, <2>6 DEF RAF!ReadFull
    <3> QED
      BY <3>1 DEF RAF!Next
  <2>7. CASE bytesRead # req.arg
    <3>1. RAF!ReadShort
      BY <2>1, <2>3, <2>4, <2>5, <2>7 DEF RAF!ReadShort
    <3> QED
      BY <3>1 DEF RAF!Next
  <2> QED
    BY <2>6, <2>7
<1>9. CASE SeekInt
  BY <1>9, StutterRefines DEF SeekInt, Stutter, IsOpen, CallInv
<1>10. CASE Reset
  BY <1>10, StutterRefines DEF Reset, Stutter, IsOpen
<1>11. CASE Skip
  BY <1>11, StutterRefines DEF Skip, Stutter, IsOpen
<1>12. CASE SkipAvailable
  BY <1>12, StutterRefines DEF SkipAvailable, Stutter, IsOpen
<1>13. CASE SkipCheck
  <2>1. RAF!SeekDone
    BY <1>13 DEF SkipCheck, ReturnSeek, Return, RAF!SeekDone, RAF!Answer, IsOpen, NoReq,
                 RAF!NoReq, PInv, Seeking, CallInv
  <2> QED
    BY <2>1 DEF RAF!Next
<1>14. CASE Size
  <2>1. RAF!Size
    BY <1>14 DEF Size, Return, RAF!Size, RAF!Answer, IsOpen, NoReq, RAF!NoReq, CallInv, TypeOK
  <2> QED
    BY <2>1 DEF RAF!Next
<1>15. CASE Close
  <2>1. RAF!Close
    BY <1>15 DEF Close, Return, RAF!Close, RAF!Answer, IsOpen, NoReq, RAF!NoReq, CallInv
  <2> QED
    BY <2>1 DEF RAF!Next
<1>16. CASE UNCHANGED vars
  BY <1>16, StutterRefines DEF vars, Stutter, IsOpen
<1> QED
  BY <1>1, <1>2, <1>3, <1>4, <1>5, <1>6, <1>7, <1>8, <1>9, <1>10, <1>11, <1>12,
     <1>13, <1>14, <1>15, <1>16 DEF Next, Open, Handle

\* On a reliable stream the client procedures are a random access file: what
\* libtiff reads at an offset is what the stream holds there, or the read fails.
THEOREM Refinement == Reliable => (Spec => IsRandomAccessFile)
<1> SUFFICES ASSUME Reliable PROVE Spec => RAF!Spec
  BY DEF IsRandomAccessFile
<1>1. TInv /\ PInv /\ [Next]_vars => [RAF!Next]_RAF!vars
  BY NextRefines
<1>2. Spec => [](TInv /\ PInv)
  BY AlwaysPInv
<1> QED
  BY <1>1, <1>2, InitRefines, PTL DEF Spec, RAF!Spec
=============================================================================
