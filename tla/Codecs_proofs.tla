---------------------------- MODULE Codecs_proofs ----------------------------
(***************************************************************************)
(* Proofs about the codecs as Codecs composes them: PackBits and LZW stay  *)
(* in their buffers whatever they are given, every chain of LZW's table    *)
(* ends, and TypeOK.  With Fax3_proofs, no scheme puts a byte where it     *)
(* does not belong.                                                        *)
(*                                                                         *)
(* PackBits: while a literal is open its header, at lastliteral, counts    *)
(* the bytes up to the end of the buffer or up to the run behind it, and   *)
(* it can still grow.  So what a full buffer keeps when it is flushed is   *)
(* short enough to leave room for the run that did not fit.                *)
(*                                                                         *)
(* LZW: the encoder flushes while there is room for what one byte of the   *)
(* strip can add.  In the decoder's table the entry at every code has the  *)
(* string of an older entry and one byte more: its chain ends, its length  *)
(* is that of the chain, and a string that a call left half way is resumed *)
(* within itself.  A chain is a recursive function; what is proved of it   *)
(* is proved by the least code for which it would not hold.                *)
(***************************************************************************)
EXTENDS Fax3_proofs, FiniteSetTheorems

-----------------------------------------------------------------------------
(***************************************************************************)
(* Strips and calls, with PackBits and LZW.                                *)
(***************************************************************************)
StripOK == data \in Seq(Values) /\ given \in 0..Len(data)

ClientOK ==
  /\ IsSeq(buf) /\ Len(buf) <= asked
  /\ asked \in 0..StripSize /\ taken \in 0..StripSize
  /\ pc # "idle" => taken + asked <= StripSize
  /\ ret \in {0, 1} /\ ~astray

-----------------------------------------------------------------------------
(***************************************************************************)
(* The inductive invariant of PackBits.                                    *)
(***************************************************************************)
PackBitsPcs == {"row", "run", "again", "put", "idle", "call"}
RawBytes == Bytes \cup Values
PackBitsStates == {"BASE", "LITERAL", "RUN", "LITERAL_RUN"}

\* The last literal reaches to the end of the buffer, or to a run that follows it;
\* and it can grow.
AfterLiteral == IF state = "LITERAL_RUN" THEN 2 ELSE 0
LiteralOK ==
  state \in {"LITERAL", "LITERAL_RUN"} =>
    /\ lastliteral \in 1..Len(raw)
    /\ raw[lastliteral] \in 0..(Limit - 2)
    /\ Len(raw) = lastliteral + raw[lastliteral] + 1 + AfterLiteral

PackBitsOK ==
  /\ pc \in PackBitsPcs
  /\ raw \in Seq(RawBytes) /\ stream \in Seq(RawBytes) /\ Len(raw) <= RawSize
  /\ lastliteral \in 0..RawSize /\ state \in PackBitsStates
  /\ run \in [n : 0..Len(data), b : Nat]
  /\ bp \in 0..(Len(stream) + 1)
  /\ pc = "run" => given < Len(data)
  /\ pc \in {"again", "put"} => run.n > 0 /\ run.b \in Values
  /\ pc = "put" => Len(raw) + 2 <= RawSize
  /\ pc \in {"run", "again", "put"} => LiteralOK

PackBitsSafe == StripOK /\ ClientOK /\ PackBitsOK /\ LzwIdle

-----------------------------------------------------------------------------
(***************************************************************************)
(* The inductive invariant of LZW.                                         *)
(***************************************************************************)
Widths == BITS_MIN..BITS_MAX
Codewords == [code : 0..CODE_MAX, width : Widths]
EncoderRecords == [nbits : Widths, free_ent : Nat, oldcode : NoCode..CODE_MAX,
                   nextbits : 0..7, op : Nat, incount : Nat, outcount : Nat,
                   checkpoint : Nat, ratio : Nat, outbits : Nat]
Entries == [next : {NULL} \cup (0..(CSIZE - 1)), length : Nat, value : Nat, firstchar : Nat]
Tables == [0..(CSIZE - 1) -> Entries]
Places == [nbits : Widths, free : CODE_FIRST..CSIZE, old : Before..CODE_MAX, at : Nat]
EncodePcs == {"encode", "predecode"}
CodePcs == {"code", "first", "cleared"}
LzwPcs == EncodePcs \cup {"idle", "call", "decode"} \cup CodePcs

EncoderOK ==
  /\ enc \in EncoderRecords
  /\ enc.free_ent \in CODE_FIRST..(CODE_MAX - 2) /\ enc.op <= RawSize
  /\ \A s \in DOMAIN hash : hash[s] \in 0..CODE_MAX
  /\ pc = "encode" => /\ Len(data) > 0
                      /\ enc.oldcode = NoCode => given = 0 /\ enc = StartEncoder

\* When a call is to go on with a string, there is more of that string.
DecoderOK ==
  /\ sp \in Places /\ loc \in Places /\ dec_codetab \in Tables /\ code \in 0..CODE_MAX
  /\ dec_restart \in Nat /\ dec_restart <= taken
  /\ dec_restart > 0 => /\ dec_codep \in 0..(CSIZE - 1)
                        /\ dec_codetab[dec_codep].length > dec_restart
  /\ pc \in {"decode"} \cup CodePcs => dec_restart = 0
  /\ pc \in CodePcs => occ > 0
  /\ pc \in EncodePcs => loc = StartDecoder

\* The string of an entry is that of an older one and a byte; an entry that is not
\* in use has no string.
TableOK(table, l) ==
  /\ \A p \in Values : table[p].length = 1 /\ table[p].next = NULL
  /\ \A p \in 0..(CSIZE - 1) :
       p \notin Values /\ p \notin CODE_FIRST..(l.free - 1) => table[p].length = 0
  /\ \A p \in CODE_FIRST..(l.free - 1) :
       /\ table[p].next \in 0..(p - 1)
       /\ table[table[p].next].length > 0
       /\ table[p].length = table[table[p].next].length + 1

\* The entry of the code before, to which the next one goes back.
OldOK(table, l) == l.old # Before => l.old \in 0..(l.free - 1) /\ table[l.old].length > 0

StringsOK == ~failed => /\ TableOK(dec_codetab, loc)
                        /\ pc \notin {"cleared", "first"} => OldOK(dec_codetab, loc)
                        /\ pc \in EncodePcs \cup {"idle", "call"} => loc = sp

LzwSafe == /\ StripOK /\ ClientOK /\ PackBitsIdle
           /\ pc \in LzwPcs /\ stream \in Seq(Codewords)
           /\ EncoderOK /\ DecoderOK /\ StringsOK

CodecsSafe == /\ scheme = "packbits" => PackBitsSafe
              /\ scheme = "lzw" => LzwSafe
-----------------------------------------------------------------------------
(***************************************************************************)
(* Strips and calls.                                                       *)
(***************************************************************************)
LEMMA Sizes ==
  /\ RowSize \in Nat \ {0} /\ RawSize \in Nat /\ ForeignSize \in Nat
  /\ Limit \in Nat /\ Limit > 2 /\ RawSize >= Limit + 4
BY CodecAssumption, PackBitsAssumption

LEMMA StripIs ==
  ASSUME StripOK
  PROVE  Len(data) \in Nat /\ StripSize \in Nat /\ given \in Nat /\ given <= Len(data)
BY Sizes DEF StripOK, StripSize

LEMMA EmptyIsSeq == IsSeq(<<>>) /\ Len(<<>>) = 0
<1>1. <<>> \in Seq({}) /\ Len(<<>>) = 0
  OBVIOUS
<1> QED BY <1>1, SeqIs

LEMMA ClientIs ==
  ASSUME StripOK, ClientOK
  PROVE  /\ asked \in Nat /\ taken \in Nat /\ Len(buf) \in Nat /\ occ \in Nat
         /\ Len(buf) <= asked /\ asked <= StripSize /\ taken <= StripSize
         /\ occ = asked - Len(buf) /\ IsSeq(buf)
<1>1. StripSize \in Nat
  BY StripIs
<1>2. Len(buf) \in Nat
  BY DEF ClientOK, IsSeq
<1> QED BY <1>1, <1>2 DEF ClientOK, occ

\* A strip that stays, and how far it has been encoded.
LEMMA StripKept ==
  ASSUME StripOK, UNCHANGED stripVars, given' \in 0..Len(data)
  PROVE  StripOK' /\ StripSize' = StripSize
BY DEF StripOK, stripVars, StripSize

LEMMA ClientKept ==
  ASSUME ClientOK, pc # "idle", UNCHANGED <<stripVars, clientVars>>
  PROVE  ClientOK'
<1>1. StripSize' = StripSize
  BY DEF StripSize, stripVars
<1>2. /\ asked' = asked /\ buf' = buf /\ taken' = taken /\ ret' = ret /\ astray' = astray
  BY DEF clientVars
<1>3. IsSeq(buf)' /\ (Len(buf) <= asked)'
  BY <1>2 DEF ClientOK, IsSeq
<1> QED BY <1>1, <1>2, <1>3 DEF ClientOK

LEMMA ClientAsks ==
  ASSUME StripOK, ClientOK, NEW sizes \in SUBSET Nat, Ask(sizes)
  PROVE  /\ ClientOK' /\ StripOK' /\ UNCHANGED <<stripVars, stream, taken, failed>>
         /\ pc' = "call" /\ pc = "idle" /\ asked' \in sizes /\ buf' = <<>>
<1>1. /\ pc = "idle" /\ asked' \in Nat /\ taken + asked' <= StripSize /\ buf' = <<>>
      /\ ret' = 1 /\ pc' = "call" /\ asked' \in sizes
      /\ UNCHANGED <<stripVars, given, stream, taken, failed, astray>>
  BY DEF Ask
<1>2. StripSize \in Nat /\ taken \in 0..StripSize /\ taken \in Nat
  BY StripIs, ClientIs DEF ClientOK
<1>3. given' \in 0..Len(data)
  BY <1>1 DEF StripOK
<1>4. StripOK' /\ StripSize' = StripSize
  BY <1>1, <1>3, StripKept
<1>5. IsSeq(buf)' /\ (Len(buf) <= asked)'
  <2>1. IsSeq(buf') /\ Len(buf') = 0
    BY <1>1, EmptyIsSeq
  <2> QED BY <1>1, <2>1 DEF IsSeq
<1>6. asked' \in 0..StripSize
  <2> DEFINE n == asked'
             m == StripSize
  <2> HIDE DEF n, m
  <2>1. n \in Nat /\ m \in Nat /\ taken \in Nat /\ taken + n <= m
    BY <1>1, <1>2 DEF n, m
  <2>2. n \in 0..m
    BY <2>1
  <2> QED BY <2>2 DEF n, m
<1>7. ~astray'
  BY <1>1 DEF ClientOK
<1> QED BY <1>1, <1>2, <1>4, <1>5, <1>6, <1>7 DEF ClientOK

\* A call that goes on.
LEMMA ClientGoesOn ==
  ASSUME StripOK, ClientOK, pc # "idle", UNCHANGED <<stripVars, given, asked, taken, ret>>,
         ~astray', IsSeq(buf'), Len(buf') <= asked
  PROVE  StripOK' /\ ClientOK'
<1>1. given' \in 0..Len(data)
  BY DEF StripOK
<1>2. StripOK' /\ StripSize' = StripSize
  BY <1>1, StripKept
<1>3. IsSeq(buf)' /\ (Len(buf) <= asked)'
  BY DEF IsSeq
<1> QED BY <1>2, <1>3 DEF ClientOK

\* A call that ends.
LEMMA ClientLeaves ==
  ASSUME StripOK, ClientOK, pc # "idle", UNCHANGED <<stripVars, given, asked>>, ~astray',
         NEW bytes, IsSeq(bytes), Len(bytes) <= asked, Return(bytes)
  PROVE  /\ StripOK' /\ ClientOK' /\ pc' = "idle" /\ taken' = taken + asked
         /\ failed' = (failed \/ ~(Len(bytes) >= asked))
<1>1. /\ buf' = bytes /\ taken' = taken + asked /\ pc' = "idle" /\ ret' \in {0, 1}
      /\ failed' = (failed \/ ~(Len(bytes) >= asked))
  BY DEF Return, Finish
<1>2. given' \in 0..Len(data)
  BY DEF StripOK
<1>3. StripOK' /\ StripSize' = StripSize
  BY <1>2, StripKept
<1>4. taken' \in 0..StripSize
  <2>1. taken + asked <= StripSize /\ taken \in 0..StripSize /\ asked \in 0..StripSize
    BY DEF ClientOK
  <2>2. StripSize \in Nat
    BY StripIs
  <2> HIDE DEF StripSize
  <2> QED BY <1>1, <2>1, <2>2
<1>5. IsSeq(buf)' /\ (Len(buf) <= asked)'
  BY <1>1 DEF IsSeq
<1> QED BY <1>1, <1>3, <1>4, <1>5 DEF ClientOK

-----------------------------------------------------------------------------
(***************************************************************************)
(* PackBits.                                                               *)
(***************************************************************************)
\* A run of the row: there is one byte, and the longest one is as long as the rest
\* of the row at most.
LEMMA RunIs ==
  ASSUME NEW end \in Nat, given \in Nat, given < end
  PROVE  /\ RunLength(end) \in 1..(end - given)
         /\ \A i \in 1..RunLength(end) : data[given + i] = data[given + 1]
<1> DEFINE S == {n \in 1..(end - given) : given + n = end \/ data[given + n + 1] # data[given + 1]}
<1>1. end - given \in S
  OBVIOUS
<1>2. PICK m \in S : \A k \in S : m <= k
  <2>1. S \in SUBSET Nat
    OBVIOUS
  <2> HIDE DEF S
  <2> QED BY <1>1, <2>1, LeastOf
<1>3. m \in 1..(end - given) /\ (given + m = end \/ data[given + m + 1] # data[given + 1])
  BY <1>2
<1>4. \A i \in 1..m : data[given + i] = data[given + 1]
  <2> SUFFICES ASSUME NEW i \in 1..m, i # 1
               PROVE  data[given + i] = data[given + 1]
    OBVIOUS
  <2>1. i - 1 \in 1..(end - given) /\ ~(m <= i - 1)
    BY <1>3
  <2>2. i - 1 \notin S
    BY <1>2, <2>1
  <2>3. data[given + (i - 1) + 1] = data[given + 1]
    BY <2>1, <2>2
  <2>4. given + (i - 1) + 1 = given + i
    BY <1>3
  <2> QED BY <2>3, <2>4
<1> HIDE DEF S
<1> QED BY <1>3, <1>4 DEF RunLength

LEMMA EndIs ==
  ASSUME StripOK, given < Len(data)
  PROVE  EndOfRow \in Nat /\ given < EndOfRow /\ EndOfRow <= Len(data)
<1> DEFINE q == given \div RowSize
           r == given % RowSize
           n == (q + 1) * RowSize
<1>1. given \in Nat /\ Len(data) \in Nat /\ RowSize \in Nat \ {0}
  BY StripIs, Sizes
<1>2. q \in Nat /\ r \in 0..(RowSize - 1) /\ given = RowSize * q + r
  BY <1>1, Divided
<1>3. EndOfRow = Smaller(n, Len(data))
  BY DEF EndOfRow
<1> HIDE DEF q, r
<1>4. n = RowSize * q + RowSize /\ n \in Nat
  BY <1>1, <1>2
<1>5. given < n
  <2> DEFINE p == RowSize * q
  <2>1. p \in Nat
    BY <1>1, <1>2
  <2> HIDE DEF p, n
  <2>2. given = p + r /\ n = p + RowSize
    BY <1>2, <1>4 DEF p
  <2> QED BY <1>1, <1>2, <2>1, <2>2
<1> HIDE DEF n
<1> QED BY <1>1, <1>3, <1>4, <1>5 DEF Smaller

LEMMA PackBitsEncodes ==
  ASSUME PackBitsSafe, UNCHANGED lzwVars, UNCHANGED <<stripVars, clientVars>>, pc # "idle",
         given' \in 0..Len(data), PackBitsOK'
  PROVE  PackBitsSafe'
<1>1. StripOK' /\ ClientOK'
  BY StripKept, ClientKept DEF PackBitsSafe
<1>2. LzwIdle'
  BY DEF PackBitsSafe, LzwIdle, lzwVars
<1> QED BY <1>1, <1>2 DEF PackBitsSafe

\* The facts that most steps of the encoder need.
LEMMA RawIs ==
  ASSUME PackBitsSafe
  PROVE  /\ raw \in Seq(RawBytes) /\ stream \in Seq(RawBytes) /\ Len(raw) \in Nat
         /\ Len(stream) \in Nat /\ Len(raw) <= RawSize
         /\ run \in [n : 0..Len(data), b : Nat] /\ run.n \in 0..Len(data) /\ run.n \in Nat
         /\ Len(data) \in Nat /\ given \in Nat /\ given <= Len(data) /\ data \in Seq(Values)
         /\ given \in 0..Len(data) /\ lastliteral \in 0..RawSize /\ state \in PackBitsStates
         /\ bp \in 0..(Len(stream) + 1)
BY StripIs DEF PackBitsSafe, PackBitsOK, StripOK

LEMMA AfterRunIs ==
  ASSUME StripOK
  PROVE  AfterRun \in {"row", "run"} /\ (AfterRun = "run" => given < Len(data))
BY StripIs DEF AfterRun

LEMMA ElementIs ==
  ASSUME NEW S, NEW s \in Seq(S), NEW i \in 1..Len(s)
  PROVE  s[i] \in S
OBVIOUS

LEMMA AppendIs ==
  ASSUME NEW S, NEW s \in Seq(S), NEW x \in S
  PROVE  /\ Append(s, x) \in Seq(S) /\ Len(Append(s, x)) = Len(s) + 1
         /\ \A i \in 1..Len(s) : Append(s, x)[i] = s[i]
OBVIOUS

LEMMA StartRowKeeps == PackBitsSafe /\ UNCHANGED lzwVars /\ StartRow => PackBitsSafe'
<1> SUFFICES ASSUME PackBitsSafe, UNCHANGED lzwVars, StartRow PROVE PackBitsSafe'
  OBVIOUS
<1>1. /\ pc = "row" /\ given < Len(data) /\ state' = "BASE" /\ lastliteral' = 0 /\ pc' = "run"
      /\ UNCHANGED <<stripVars, given, stream, clientVars, raw, run, bp>> /\ data' = data
  BY DEF StartRow, stripVars
<1>2. 0 \in 0..RawSize
  BY Sizes
<1>3. PackBitsOK'
  BY <1>1, <1>2, RawIs DEF PackBitsOK, PackBitsPcs, PackBitsStates, LiteralOK
<1> QED BY <1>1, <1>3, RawIs, PackBitsEncodes

LEMMA FindRunKeeps == PackBitsSafe /\ UNCHANGED lzwVars /\ FindRun => PackBitsSafe'
<1> SUFFICES ASSUME PackBitsSafe, UNCHANGED lzwVars, FindRun PROVE PackBitsSafe'
  OBVIOUS
<1> DEFINE n == RunLength(EndOfRow)
<1>1. /\ pc = "run" /\ run' = [n |-> n, b |-> data[given + 1]] /\ given' = given + n
      /\ pc' = "again"
      /\ UNCHANGED <<stripVars, stream, clientVars, raw, lastliteral, state, bp>> /\ data' = data
  BY DEF FindRun, stripVars
<1>2. given < Len(data)
  BY <1>1 DEF PackBitsSafe, PackBitsOK
<1>3. EndOfRow \in Nat /\ given < EndOfRow /\ EndOfRow <= Len(data)
  BY <1>2, EndIs DEF PackBitsSafe
<1>4. n \in 1..(EndOfRow - given)
  BY <1>3, RawIs, RunIs
<1> HIDE DEF n
<1>5. n \in 0..Len(data) /\ n > 0 /\ given + n \in 0..Len(data)
  BY <1>3, <1>4, RawIs
<1>6. data[given + 1] \in Values /\ data[given + 1] \in Nat
  <2>1. given + 1 \in 1..Len(data) /\ data \in Seq(Values)
    BY <1>2, RawIs
  <2>2. data[given + 1] \in Values
    BY <2>1, ElementIs
  <2> QED BY <2>2, CodecAssumption
<1>7. run' \in [n : 0..Len(data), b : Nat] /\ run'.n > 0 /\ run'.b \in Values
  BY <1>1, <1>5, <1>6
<1>8. LiteralOK'
  BY <1>1 DEF PackBitsSafe, PackBitsOK, LiteralOK, AfterLiteral
<1>9. PackBitsOK'
  BY <1>1, <1>7, <1>8, RawIs DEF PackBitsOK, PackBitsPcs
<1> QED BY <1>1, <1>5, <1>9, PackBitsEncodes

\* What stays in the buffer begins with the last literal, and leaves room for a run.
LEMMA SlopIs ==
  ASSUME PackBitsSafe, pc \in {"run", "again", "put"}
  PROVE  /\ Slop \in 0..Len(raw) /\ Slop + 2 <= RawSize
         /\ state \in {"LITERAL", "LITERAL_RUN"} =>
              /\ Slop = raw[lastliteral] + 2 + AfterLiteral /\ Slop > 0
              /\ lastliteral = Len(raw) - Slop + 1
         /\ state \notin {"LITERAL", "LITERAL_RUN"} => Slop = 0
<1>1. CASE state \in {"LITERAL", "LITERAL_RUN"}
  <2> DEFINE h == raw[lastliteral]
  <2>1. /\ lastliteral \in 1..Len(raw) /\ h \in 0..(Limit - 2)
        /\ Len(raw) = lastliteral + h + 1 + AfterLiteral
    BY <1>1 DEF PackBitsSafe, PackBitsOK, LiteralOK
  <2>2. Slop = Len(raw) - lastliteral + 1 /\ AfterLiteral \in {0, 2}
    BY <1>1 DEF Slop, AfterLiteral
  <2> HIDE DEF h
  <2>3. Slop = h + 2 + AfterLiteral
    BY <2>1, <2>2, RawIs
  <2>4. Slop \in 0..Len(raw) /\ Slop + 2 <= RawSize /\ Slop > 0 /\ lastliteral = Len(raw) - Slop + 1
    BY <2>1, <2>2, <2>3, RawIs, Sizes
  <2> QED BY <1>1, <2>3, <2>4 DEF h
<1>2. CASE state \notin {"LITERAL", "LITERAL_RUN"}
  BY <1>2, RawIs, Sizes DEF Slop
<1> QED BY <1>1, <1>2

LEMMA LastPart ==
  ASSUME NEW S, NEW s \in Seq(S), NEW m \in 0..Len(s), NEW n, n = Len(s) - m
  PROVE  /\ SubSeq(s, m + 1, Len(s)) \in Seq(S) /\ Len(SubSeq(s, m + 1, Len(s))) = n
         /\ \A i \in 1..n : SubSeq(s, m + 1, Len(s))[i] = s[m + i]
<1> DEFINE t == SubSeq(s, m + 1, Len(s))
<1>1. n \in 0..Len(s) /\ Len(s) - (m + 1) + 1 = n /\ m \in Nat
  OBVIOUS
<1>2. t = [i \in 1..n |-> s[m + 1 + i - 1]]
  BY <1>1
<1>3. \A i \in 1..n : m + i \in 1..Len(s) /\ m + 1 + i - 1 = m + i
  BY <1>1
<1>4. \A i \in 1..n : t[i] = s[m + i]
  <2> HIDE DEF t
  <2> QED BY <1>2, <1>3
<1>5. \A i \in 1..n : t[i] \in S
  BY <1>3, <1>4
<1>6. t \in [1..n -> S]
  <2> HIDE DEF t
  <2> QED BY <1>2, <1>5
<1> HIDE DEF t
<1>7. t \in Seq(S) /\ Len(t) = n
  BY <1>1, <1>6
<1> QED BY <1>4, <1>7 DEF t

LEMMA MiddlePart ==
  ASSUME NEW S, NEW s \in Seq(S), NEW a \in 1..(Len(s) + 1), NEW b \in 0..Len(s),
         NEW n \in Nat, b - a + 1 = n
  PROVE  SubSeq(s, a, b) \in Seq(S) /\ Len(SubSeq(s, a, b)) = n
<1> DEFINE t == SubSeq(s, a, b)
<1>1. t = [i \in 1..n |-> s[a + i - 1]]
  OBVIOUS
<1>2. \A i \in 1..n : a + i - 1 \in 1..Len(s)
  OBVIOUS
<1>3. t \in [1..n -> S]
  <2> HIDE DEF t
  <2> QED BY <1>1, <1>2
<1> HIDE DEF t
<1>4. t \in Seq(S) /\ Len(t) = n
  BY <1>3
<1> QED BY <1>4 DEF t

LEMMA FlushKeeps == PackBitsSafe /\ UNCHANGED lzwVars /\ Flush => PackBitsSafe'
<1> SUFFICES ASSUME PackBitsSafe, UNCHANGED lzwVars, Flush PROVE PackBitsSafe'
  OBVIOUS
<1>1. /\ pc = "again" /\ pc' = "put" /\ data' = data
      /\ UNCHANGED <<stripVars, given, clientVars, state, run, bp>>
  BY DEF Flush, stripVars
<1>2. run.n > 0 /\ run.b \in Values /\ LiteralOK
  BY <1>1 DEF PackBitsSafe, PackBitsOK
<1>3. CASE Len(raw) + 2 >= RawSize
  <2> DEFINE m == Len(raw) - Slop
             kept == SubSeq(raw, m + 1, Len(raw))
             out == SubSeq(raw, 1, m)
  <2>1. stream' = stream \o out /\ raw' = kept
        /\ lastliteral' = IF Slop > 0 THEN 1 ELSE lastliteral
    BY <1>3 DEF Flush
  <2>2. /\ Slop \in 0..Len(raw) /\ Slop + 2 <= RawSize
        /\ state \in {"LITERAL", "LITERAL_RUN"} =>
             /\ Slop = raw[lastliteral] + 2 + AfterLiteral /\ Slop > 0 /\ lastliteral = m + 1
    BY <1>1, SlopIs
  <2>3. m \in 0..Len(raw) /\ Len(raw) - m = Slop
    BY <2>2, RawIs
  <2> HIDE DEF m
  <2>4. /\ kept \in Seq(RawBytes) /\ Len(kept) = Slop
        /\ \A i \in 1..Slop : kept[i] = raw[m + i]
    <3> QED BY <2>3, RawIs, LastPart
  <2>5. out \in Seq(RawBytes) /\ Len(out) = m
    BY <2>3, RawIs
  <2>6. stream' \in Seq(RawBytes) /\ Len(stream') = Len(stream) + m
    BY <2>1, <2>5, RawIs, Joined
  <2>7. bp' \in 0..(Len(stream') + 1)
    BY <1>1, <2>3, <2>6, RawIs
  <2>8. lastliteral' \in 0..RawSize
    BY <2>1, RawIs, Sizes
  <2> HIDE DEF kept, out
  <2>9. LiteralOK'
    <3> SUFFICES ASSUME state \in {"LITERAL", "LITERAL_RUN"}
                 PROVE  /\ lastliteral' \in 1..Len(raw') /\ raw'[lastliteral'] \in 0..(Limit - 2)
                        /\ Len(raw') = lastliteral' + raw'[lastliteral'] + 1 + AfterLiteral
      BY <1>1 DEF LiteralOK, AfterLiteral
    <3>1. Slop > 0 /\ lastliteral' = 1 /\ lastliteral = m + 1
          /\ Slop = raw[lastliteral] + 2 + AfterLiteral
      BY <2>1, <2>2
    <3>2. 1 \in 1..Slop
      BY <2>2, <3>1, RawIs
    <3>3. raw'[1] = raw[lastliteral]
      BY <2>1, <2>4, <3>1, <3>2
    <3>4. raw[lastliteral] \in 0..(Limit - 2)
      BY <1>2 DEF LiteralOK
    <3>5. AfterLiteral \in {0, 2}
      BY DEF AfterLiteral
    <3>6. Len(raw') = 1 + raw[lastliteral] + 1 + AfterLiteral
      <4> DEFINE h == raw[lastliteral]
      <4>1. h \in Nat /\ Len(raw') = h + 2 + AfterLiteral
        BY <2>1, <2>4, <3>1, <3>4, Sizes
      <4> HIDE DEF h
      <4> QED BY <3>5, <4>1 DEF h
    <3> QED BY <2>1, <2>4, <3>1, <3>2, <3>3, <3>4, <3>6
  <2>10. Len(raw') <= RawSize /\ Len(raw') + 2 <= RawSize /\ raw' \in Seq(RawBytes)
    BY <2>1, <2>2, <2>4, RawIs, Sizes
  <2>11. PackBitsOK'
    BY <1>1, <1>2, <2>6, <2>7, <2>8, <2>9, <2>10, RawIs DEF PackBitsOK, PackBitsPcs
  <2> QED BY <1>1, <2>11, RawIs, PackBitsEncodes
<1>4. CASE ~(Len(raw) + 2 >= RawSize)
  <2>1. UNCHANGED <<stream, raw, lastliteral>>
    BY <1>4 DEF Flush
  <2>2. Len(raw) + 2 <= RawSize
    BY <1>4, RawIs, Sizes
  <2>3. LiteralOK'
    BY <1>1, <1>2, <2>1 DEF LiteralOK, AfterLiteral
  <2>4. PackBitsOK'
    BY <1>1, <1>2, <2>1, <2>2, <2>3, RawIs DEF PackBitsOK, PackBitsPcs
  <2> QED BY <1>1, <2>4, RawIs, PackBitsEncodes
<1> QED BY <1>3, <1>4

\* Two bytes at the end of the buffer, and the literal if there is one.
LEMMA PutTwo ==
  ASSUME PackBitsSafe, pc = "put", NEW x \in RawBytes, NEW y \in RawBytes,
         raw' = raw \o <<x, y>>
  PROVE  /\ raw' \in Seq(RawBytes) /\ Len(raw') = Len(raw) + 2 /\ Len(raw') <= RawSize
         /\ \A i \in 1..Len(raw) : raw'[i] = raw[i]
         /\ raw'[Len(raw) + 1] = x
         /\ run.n > 0 /\ run.b \in Values /\ LiteralOK
<1>1. <<x, y>> \in Seq(RawBytes) /\ Len(<<x, y>>) = 2
  OBVIOUS
<1>2. raw' \in Seq(RawBytes) /\ Len(raw') = Len(raw) + 2
  BY <1>1, RawIs, Joined
<1>3. Len(raw) + 2 <= RawSize /\ run.n > 0 /\ run.b \in Values /\ LiteralOK
  BY DEF PackBitsSafe, PackBitsOK
<1>4. /\ \A i \in 1..Len(raw) : raw'[i] = raw[i]
      /\ raw'[Len(raw) + 1] = x
  BY <1>1, RawIs
<1> QED BY <1>2, <1>3, <1>4

LEMMA ByteIs ==
  /\ \A h \in -(Limit - 1)..(Limit - 1) : h \in RawBytes
  /\ LongRun \in RawBytes /\ 0 \in RawBytes
  /\ \A v \in Values : v \in RawBytes
  /\ \A h \in 0..(Limit - 1) : AsByte(h) = h
BY Sizes DEF RawBytes, Bytes, LongRun, AsByte

LEMMA PutRunKeeps == PackBitsSafe /\ UNCHANGED lzwVars /\ PutRun => PackBitsSafe'
<1> SUFFICES ASSUME PackBitsSafe, UNCHANGED lzwVars, PutRun PROVE PackBitsSafe'
  OBVIOUS
<1>1. /\ pc = "put" /\ state \in {"BASE", "LITERAL", "RUN"} /\ run.n > 1
      /\ state' = (IF state = "LITERAL" THEN "LITERAL_RUN" ELSE "RUN")
      /\ UNCHANGED <<stripVars, given, stream, clientVars, lastliteral, bp>> /\ data' = data
  BY DEF PutRun, stripVars
<1>2. run.b \in Values
  BY <1>1 DEF PackBitsSafe, PackBitsOK
<1>3. PICK x \in RawBytes, y \in RawBytes :
        /\ raw' = raw \o <<x, y>>
        /\ run' \in [n : 0..Len(data), b : Nat]
        /\ pc' \in {"again", "row", "run"} /\ (pc' = "again" => run'.n > 0 /\ run'.b \in Values)
        /\ (pc' = "run" => given < Len(data))
  <2>1. CASE run.n > Limit
    <3>1. raw' = raw \o <<LongRun, run.b>> /\ run' = [run EXCEPT !.n = @ - Limit] /\ pc' = "again"
      BY <2>1 DEF PutRun
    <3>2. run.n - Limit \in 0..Len(data) /\ run.n - Limit > 0
      BY <2>1, RawIs, Sizes
    <3>3. run' \in [n : 0..Len(data), b : Nat]
      BY <3>1, <3>2, RawIs
    <3>4. run'.n > 0 /\ run'.b \in Values
      BY <1>2, <3>1, <3>2, RawIs
    <3> QED BY <1>2, <3>1, <3>3, <3>4, ByteIs
  <2>2. CASE ~(run.n > Limit)
    <3>1. raw' = raw \o <<-(run.n - 1), run.b>> /\ run' = NoRun /\ pc' = AfterRun
      BY <2>2 DEF PutRun
    <3>2. -(run.n - 1) \in -(Limit - 1)..(Limit - 1)
      BY <1>1, <2>2, RawIs, Sizes, SMTT(30)
    <3>3. run' \in [n : 0..Len(data), b : Nat]
      BY <3>1, RawIs DEF NoRun
    <3>4. pc' \in {"row", "run"} /\ (pc' = "run" => given < Len(data))
      BY <3>1, AfterRunIs DEF PackBitsSafe
    <3> QED BY <1>2, <3>1, <3>2, <3>3, <3>4, ByteIs
  <2> QED BY <2>1, <2>2
<1>4. /\ raw' \in Seq(RawBytes) /\ Len(raw') = Len(raw) + 2 /\ Len(raw') <= RawSize
      /\ \A i \in 1..Len(raw) : raw'[i] = raw[i]
      /\ LiteralOK
  BY <1>1, <1>3, PutTwo
<1>5. LiteralOK'
  <2> SUFFICES ASSUME state' \in {"LITERAL", "LITERAL_RUN"}
               PROVE  /\ lastliteral' \in 1..Len(raw') /\ raw'[lastliteral'] \in 0..(Limit - 2)
                      /\ Len(raw') = lastliteral' + raw'[lastliteral'] + 1 + AfterLiteral'
    BY DEF LiteralOK
  <2>1. state = "LITERAL" /\ AfterLiteral = 0 /\ AfterLiteral' = 2
    BY <1>1 DEF AfterLiteral
  <2>2. /\ lastliteral \in 1..Len(raw) /\ raw[lastliteral] \in 0..(Limit - 2)
        /\ Len(raw) = lastliteral + raw[lastliteral] + 1
    BY <1>4, <2>1, Sizes DEF LiteralOK
  <2>3. raw'[lastliteral] = raw[lastliteral]
    BY <1>4, <2>2
  <2>4. Len(raw') = lastliteral + raw[lastliteral] + 1 + 2
    BY <1>4, <2>2
  <2> QED BY <1>1, <1>4, <2>1, <2>2, <2>3, <2>4, RawIs, SMTT(30)
<1>6. PackBitsOK'
  BY <1>1, <1>3, <1>4, <1>5, RawIs DEF PackBitsOK, PackBitsPcs, PackBitsStates
<1> QED BY <1>1, <1>6, RawIs, PackBitsEncodes

LEMMA StartLiteralKeeps == PackBitsSafe /\ UNCHANGED lzwVars /\ StartLiteral => PackBitsSafe'
<1> SUFFICES ASSUME PackBitsSafe, UNCHANGED lzwVars, StartLiteral PROVE PackBitsSafe'
  OBVIOUS
<1>1. /\ pc = "put" /\ lastliteral' = Len(raw) + 1 /\ raw' = raw \o <<0, run.b>>
      /\ state' = "LITERAL" /\ run' = NoRun /\ pc' = AfterRun
      /\ UNCHANGED <<stripVars, given, stream, clientVars, bp>> /\ data' = data
  BY DEF StartLiteral, stripVars
<1>2. 0 \in RawBytes /\ run.b \in RawBytes
  BY <1>1, ByteIs DEF PackBitsSafe, PackBitsOK
<1>3. /\ raw' \in Seq(RawBytes) /\ Len(raw') = Len(raw) + 2 /\ Len(raw') <= RawSize
      /\ raw'[Len(raw) + 1] = 0
  BY <1>1, <1>2, PutTwo
<1>4. LiteralOK'
  <2>1. AfterLiteral' = 0
    BY <1>1 DEF AfterLiteral
  <2>2. lastliteral' \in 1..Len(raw') /\ raw'[lastliteral'] = 0
    BY <1>1, <1>3, RawIs
  <2> QED BY <1>1, <1>3, <2>1, <2>2, RawIs, Sizes, SMTT(30) DEF LiteralOK
<1>5. pc' \in {"row", "run"} /\ (pc' = "run" => given < Len(data))
  BY <1>1, AfterRunIs DEF PackBitsSafe
<1>6. lastliteral' \in 0..RawSize
  BY <1>1, <1>3, RawIs, Sizes
<1>7. run' \in [n : 0..Len(data), b : Nat]
  BY <1>1, RawIs DEF NoRun
<1>8. PackBitsOK'
  BY <1>1, <1>3, <1>4, <1>5, <1>6, <1>7, RawIs DEF PackBitsOK, PackBitsPcs, PackBitsStates
<1> QED BY <1>1, <1>8, RawIs, PackBitsEncodes

LEMMA ExtendLiteralKeeps == PackBitsSafe /\ UNCHANGED lzwVars /\ ExtendLiteral => PackBitsSafe'
<1> SUFFICES ASSUME PackBitsSafe, UNCHANGED lzwVars, ExtendLiteral PROVE PackBitsSafe'
  OBVIOUS
<1> DEFINE h == raw[lastliteral]
           grown == [raw EXCEPT ![lastliteral] = AsByte(h + 1)]
<1>1. /\ pc = "put" /\ state = "LITERAL" /\ raw' = Append(grown, run.b)
      /\ state' = (IF LiteralFull(raw'[lastliteral]) THEN "BASE" ELSE "LITERAL")
      /\ run' = NoRun /\ pc' = AfterRun
      /\ UNCHANGED <<stripVars, given, stream, clientVars, lastliteral, bp>> /\ data' = data
  BY DEF ExtendLiteral, stripVars
<1>2. /\ run.b \in RawBytes /\ Len(raw) + 2 <= RawSize
      /\ lastliteral \in 1..Len(raw) /\ h \in 0..(Limit - 2)
      /\ Len(raw) = lastliteral + h + 1 + AfterLiteral
  BY <1>1, ByteIs DEF PackBitsSafe, PackBitsOK, LiteralOK
<1>3. AfterLiteral = 0 /\ AfterLiteral' = 0
  BY <1>1 DEF AfterLiteral, LiteralFull
<1>4. h + 1 \in 0..(Limit - 1) /\ AsByte(h + 1) = h + 1 /\ h + 1 \in RawBytes
  <2>1. h + 1 \in 0..(Limit - 1)
    BY <1>2, Sizes
  <2>2. h + 1 \in -(Limit - 1)..(Limit - 1)
    BY <2>1, Sizes
  <2> QED BY <2>1, <2>2, ByteIs
<1>5. /\ grown \in Seq(RawBytes) /\ Len(grown) = Len(raw) /\ grown[lastliteral] = h + 1
  <2> HIDE DEF h
  <2> QED BY <1>2, <1>4, RawIs
<1> HIDE DEF grown
<1>6. /\ raw' \in Seq(RawBytes) /\ Len(raw') = Len(raw) + 1 /\ raw'[lastliteral] = h + 1
  <2>1. raw' = Append(grown, run.b)
    BY <1>1
  <2>2. lastliteral \in 1..Len(grown)
    BY <1>2, <1>5
  <2>3. run.b \in RawBytes
    BY <1>2
  <2> HIDE DEF h
  <2> QED BY <1>5, <2>1, <2>2, <2>3, AppendIs
<1>7. Len(raw') <= RawSize /\ lastliteral' \in 0..RawSize
  <2>1. Len(raw) + 2 <= RawSize /\ Len(raw') = Len(raw) + 1 /\ Len(raw) \in Nat
    BY <1>2, <1>6, RawIs
  <2>2. Len(raw') <= RawSize
    BY <2>1, Sizes
  <2> QED BY <1>1, <2>2, RawIs
<1>8. LiteralOK'
  <2> HIDE DEF h
  <2>1. lastliteral' \in 1..Len(raw') /\ raw'[lastliteral'] = h + 1
    BY <1>1, <1>2, <1>6, RawIs, SMTT(30)
  <2>2. state' \in {"LITERAL", "LITERAL_RUN"} => h + 1 # Limit - 1
    BY <1>1, <1>6 DEF LiteralFull
  <2>3. Len(raw') = lastliteral' + (h + 1) + 1
    BY <1>1, <1>2, <1>3, <1>6, RawIs
  <2> QED BY <1>3, <1>4, <2>1, <2>2, <2>3, Sizes DEF LiteralOK
<1>9. pc' \in {"row", "run"} /\ (pc' = "run" => given < Len(data))
  BY <1>1, AfterRunIs DEF PackBitsSafe
<1>10. run' \in [n : 0..Len(data), b : Nat] /\ state' \in PackBitsStates
  BY <1>1, RawIs DEF NoRun, PackBitsStates
<1>11. PackBitsOK'
  BY <1>1, <1>6, <1>7, <1>8, <1>9, <1>10, RawIs DEF PackBitsOK, PackBitsPcs
<1> QED BY <1>1, <1>11, RawIs, PackBitsEncodes

LEMMA MergeLiteralsKeeps == PackBitsSafe /\ UNCHANGED lzwVars /\ MergeLiterals => PackBitsSafe'
<1> SUFFICES ASSUME PackBitsSafe, UNCHANGED lzwVars, MergeLiterals PROVE PackBitsSafe'
  OBVIOUS
<1> DEFINE h == raw[lastliteral]
           n == Len(raw)
<1>1. /\ pc = "put" /\ state = "LITERAL_RUN" /\ pc' = "again"
      /\ UNCHANGED <<stripVars, given, stream, clientVars, lastliteral, run, bp>> /\ data' = data
  BY DEF MergeLiterals, stripVars
<1>2. /\ run.n > 0 /\ run.b \in Values /\ n <= RawSize
      /\ lastliteral \in 1..n /\ h \in 0..(Limit - 2) /\ n = lastliteral + h + 1 + AfterLiteral
  BY <1>1 DEF PackBitsSafe, PackBitsOK, LiteralOK
<1>3. AfterLiteral = 2
  BY <1>1 DEF AfterLiteral
<1>4. CASE state' = "RUN" /\ UNCHANGED raw
  <2>1. LiteralOK'
    BY <1>4 DEF LiteralOK
  <2> QED BY <1>1, <1>2, <1>4, <2>1, RawIs, PackBitsEncodes
          DEF PackBitsOK, PackBitsPcs, PackBitsStates
<1>5. CASE /\ RoomForRun(h)
           /\ raw' = [raw EXCEPT ![lastliteral] = AsByte(h + 2), ![n - 1] = raw[n]]
           /\ state' = (IF LiteralFull(raw'[lastliteral]) THEN "BASE" ELSE "LITERAL")
  <2>1. h + 2 \in 0..(Limit - 1) /\ AsByte(h + 2) = h + 2 /\ h + 2 \in RawBytes
    <3>1. h \in 0..(Limit - 2) /\ h < Limit - 2
      BY <1>2, <1>5 DEF RoomForRun
    <3> HIDE DEF h
    <3>2. h + 2 \in 0..(Limit - 1)
      BY <3>1, Sizes
    <3>3. h + 2 \in -(Limit - 1)..(Limit - 1)
      BY <3>2, Sizes
    <3> QED BY <3>2, <3>3, ByteIs
  <2> HIDE DEF h
  <2>2. n - 1 \in 1..n /\ n - 1 # lastliteral /\ n \in 1..n
    BY <1>2, <1>3, RawIs
  <2>3. raw[n] \in RawBytes
    BY <2>2, RawIs
  <2>4. raw' \in Seq(RawBytes) /\ Len(raw') = n /\ raw'[lastliteral] = h + 2
    BY <1>2, <1>5, <2>1, <2>2, <2>3, RawIs, SMTT(30)
  <2> HIDE DEF n
  <2>5. AfterLiteral' = 0 /\ state' \in PackBitsStates
    BY <1>5 DEF AfterLiteral, PackBitsStates
  <2>6. LiteralOK'
    <3>1. lastliteral' \in 1..Len(raw') /\ raw'[lastliteral'] = h + 2
      BY <1>1, <1>2, <2>4
    <3>2. state' \in {"LITERAL", "LITERAL_RUN"} => h + 2 # Limit - 1
      BY <1>5, <2>4 DEF LiteralFull
    <3>3. Len(raw') = lastliteral' + (h + 2) + 1
      BY <1>1, <1>2, <1>3, <2>4, Sizes
    <3> QED BY <2>1, <2>5, <3>1, <3>2, <3>3, Sizes DEF LiteralOK
  <2>7. PackBitsOK'
    BY <1>1, <1>2, <2>4, <2>5, <2>6, RawIs DEF PackBitsOK, PackBitsPcs
  <2> QED BY <1>1, <2>7, RawIs, PackBitsEncodes
<1> QED BY <1>4, <1>5 DEF MergeLiterals

LEMMA PackBitsPostEncodeKeeps ==
  PackBitsSafe /\ UNCHANGED lzwVars /\ PackBitsPostEncode => PackBitsSafe'
<1> SUFFICES ASSUME PackBitsSafe, UNCHANGED lzwVars, PackBitsPostEncode PROVE PackBitsSafe'
  OBVIOUS
<1>1. /\ pc = "row" /\ stream' = stream \o raw /\ raw' = <<>> /\ pc' = "idle" /\ data' = data
      /\ UNCHANGED <<stripVars, given, clientVars, lastliteral, state, run, bp>>
  BY DEF PackBitsPostEncode, stripVars
<1>2. stream' \in Seq(RawBytes) /\ Len(stream') = Len(stream) + Len(raw)
  BY <1>1, RawIs, Joined
<1>3. bp' \in 0..(Len(stream') + 1)
  BY <1>1, <1>2, RawIs
<1>4. raw' \in Seq(RawBytes) /\ Len(raw') <= RawSize
  BY <1>1, Sizes
<1>5. PackBitsOK'
  BY <1>1, <1>2, <1>3, <1>4, RawIs DEF PackBitsOK, PackBitsPcs
<1> QED BY <1>1, <1>5, RawIs, PackBitsEncodes

\* The decoder.
LEMMA PackBitsIs ==
  ASSUME PackBitsSafe, pc = "call"
  PROVE  /\ cc = Len(stream) - bp /\ occ = asked - Len(buf) /\ occ \in Nat
         /\ Len(buf) \in Nat /\ asked \in Nat /\ bp \in Nat /\ IsSeq(buf) /\ Len(buf) <= asked
         /\ Len(stream) \in Nat
         /\ More => /\ bp + 1 \in 1..Len(stream) /\ occ > 0
                    /\ Header \in RawBytes /\ Header \in Int
                    /\ Header < 2 * Limit \/ Header \in Values
         /\ StripOK /\ ClientOK
<1>1. Len(stream) \in Nat /\ bp \in 0..(Len(stream) + 1) /\ stream \in Seq(RawBytes)
  BY RawIs
<1>2. /\ occ = asked - Len(buf) /\ occ \in Nat /\ IsSeq(buf)
      /\ Len(buf) \in Nat /\ asked \in Nat /\ Len(buf) <= asked
  BY ClientIs DEF PackBitsSafe
<1>3. ASSUME More PROVE bp + 1 \in 1..Len(stream) /\ occ > 0
  BY <1>1, <1>3 DEF More, cc
<1>4. ASSUME More PROVE Header \in RawBytes
  BY <1>1, <1>3, <1>4, ElementIs DEF Header
<1>5. \A x \in RawBytes : x \in Int /\ (x < 2 * Limit \/ x \in Values)
  BY Sizes, CodecAssumption DEF RawBytes, Bytes
<1> QED BY <1>1, <1>2, <1>3, <1>4, <1>5 DEF cc, PackBitsSafe

\* A step within a call.
LEMMA PackBitsDecodes ==
  ASSUME PackBitsSafe, UNCHANGED lzwVars, pc = "call", NEW bytes, NEW n \in Nat, Decoded(bytes, n),
         IsSeq(bytes), Len(bytes) <= occ, bp + n <= Len(stream) + 1, ~astray'
  PROVE  PackBitsSafe'
<1>1. /\ buf' = buf \o bytes /\ bp' = bp + n /\ data' = data
      /\ UNCHANGED <<stripVars, given, stream, pc, asked, taken, ret, failed,
                     raw, lastliteral, state, run>>
  BY DEF Decoded, stripVars
<1>2. IsSeq(buf') /\ Len(buf') = Len(buf) + Len(bytes) /\ Len(bytes) \in Nat
  BY <1>1, PackBitsIs, SeqsJoined
<1>3. Len(buf') <= asked
  BY <1>2, PackBitsIs
<1>4. StripOK' /\ ClientOK'
  BY <1>1, <1>2, <1>3, PackBitsIs, ClientGoesOn
<1>5. bp' \in 0..(Len(stream') + 1)
  BY <1>1, PackBitsIs
<1>6. PackBitsOK'
  BY <1>1, <1>5, RawIs DEF PackBitsOK, PackBitsPcs
<1>7. LzwIdle'
  BY DEF PackBitsSafe, LzwIdle, lzwVars
<1> QED BY <1>4, <1>6, <1>7 DEF PackBitsSafe

LEMMA CutIs ==
  ASSUME PackBitsSafe, pc = "call", More, NEW n \in Nat \ {0}
  PROVE  Cut(n) \in 1..occ /\ Cut(n) <= n
BY PackBitsIs DEF Cut

LEMMA SkipKeeps == PackBitsSafe /\ UNCHANGED lzwVars /\ Skip => PackBitsSafe'
<1> SUFFICES ASSUME PackBitsSafe, UNCHANGED lzwVars, Skip PROVE PackBitsSafe'
  OBVIOUS
<1>1. pc = "call" /\ More /\ Decoded(<<>>, 1) /\ ~astray'
  BY DEF Skip, More, NopConsumed, PackBitsSafe, ClientOK
<1>2. bp + 1 <= Len(stream) + 1 /\ Len(<<>>) <= occ
  BY <1>1, PackBitsIs, EmptyIsSeq
<1> QED BY <1>1, <1>2, EmptyIsSeq, PackBitsDecodes

LEMMA RepeatKeeps == PackBitsSafe /\ UNCHANGED lzwVars /\ Repeat => PackBitsSafe'
<1> SUFFICES ASSUME PackBitsSafe, UNCHANGED lzwVars, Repeat PROVE PackBitsSafe'
  OBVIOUS
<1>1. pc = "call" /\ More /\ Header \in LongRun..-1 /\ astray' = (astray \/ Len(buf') > asked)
  BY DEF Repeat, More
<1>2. PICK b : Decoded([i \in 1..Cut(1 - Header) |-> b], 2)
  BY DEF Repeat
<1> DEFINE n == Cut(1 - Header)
           bytes == [i \in 1..n |-> b]
<1>3. n \in 1..occ
  <2>1. 1 - Header \in Nat \ {0}
    BY <1>1, PackBitsIs
  <2> QED BY <1>1, <2>1, CutIs
<1>4. n \in Nat /\ n <= occ
  BY <1>1, <1>3, PackBitsIs
<1> HIDE DEF n
<1>5. IsSeq(bytes) /\ Len(bytes) = n
  BY <1>4, FunctionIsSeq
<1>6. Decoded(bytes, 2)
  BY <1>2 DEF n
<1> HIDE DEF bytes
<1>7. Len(bytes) <= occ /\ bp + 2 <= Len(stream) + 1
  BY <1>1, <1>4, <1>5, PackBitsIs
<1>8. ~astray'
  <2>1. buf' = buf \o bytes
    BY <1>6 DEF Decoded
  <2>2. Len(buf') = Len(buf) + Len(bytes)
    BY <1>1, <1>5, <2>1, PackBitsIs, SeqsJoined
  <2>3. ~(Len(buf') > asked)
    BY <1>1, <1>4, <1>5, <2>2, PackBitsIs
  <2> QED BY <1>1, <2>3 DEF PackBitsSafe, ClientOK
<1> QED BY <1>1, <1>5, <1>6, <1>7, <1>8, PackBitsDecodes

LEMMA CopyKeeps == PackBitsSafe /\ UNCHANGED lzwVars /\ Copy => PackBitsSafe'
<1> SUFFICES ASSUME PackBitsSafe, UNCHANGED lzwVars, Copy PROVE PackBitsSafe'
  OBVIOUS
<1> DEFINE n == Cut(Header + 1)
           bytes == SubSeq(stream, bp + 2, bp + 1 + n)
<1>1. /\ pc = "call" /\ More /\ Header >= 0 /\ n < cc /\ Decoded(bytes, 1 + n)
      /\ astray' = (astray \/ Len(buf') > asked)
  BY DEF Copy, More
<1>2. n \in 1..occ
  <2>1. Header + 1 \in Nat \ {0}
    BY <1>1, PackBitsIs
  <2> QED BY <1>1, <2>1, CutIs
<1>3. n \in Nat /\ n <= occ
  BY <1>1, <1>2, PackBitsIs
<1>4. n < Len(stream) - bp
  BY <1>1 DEF cc
<1> HIDE DEF n
<1>5. IsSeq(bytes) /\ Len(bytes) = n
  <2>1. stream \in Seq(RawBytes) /\ bp \in Nat /\ Len(stream) \in Nat
    BY <1>1, PackBitsIs, RawIs
  <2>2. bp + 2 \in 1..(Len(stream) + 1) /\ bp + 1 + n \in 0..Len(stream)
        /\ bp + 1 + n - (bp + 2) + 1 = n
    BY <1>3, <1>4, <2>1
  <2>3. bytes \in Seq(RawBytes) /\ Len(bytes) = n
    BY <1>3, <2>1, <2>2, MiddlePart
  <2> QED BY <2>3, SeqIs
<1>6. Decoded(bytes, 1 + n)
  BY <1>1
<1> HIDE DEF bytes
<1>7. Len(bytes) <= occ /\ bp + (1 + n) <= Len(stream) + 1 /\ 1 + n \in Nat
  BY <1>1, <1>3, <1>4, <1>5, PackBitsIs
<1>8. ~astray'
  <2>1. buf' = buf \o bytes
    BY <1>6 DEF Decoded
  <2>2. Len(buf') = Len(buf) + Len(bytes)
    BY <1>1, <1>5, <2>1, PackBitsIs, SeqsJoined
  <2>3. ~(Len(buf') > asked)
    BY <1>1, <1>3, <1>5, <2>2, PackBitsIs
  <2> QED BY <1>1, <2>3 DEF PackBitsSafe, ClientOK
<1> QED BY <1>1, <1>5, <1>6, <1>7, <1>8, PackBitsDecodes

LEMMA PackBitsReturnKeeps ==
  PackBitsSafe /\ UNCHANGED lzwVars /\ PackBitsReturn => PackBitsSafe'
<1> SUFFICES ASSUME PackBitsSafe, UNCHANGED lzwVars, PackBitsReturn PROVE PackBitsSafe'
  OBVIOUS
<1>1. /\ pc = "call" /\ Return(buf)
      /\ bp' = bp \/ (More /\ bp' = bp + 1)
      /\ UNCHANGED <<stripVars, given, stream, asked, astray, raw, lastliteral, state, run>>
      /\ data' = data /\ ~astray'
  BY DEF PackBitsReturn, stripVars, PackBitsSafe, ClientOK
<1>2. IsSeq(buf) /\ Len(buf) <= asked /\ StripOK /\ ClientOK
  BY <1>1, PackBitsIs
<1>3. StripOK' /\ ClientOK' /\ pc' = "idle"
  BY <1>1, <1>2, ClientLeaves
<1>4. bp' \in 0..(Len(stream') + 1)
  BY <1>1, PackBitsIs, RawIs, SMTT(30)
<1>5. PackBitsOK'
  BY <1>1, <1>3, <1>4, RawIs DEF PackBitsOK, PackBitsPcs
<1>6. LzwIdle'
  BY DEF PackBitsSafe, LzwIdle, lzwVars
<1> QED BY <1>3, <1>5, <1>6 DEF PackBitsSafe

LEMMA PackBitsAskKeeps == PackBitsSafe /\ UNCHANGED lzwVars /\ PackBitsAsk => PackBitsSafe'
<1> SUFFICES ASSUME PackBitsSafe, UNCHANGED lzwVars, PackBitsAsk PROVE PackBitsSafe'
  OBVIOUS
<1> DEFINE sizes == IF foreign THEN 1..StripSize
                    ELSE {n \in 1..StripSize : n % RowSize = 0 \/ n = StripSize}
<1>1. Ask(sizes) /\ UNCHANGED packbitsVars
  BY DEF PackBitsAsk
<1>2. sizes \in SUBSET Nat
  BY StripIs DEF PackBitsSafe
<1> HIDE DEF sizes
<1>3. /\ StripOK' /\ ClientOK' /\ UNCHANGED <<stripVars, stream>> /\ pc' = "call" /\ data' = data
  BY <1>1, <1>2, ClientAsks DEF PackBitsSafe, stripVars
<1>4. PackBitsOK'
  BY <1>1, <1>3, RawIs DEF PackBitsOK, PackBitsPcs, packbitsVars
<1>5. LzwIdle'
  BY DEF PackBitsSafe, LzwIdle, lzwVars
<1> QED BY <1>3, <1>4, <1>5 DEF PackBitsSafe

LEMMA PackBitsKeeps == PackBitsSafe /\ UNCHANGED lzwVars /\ PackBitsNext => PackBitsSafe'
BY StartRowKeeps, FindRunKeeps, FlushKeeps, PutRunKeeps, StartLiteralKeeps, ExtendLiteralKeeps,
   MergeLiteralsKeeps, PackBitsPostEncodeKeeps, SkipKeeps, RepeatKeeps, CopyKeeps,
   PackBitsReturnKeeps, PackBitsAskKeeps
   DEF PackBitsNext, PackBitsEncode, PackBitsDecode

LEMMA StripOfValues ==
  ASSUME NEW lengths \in SUBSET Nat, NEW s \in Strips(lengths)
  PROVE  s \in Seq(Values) /\ Len(s) \in lengths
<1>1. PICK n \in lengths : s \in [1..n -> Values]
  BY DEF Strips
<1>2. n \in Nat
  OBVIOUS
<1> QED BY <1>1, <1>2

LEMMA PackBitsStart ==
  ASSUME PackBitsInit(Strips(PackBitsLengths), PackBitsStreams), LzwIdle
  PROVE  PackBitsSafe
<1>1. /\ given = 0 /\ asked = 0 /\ buf = <<>> /\ taken = 0 /\ ret = 1 /\ ~astray
      /\ raw = <<>> /\ lastliteral = 0 /\ state = "BASE" /\ run = NoRun /\ bp = 0
  BY DEF PackBitsInit, CodecInit, PackBitsIdle
<1>2. PackBitsLengths \in SUBSET Nat /\ ForeignBytes \in Nat
  BY CodecsAssumption
<1>3. data \in Seq(Values) /\ stream \in Seq(RawBytes) /\ pc \in {"row", "idle"}
  <2>1. CASE data \in Strips(PackBitsLengths) /\ stream = <<>> /\ pc = "row"
    <3>1. data \in Seq(Values)
      BY <1>2, <2>1, StripOfValues
    <3> QED BY <2>1, <3>1
  <2>2. CASE data = <<>> /\ stream \in PackBitsStreams /\ pc = "idle"
    <3>1. PICK n \in 0..ForeignBytes : stream \in [1..n -> Bytes]
      BY <2>2 DEF PackBitsStreams
    <3>2. n \in Nat /\ stream \in [1..n -> RawBytes]
      BY <1>2, <3>1 DEF RawBytes
    <3>3. stream \in Seq(RawBytes)
      BY <3>2
    <3> QED BY <2>2, <3>3
  <2> QED BY <2>1, <2>2 DEF PackBitsInit
<1>4. Len(data) \in Nat /\ Len(stream) \in Nat
  BY <1>3
<1>5. StripOK
  BY <1>1, <1>3, <1>4 DEF StripOK
<1>6. ClientOK
  BY <1>1, <1>5, StripIs, EmptyIsSeq DEF ClientOK
<1>7. PackBitsOK
  BY <1>1, <1>3, <1>4, Sizes DEF PackBitsOK, PackBitsPcs, PackBitsStates, NoRun
<1> QED BY <1>5, <1>6, <1>7 DEF PackBitsSafe

-----------------------------------------------------------------------------
(***************************************************************************)
(* The codes of LZW, and the chains of its table.                          *)
(***************************************************************************)
LEMMA CodesAre ==
  /\ CODE_CLEAR \in Nat /\ CODE_EOI = CODE_CLEAR + 1 /\ CODE_FIRST = CODE_CLEAR + 2
  /\ CODE_EOI \in Nat /\ CODE_FIRST \in Nat /\ CODE_MAX \in Nat /\ CSIZE \in Nat
  /\ CODE_FIRST + 4 <= CODE_MAX /\ CODE_MAX < CSIZE
  /\ Values = 0..(CODE_CLEAR - 1)
  /\ \A n \in Widths : MAXCODE(n) \in Nat /\ MAXCODE(n) <= CODE_MAX
  /\ CODE_MAX = MAXCODE(12) /\ Widths = 9..12
  /\ NoCode = -1 /\ NULL = -2 /\ Before = -1 /\ BITS_MIN = 9 /\ BITS_MAX = 12
  /\ RawSize \in Nat /\ RawSize > 7 /\ CHECK_GAP \in Nat \ {0} /\ ForeignBits \in Nat
  /\ Requests \in SUBSET Nat
<1>1. CODE_CLEAR \in Nat /\ Values = 0..(CODE_CLEAR - 1)
  BY LzwAssumption, FS_CardinalityType DEF CODE_CLEAR
<1>2. CODE_EOI = CODE_CLEAR + 1 /\ CODE_FIRST = CODE_CLEAR + 2
  BY DEF CODE_EOI, CODE_FIRST
<1> HIDE DEF CODE_CLEAR
<1>3. /\ MAXCODE(9) = MaxCodes[1] /\ MAXCODE(10) = MaxCodes[2]
      /\ MAXCODE(11) = MaxCodes[3] /\ MAXCODE(12) = MaxCodes[4]
  BY DEF MAXCODE, BITS_MIN
<1>4. \A n \in 9..12 : MAXCODE(n) \in Nat
  <2>1. MaxCodes \in [1..4 -> Nat]
    BY LzwAssumption
  <2> QED BY <1>3, <2>1
<1>5. /\ MAXCODE(9) > CODE_FIRST /\ MAXCODE(10) > MAXCODE(9)
      /\ MAXCODE(11) > MAXCODE(10) /\ MAXCODE(12) > MAXCODE(11)
  <2>1. MAXCODE(9) > CODE_FIRST /\ \A n \in 10..12 : MAXCODE(n) > MAXCODE(n - 1)
    BY LzwAssumption DEF BITS_MIN, BITS_MAX
  <2>2. MAXCODE(10) > MAXCODE(10 - 1) /\ MAXCODE(11) > MAXCODE(11 - 1) /\ MAXCODE(12) > MAXCODE(12 - 1)
    BY <2>1
  <2> QED BY <2>1, <2>2
<1>6. CODE_MAX = MAXCODE(12) /\ Widths = 9..12
  BY DEF CODE_MAX, BITS_MAX, BITS_MIN, Widths
<1>7. /\ NoCode = -1 /\ NULL = -2 /\ Before = -1 /\ BITS_MIN = 9 /\ BITS_MAX = 12
      /\ RawSize \in Nat /\ RawSize > 7 /\ CHECK_GAP \in Nat \ {0} /\ ForeignBits \in Nat
      /\ Requests \in SUBSET Nat /\ CSIZE \in Nat /\ CSIZE > CODE_MAX
  BY LzwAssumption, CodecAssumption DEF NoCode, NULL, Before, BITS_MIN, BITS_MAX
<1>8. MAXCODE(9) \in Nat /\ MAXCODE(10) \in Nat /\ MAXCODE(11) \in Nat /\ MAXCODE(12) \in Nat
  BY <1>4
<1>9. CODE_FIRST + 4 <= CODE_MAX /\ CODE_MAX < CSIZE /\ CODE_MAX \in Nat
  BY <1>1, <1>2, <1>5, <1>6, <1>7, <1>8
<1>10. \A n \in 9..12 : MAXCODE(n) <= CODE_MAX
  <2>1. \A n \in 9..12 : n = 9 \/ n = 10 \/ n = 11 \/ n = 12
    OBVIOUS
  <2> QED BY <1>5, <1>6, <1>8, <2>1
<1> QED BY <1>1, <1>2, <1>4, <1>6, <1>7, <1>9, <1>10

LEMMA CodeOrder ==
  /\ CODE_FIRST \in Nat /\ CODE_MAX \in Nat /\ CODE_FIRST + 4 <= CODE_MAX /\ NoCode = -1
  /\ RawSize \in Nat /\ CHECK_GAP \in Nat
BY CodesAre

Links == {NULL} \cup (0..(CSIZE - 1))
IsChain(f, table, n) ==
  f = [k \in 0..n |-> [p \in Links |->
         IF p = NULL \/ k = 0 THEN <<>> ELSE Append(f[k - 1][table[p].next], p)]]

LEMMA ChainIs ==
  ASSUME NEW table, NEW c, NEW n
  PROVE  Chain(table, c, n) = (CHOOSE f : IsChain(f, table, n))[n][c]
BY DEF Chain, IsChain, Links

LEMMA ChainStep ==
  ASSUME NEW table \in Tables, NEW n \in Nat, NEW f, IsChain(f, table, n)
  PROVE  /\ \A k \in 0..n : f[k][NULL] = <<>>
         /\ \A p \in Links : f[0][p] = <<>>
         /\ \A p \in 0..(CSIZE - 1), k \in 1..n :
              /\ f[k][p] = Append(f[k - 1][table[p].next], p)
              /\ table[p].next \in Links /\ k - 1 \in 0..n
<1>1. \A p \in Links, k \in 0..n :
        f[k][p] = IF p = NULL \/ k = 0 THEN <<>> ELSE Append(f[k - 1][table[p].next], p)
  <2> DEFINE V(k) == [p \in Links |-> IF p = NULL \/ k = 0 THEN <<>>
                                      ELSE Append(f[k - 1][table[p].next], p)]
  <2>1. f = [k \in 0..n |-> V(k)]
    BY Zenon DEF IsChain
  <2>2. \A k \in 0..n : f[k] = V(k)
    <3> HIDE DEF V
    <3> QED BY <2>1
  <2>3. \A k \in 0..n, p \in Links :
          V(k)[p] = IF p = NULL \/ k = 0 THEN <<>> ELSE Append(f[k - 1][table[p].next], p)
    OBVIOUS
  <2> HIDE DEF V
  <2> QED BY <2>2, <2>3
<1>2. NULL \in Links /\ NULL \notin 0..(CSIZE - 1) /\ 0 \in 0..n
  BY CodesAre DEF Links
<1>3. \A p \in 0..(CSIZE - 1) : p \in Links /\ p # NULL /\ table[p].next \in Links
  BY <1>2 DEF Links, Tables, Entries
<1>4. \A k \in 1..n : k \in 0..n /\ k # 0 /\ k - 1 \in 0..n
  OBVIOUS
<1> QED BY <1>1, <1>2, <1>3, <1>4

LEMMA ChainStart ==
  ASSUME NEW table \in Tables, NEW n \in Nat, NEW f, IsChain(f, table, n), NEW p \in Links
  PROVE  f[0][p] = <<>>
BY ChainStep

LEMMA ChainExists ==
  ASSUME NEW table \in Tables, NEW n \in Nat
  PROVE  \E f : IsChain(f, table, n)
<1> DEFINE S == {m \in Nat : ~ \E f : IsChain(f, table, m)}
<1>1. SUFFICES ASSUME S # {} PROVE FALSE
  BY <1>1
<1>2. PICK m \in S : \A k \in S : m <= k
  <2>1. S \in SUBSET Nat
    OBVIOUS
  <2> HIDE DEF S
  <2> QED BY <1>1, <2>1, LeastOf
<1>3. m \in Nat /\ ~ \E f : IsChain(f, table, m)
  BY <1>2
<1> DEFINE V(h, k) ==
             [p \in Links |->
                IF p = NULL \/ k = 0 THEN <<>> ELSE Append(h[k - 1][table[p].next], p)]
<1>4. CASE m = 0
  <2> DEFINE g == [k \in 0..0 |-> [p \in Links |-> <<>>]]
  <2>1. \A k \in 0..0 : [p \in Links |-> <<>>] = V(g, k)
    <3> HIDE DEF g
    <3> QED OBVIOUS
  <2>2. g = [k \in 0..0 |-> V(g, k)]
    <3>1. g = [k \in 0..0 |-> [p \in Links |-> <<>>]]
      OBVIOUS
    <3> HIDE DEF g, V
    <3> QED BY <2>1, <3>1, Zenon
  <2>3. IsChain(g, table, 0)
    <3> HIDE DEF g
    <3> QED BY <2>2, Zenon DEF IsChain
  <2> QED BY <1>3, <1>4, <2>3
<1>5. CASE m # 0
  <2>1. m - 1 \in Nat /\ ~(m <= m - 1)
    BY <1>3, <1>5
  <2>2. PICK f : IsChain(f, table, m - 1)
    BY <1>2, <2>1
  <2> DEFINE g == [k \in 0..m |-> V(f, k)]
  <2>3. \A k \in 0..(m - 1) : g[k] = f[k]
    <3>1. f = [k \in 0..(m - 1) |-> V(f, k)]
      BY <2>2, Zenon DEF IsChain
    <3>2. \A k \in 0..(m - 1) : k \in 0..m
      BY <1>3
    <3> HIDE DEF V
    <3> QED BY <3>1, <3>2
  <2>4. \A k \in 0..m : k # 0 => k - 1 \in 0..(m - 1)
    BY <1>3
  <2>5. \A k \in 0..m : V(f, k) = V(g, k)
    <3> HIDE DEF g
    <3> QED BY <2>3, <2>4
  <2>6. g = [k \in 0..m |-> V(g, k)]
    <3>1. g = [k \in 0..m |-> V(f, k)]
      OBVIOUS
    <3> HIDE DEF g, V
    <3> QED BY <2>5, <3>1, Zenon
  <2>7. IsChain(g, table, m)
    <3> HIDE DEF g
    <3> QED BY <2>6, Zenon DEF IsChain
  <2> QED BY <1>3, <2>7
<1> QED BY <1>4, <1>5

\* The chain of an entry, and of none: it is a sequence of entries, n at most.
ChainSeq == Seq(0..(CSIZE - 1))

LEMMA ChainType ==
  ASSUME NEW table \in Tables, NEW n \in Nat, NEW f, IsChain(f, table, n),
         NEW k \in 0..n, NEW p \in Links
  PROVE  f[k][p] \in ChainSeq /\ Len(f[k][p]) <= k
<1> DEFINE P(j) == \A q \in Links : f[j][q] \in ChainSeq /\ Len(f[j][q]) <= j
           S == {j \in 0..n : ~P(j)}
<1>1. SUFFICES ASSUME S # {} PROVE FALSE
  <2>1. P(k)
    BY <1>1
  <2> QED BY <2>1
<1>2. PICK j \in S : \A i \in S : j <= i
  <2>1. S \in SUBSET Nat
    OBVIOUS
  <2> HIDE DEF S
  <2> QED BY <1>1, <2>1, LeastOf
<1>3. j \in 0..n /\ ~P(j)
  BY <1>2
<1>4. <<>> \in ChainSeq /\ Len(<<>>) = 0
  BY DEF ChainSeq
<1>5. PICK q \in Links : ~(f[j][q] \in ChainSeq /\ Len(f[j][q]) <= j)
  BY <1>3
<1>6. q # NULL /\ j # 0
  BY <1>3, <1>4, <1>5, ChainStep
<1>7. j \in 1..n /\ q \in 0..(CSIZE - 1)
  BY <1>3, <1>6 DEF Links
<1>8. f[j][q] = Append(f[j - 1][table[q].next], q) /\ table[q].next \in Links /\ j - 1 \in 0..n
  BY <1>7, ChainStep
<1>9. P(j - 1)
  BY <1>2, <1>7, <1>8
<1>10. f[j - 1][table[q].next] \in ChainSeq /\ Len(f[j - 1][table[q].next]) <= j - 1
  BY <1>8, <1>9
<1>11. f[j][q] \in ChainSeq /\ Len(f[j][q]) = Len(f[j - 1][table[q].next]) + 1
  BY <1>7, <1>8, <1>10, AppendIs DEF ChainSeq
<1>12. Len(f[j - 1][table[q].next]) \in Nat
  BY <1>10 DEF ChainSeq
<1> QED BY <1>5, <1>7, <1>10, <1>11, <1>12

LEMMA ChainOf ==
  ASSUME NEW table \in Tables, NEW c, NEW n \in Nat
  PROVE  \E f : IsChain(f, table, n) /\ Chain(table, c, n) = f[n][c]
<1> DEFINE g == CHOOSE f : IsChain(f, table, n)
<1>1. IsChain(g, table, n)
  BY ChainExists, Zenon
<1>2. Chain(table, c, n) = g[n][c]
  BY ChainIs
<1> QED BY <1>1, <1>2

LEMMA ChainTypes ==
  ASSUME NEW table \in Tables, NEW c \in Links, NEW n \in Nat
  PROVE  Chain(table, c, n) \in ChainSeq /\ Len(Chain(table, c, n)) <= n
<1>1. PICK f : IsChain(f, table, n) /\ Chain(table, c, n) = f[n][c]
  BY ChainOf
<1>2. n \in 0..n
  OBVIOUS
<1> QED BY <1>1, <1>2, ChainType

\* Every string of the table is as long as its chain.
LEMMA ChainLength ==
  ASSUME NEW table \in Tables, NEW l \in Places, TableOK(table, l), NEW n \in Nat,
         NEW f, IsChain(f, table, n),
         NEW k \in 0..n, NEW p \in 0..(CSIZE - 1), table[p].length > 0
  PROVE  /\ table[p].length <= k => Len(f[k][p]) = table[p].length
         /\ k <= table[p].length => Len(f[k][p]) = k
<1> DEFINE P(j) == \A q \in 0..(CSIZE - 1) : table[q].length > 0 =>
                     /\ table[q].length <= j => Len(f[j][q]) = table[q].length
                     /\ j <= table[q].length => Len(f[j][q]) = j
           S == {j \in 0..n : ~P(j)}
<1>1. SUFFICES ASSUME S # {} PROVE FALSE
  <2>1. P(k)
    BY <1>1
  <2> QED BY <2>1
<1>2. PICK j \in S : \A i \in S : j <= i
  <2>1. S \in SUBSET Nat
    OBVIOUS
  <2> HIDE DEF S
  <2> QED BY <1>1, <2>1, LeastOf
<1>3. j \in 0..n /\ ~P(j)
  BY <1>2
<1>4. PICK q \in 0..(CSIZE - 1) :
        /\ table[q].length > 0
        /\ ~ (/\ table[q].length <= j => Len(f[j][q]) = table[q].length
              /\ j <= table[q].length => Len(f[j][q]) = j)
  BY <1>3
<1> DEFINE len == table[q].length
           next == table[q].next
<1>5. len \in Nat /\ len > 0 /\ q \in Links
  BY <1>4 DEF Tables, Entries, Links
<1>6. j # 0
  <2> HIDE DEF P, S
  <2>1. f[0][q] = <<>> /\ Len(<<>>) = 0
    BY <1>5, ChainStart, EmptyIsSeq
  <2> QED BY <1>4, <1>5, <2>1
<1>7. j \in 1..n
  BY <1>3, <1>6
<1>8. f[j][q] = Append(f[j - 1][next], q) /\ next \in Links /\ j - 1 \in 0..n
  <2>1. q \in 0..(CSIZE - 1) /\ j \in 1..n
    BY <1>4, <1>7
  <2>2. /\ f[j][q] = Append(f[j - 1][table[q].next], q)
        /\ table[q].next \in Links /\ j - 1 \in 0..n
    BY <2>1, ChainStep
  <2> QED BY <2>2
<1>9. f[j - 1][next] \in ChainSeq
  BY <1>8, ChainType
<1>10. Len(f[j][q]) = Len(f[j - 1][next]) + 1
  BY <1>8, <1>9, AppendIs DEF ChainSeq
<1>11. CASE next = NULL
  <2>1. Len(f[j - 1][next]) = 0
    BY <1>8, <1>11, ChainStep
  <2>2. len = 1
    <3>1. \A e \in CODE_FIRST..(l.free - 1) : table[e].next \in 0..(e - 1)
      BY DEF TableOK
    <3>2. NULL = -2
      BY CodesAre
    <3>3. q \notin CODE_FIRST..(l.free - 1)
      <4> SUFFICES ASSUME q \in CODE_FIRST..(l.free - 1) PROVE FALSE
        OBVIOUS
      <4>1. next \in 0..(q - 1)
        BY <3>1
      <4> HIDE DEF next
      <4> QED BY <1>11, <3>2, <4>1
    <3>4. q \in Values
      BY <1>4, <1>5, <3>3 DEF TableOK
    <3> QED BY <3>4 DEF TableOK
  <2> HIDE DEF len, next
  <2>3. Len(f[j][q]) = 1
    BY <1>10, <2>1
  <2> QED BY <1>4, <1>7, <2>2, <2>3 DEF len
<1>12. CASE next # NULL
  <2>1. q \in CODE_FIRST..(l.free - 1)
    <3>1. q \notin Values
      BY <1>12 DEF TableOK
    <3> QED BY <1>5, <3>1 DEF TableOK
  <2>2. len = table[next].length + 1 /\ table[next].length > 0
    BY <2>1 DEF TableOK
  <2>3. next \in 0..(CSIZE - 1)
    BY <1>8, <1>12 DEF Links
  <2>4. P(j - 1)
    BY <1>2, <1>7, <1>8
  <2> DEFINE m == table[next].length
  <2>5. m \in Nat
    BY <2>3 DEF Tables, Entries
  <2>6. /\ m <= j - 1 => Len(f[j - 1][next]) = m
        /\ j - 1 <= m => Len(f[j - 1][next]) = j - 1
    BY <2>2, <2>3, <2>4
  <2>7. len = m + 1
    BY <2>2
  <2>8. ~ (/\ len <= j => Len(f[j][q]) = len
           /\ j <= len => Len(f[j][q]) = j)
    BY <1>4
  <2> DEFINE x == Len(f[j][q])
             y == Len(f[j - 1][next])
  <2>9. x = y + 1
    BY <1>10
  <2>10. (m <= j - 1 => y = m) /\ (j - 1 <= m => y = j - 1)
    BY <2>6
  <2>11. ~ ((len <= j => x = len) /\ (j <= len => x = j))
    BY <2>8
  <2> HIDE DEF x, y, m, len, next
  <2> QED BY <1>7, <2>5, <2>7, <2>9, <2>10, <2>11
<1> QED BY <1>11, <1>12

\* A string is no longer than its entry is far in the table.
LEMMA LengthBound ==
  ASSUME NEW table \in Tables, NEW l \in Places, TableOK(table, l),
         NEW p \in 0..(CSIZE - 1), table[p].length > 0
  PROVE  table[p].length <= p + 1
<1> DEFINE P(q) == table[q].length > 0 => table[q].length <= q + 1
           S == {q \in 0..(CSIZE - 1) : ~P(q)}
<1>1. SUFFICES ASSUME S # {} PROVE FALSE
  <2>1. P(p)
    BY <1>1
  <2> QED BY <2>1
<1>2. PICK q \in S : \A i \in S : q <= i
  <2>1. S \in SUBSET Nat
    OBVIOUS
  <2> HIDE DEF S
  <2> QED BY <1>1, <2>1, LeastOf
<1>3. q \in 0..(CSIZE - 1) /\ table[q].length > 0 /\ ~(table[q].length <= q + 1)
  BY <1>2
<1>4. q \notin Values
  BY <1>3 DEF TableOK
<1>5. q \in CODE_FIRST..(l.free - 1)
  BY <1>3, <1>4 DEF TableOK
<1> DEFINE n == table[q].next
           len == table[q].length
           m == table[n].length
<1>6. n \in 0..(q - 1) /\ m > 0 /\ len = m + 1
  BY <1>5 DEF TableOK
<1>7. n \in 0..(CSIZE - 1) /\ ~(q <= n)
  <2> HIDE DEF n
  <2> QED BY <1>3, <1>6, CodesAre
<1>8. P(n)
  BY <1>2, <1>7
<1>9. m <= n + 1
  BY <1>6, <1>8
<1>10. m \in Nat
  BY <1>7 DEF Tables, Entries
<1>11. ~(len <= q + 1)
  BY <1>3
<1> HIDE DEF n, len, m
<1> QED BY <1>3, <1>6, <1>9, <1>10, <1>11

LEMMA NoLoop ==
  ASSUME NEW table \in Tables, NEW l \in Places, TableOK(table, l),
         NEW p \in CODE_FIRST..(l.free - 1), table[p].length > 0
  PROVE  table[p].next < p /\ Len(Chain(table, p, CSIZE)) = table[p].length
<1>1. CSIZE \in Nat /\ p \in 0..(CSIZE - 1) /\ CSIZE \in 0..CSIZE
  <2>1. l.free \in CODE_FIRST..CSIZE
    BY DEF Places
  <2>2. CSIZE \in Nat /\ CODE_FIRST \in Nat
    BY CodesAre
  <2> QED BY <2>1, <2>2
<1>2. table[p].length \in Nat /\ table[p].length <= CSIZE
  <2> DEFINE len == table[p].length
  <2>1. len \in Nat /\ len <= p + 1
    BY <1>1, LengthBound DEF Tables, Entries
  <2> HIDE DEF len
  <2>2. len \in Nat /\ len <= CSIZE
    BY <1>1, <2>1
  <2> QED BY <2>2 DEF len
<1>3. PICK f : IsChain(f, table, CSIZE) /\ Chain(table, p, CSIZE) = f[CSIZE][p]
  BY <1>1, ChainOf
<1>4. Len(f[CSIZE][p]) = table[p].length
  BY <1>1, <1>2, <1>3, ChainLength
<1>5. table[p].next \in 0..(p - 1)
  BY DEF TableOK
<1>6. table[p].next < p
  <2> DEFINE n == table[p].next
  <2> HIDE DEF n
  <2>1. n < p
    BY <1>1, <1>5 DEF n
  <2> QED BY <2>1 DEF n
<1> QED BY <1>3, <1>4, <1>6

-----------------------------------------------------------------------------
(***************************************************************************)
(* The encoder of LZW.                                                     *)
(***************************************************************************)
LEMMA LzwEncodes ==
  ASSUME LzwSafe, UNCHANGED packbitsVars, pc = "encode", pc' \in EncodePcs,
         UNCHANGED <<stripVars, clientVars, decoderVars>>,
         given' \in 0..Len(data), EncoderOK', stream' \in Seq(Codewords)
  PROVE  LzwSafe'
<1>1. /\ data' = data /\ asked' = asked /\ buf' = buf /\ taken' = taken /\ failed' = failed
      /\ sp' = sp /\ loc' = loc /\ dec_codetab' = dec_codetab /\ dec_restart' = dec_restart
      /\ dec_codep' = dec_codep /\ code' = code
  BY DEF stripVars, clientVars, decoderVars
<1>2. StripOK' /\ ClientOK'
  BY StripKept, ClientKept DEF LzwSafe
<1>3. PackBitsIdle'
  BY DEF LzwSafe, PackBitsIdle, packbitsVars
<1>4. DecoderOK'
  BY <1>1 DEF LzwSafe, DecoderOK, EncodePcs, CodePcs
<1>5. StringsOK'
  BY <1>1 DEF LzwSafe, StringsOK, EncodePcs, OldOK, TableOK
<1>6. pc' \in LzwPcs
  BY DEF LzwPcs
<1> QED BY <1>2, <1>3, <1>4, <1>5, <1>6 DEF LzwSafe

LEMMA PutIs ==
  ASSUME NEW e \in EncoderRecords
  PROVE  /\ Put(e) \in EncoderRecords /\ Put(e).op <= e.op + 2 /\ Put(e).outcount > 0
         /\ Put(e).nbits = e.nbits /\ Put(e).free_ent = e.free_ent /\ Put(e).oldcode = e.oldcode
         /\ Put(e).incount = e.incount /\ Put(e).checkpoint = e.checkpoint
<1> DEFINE bits == e.nextbits + e.nbits
           r == bits % 8
           q == bits \div 8
<1>1. e.nextbits \in 0..7 /\ e.nbits \in 9..12 /\ e.op \in Nat /\ e.outcount \in Nat /\ e.outbits \in Nat
  BY CodesAre DEF EncoderRecords
<1>2. bits \in 9..19
  BY <1>1
<1> HIDE DEF bits
<1>3. q \in Nat /\ r \in 0..7 /\ bits = 8 * q + r
  BY <1>2, Divided
<1> HIDE DEF q, r
<1>4. q <= 2
  BY <1>2, <1>3
<1>5. Put(e) = [e EXCEPT !.nextbits = r, !.op = e.op + q,
                !.outcount = e.outcount + e.nbits, !.outbits = e.outbits + e.nbits]
  BY DEF Put, bits, r, q
<1>6. /\ e.op + q \in Nat /\ e.op + q <= e.op + 2
      /\ e.outcount + e.nbits \in Nat /\ e.outcount + e.nbits > 0 /\ e.outbits + e.nbits \in Nat
  BY <1>1, <1>3, <1>4
<1>7. Put(e) \in EncoderRecords
  BY <1>3, <1>5, <1>6, ZenonT(40) DEF EncoderRecords
<1>8. /\ Put(e).op = e.op + q /\ Put(e).outcount = e.outcount + e.nbits
      /\ Put(e).nbits = e.nbits /\ Put(e).free_ent = e.free_ent /\ Put(e).oldcode = e.oldcode
      /\ Put(e).incount = e.incount /\ Put(e).checkpoint = e.checkpoint
  BY <1>5 DEF EncoderRecords
<1> QED BY <1>6, <1>7, <1>8

LEMMA RoomIs ==
  ASSUME NEW e \in EncoderRecords
  PROVE  /\ Room(e) \in EncoderRecords /\ Room(e).op <= RawSize - 5
         /\ Room(e).nbits = e.nbits /\ Room(e).free_ent = e.free_ent
         /\ Room(e).oldcode = e.oldcode /\ Room(e).incount = e.incount
<1>1. CASE e.op > RawSize - 1 - 4
  <2>1. Room(e) = [e EXCEPT !.op = 0]
    BY <1>1, Zenon DEF Room
  <2>2. 0 \in Nat /\ 0 <= RawSize - 5
    BY CodesAre
  <2> QED BY <2>1, <2>2 DEF EncoderRecords
<1>2. CASE ~(e.op > RawSize - 1 - 4)
  <2>1. Room(e) = e /\ e.op \in Nat
    BY <1>2 DEF Room, EncoderRecords
  <2>2. e.op <= RawSize - 5
    BY <1>2, <2>1, CodesAre
  <2> QED BY <2>1, <2>2
<1> QED BY <1>1, <1>2

LEMMA ClearedIs ==
  ASSUME NEW e \in EncoderRecords, e.op + 2 <= RawSize
  PROVE  /\ Cleared(e) \in EncoderRecords /\ Cleared(e).op <= RawSize
         /\ Cleared(e).free_ent = CODE_FIRST /\ Cleared(e).oldcode = e.oldcode
<1> DEFINE z == [e EXCEPT !.outcount = 0]
           y == Put(z)
<1>1. z \in EncoderRecords /\ z.op = e.op /\ z.oldcode = e.oldcode /\ e.op \in Nat
  BY DEF EncoderRecords
<1> HIDE DEF z
<1>2. y \in EncoderRecords /\ y.op <= z.op + 2 /\ y.oldcode = e.oldcode /\ y.op \in Nat
  <2>1. y \in EncoderRecords /\ y.op <= z.op + 2 /\ y.oldcode = z.oldcode
    BY <1>1, PutIs
  <2> QED BY <1>1, <2>1 DEF EncoderRecords
<1>3. Cleared(e) = [y EXCEPT !.ratio = 0, !.incount = 0, !.free_ent = CODE_FIRST, !.nbits = BITS_MIN]
  BY DEF Cleared, y, z
<1>4. y.op <= RawSize
  BY <1>1, <1>2, CodeOrder
<1> HIDE DEF y
<1>5. 0 \in Nat /\ CODE_FIRST \in Nat /\ BITS_MIN \in Widths
  BY CodesAre
<1>6. Cleared(e) \in EncoderRecords
  BY <1>2, <1>3, <1>5, ZenonT(40) DEF EncoderRecords
<1>7. Cleared(e).op = y.op /\ Cleared(e).free_ent = CODE_FIRST /\ Cleared(e).oldcode = y.oldcode
  BY <1>2, <1>3 DEF EncoderRecords
<1> QED BY <1>2, <1>4, <1>6, <1>7

LEMMA WrittenIs ==
  ASSUME NEW e \in EncoderRecords, NEW c \in 0..CODE_MAX
  PROVE  Written(e, c) \in Codewords
BY DEF Written, Codewords, EncoderRecords

LEMMA EncodingIs ==
  ASSUME LzwSafe, pc = "encode"
  PROVE  /\ enc \in EncoderRecords /\ enc.free_ent \in CODE_FIRST..(CODE_MAX - 2)
         /\ enc.op \in Nat /\ enc.op <= RawSize /\ stream \in Seq(Codewords)
         /\ \A s \in DOMAIN hash : hash[s] \in 0..CODE_MAX
         /\ Len(data) \in Nat /\ Len(data) > 0 /\ given \in 0..Len(data) /\ given \in Nat
         /\ (enc.oldcode = NoCode => given = 0 /\ enc = StartEncoder)
         /\ (enc.oldcode # NoCode => enc.oldcode \in 0..CODE_MAX)
         /\ enc.oldcode \in NoCode..CODE_MAX /\ enc.incount \in Nat
         /\ enc.nbits \in Widths
<1>1. EncoderOK /\ StripOK
  BY DEF LzwSafe
<1>2. Len(data) \in Nat /\ given \in Nat
  BY <1>1, StripIs
<1>3. enc.oldcode \in NoCode..CODE_MAX /\ enc.op \in Nat /\ enc.incount \in Nat /\ enc.nbits \in Widths
  BY <1>1 DEF EncoderOK, EncoderRecords
<1>4. enc.oldcode # NoCode => enc.oldcode \in 0..CODE_MAX
  <2> DEFINE c == enc.oldcode
  <2> HIDE DEF c
  <2>1. c \in NoCode..CODE_MAX
    BY <1>3 DEF c
  <2>2. c # NoCode => c \in 0..CODE_MAX
    BY <2>1, CodesAre
  <2> QED BY <2>2 DEF c
<1> QED BY <1>1, <1>2, <1>3, <1>4 DEF EncoderOK, StripOK, LzwSafe

\* The byte that is encoded.
LEMMA ByteEncoded ==
  ASSUME LzwSafe, pc = "encode", given < Len(data)
  PROVE  /\ Byte \in 0..CODE_MAX /\ Byte # NoCode /\ Byte \in NoCode..CODE_MAX
         /\ given + 1 \in 0..Len(data) /\ given + 1 # 0
<1>1. given + 1 \in 1..Len(data) /\ data \in Seq(Values)
  BY EncodingIs DEF LzwSafe, StripOK
<1>2. Byte \in Values
  BY <1>1, ElementIs DEF Byte
<1> HIDE DEF Byte
<1>3. Byte \in 0..CODE_MAX
  BY <1>2, CodesAre
<1> QED BY <1>1, <1>3, CodeOrder

\* A step of the encoder: it is right if the record of the encoder is.
LEMMA EncodeStep ==
  ASSUME LzwSafe, UNCHANGED packbitsVars, pc = "encode", given < Len(data),
         NEW e, NEW h, NEW codes, Encode(e, h, codes),
         e \in EncoderRecords, e.free_ent \in CODE_FIRST..(CODE_MAX - 2), e.op <= RawSize,
         e.oldcode # NoCode, \A s \in DOMAIN h : h[s] \in 0..CODE_MAX,
         codes \in Seq(Codewords)
  PROVE  LzwSafe'
<1>1. /\ given' = given + 1 /\ enc' = e /\ hash' = h /\ stream' = stream \o codes
      /\ UNCHANGED <<stripVars, pc, clientVars, decoderVars>> /\ data' = data
  BY DEF Encode, stripVars
<1>2. given' \in 0..Len(data)
  BY <1>1, ByteEncoded
<1>3. stream' \in Seq(Codewords)
  BY <1>1, EncodingIs, Joined
<1>4. EncoderOK'
  BY <1>1, EncodingIs DEF EncoderOK
<1>5. pc' \in EncodePcs
  BY <1>1 DEF EncodePcs
<1> QED BY <1>1, <1>2, <1>3, <1>4, <1>5, LzwEncodes

LEMMA FirstByteKeeps == LzwSafe /\ UNCHANGED packbitsVars /\ FirstByte => LzwSafe'
<1> SUFFICES ASSUME LzwSafe, UNCHANGED packbitsVars, FirstByte PROVE LzwSafe'
  OBVIOUS
<1> DEFINE y == Put(enc)
           e == [y EXCEPT !.oldcode = Byte, !.incount = @ + 1]
           codes == <<Written(enc, CODE_CLEAR)>>
<1>1. pc = "encode" /\ given < Len(data) /\ enc.oldcode = NoCode /\ Encode(e, hash, codes)
  BY DEF FirstByte, Encoding
<1>2. enc = StartEncoder /\ enc \in EncoderRecords /\ enc.free_ent \in CODE_FIRST..(CODE_MAX - 2)
  BY <1>1, EncodingIs
<1>3. enc.op = 0
  BY <1>2 DEF StartEncoder
<1>4. y \in EncoderRecords /\ y.op <= enc.op + 2 /\ y.free_ent = enc.free_ent
  BY <1>2, PutIs
<1>5. y.incount \in Nat /\ y.incount + 1 \in Nat /\ y.op \in Nat
  BY <1>4 DEF EncoderRecords
<1> HIDE DEF y
<1>6. Byte \in NoCode..CODE_MAX /\ Byte # NoCode
  BY <1>1, ByteEncoded
<1>7. e \in EncoderRecords
  BY <1>4, <1>5, <1>6 DEF EncoderRecords
<1>8. e.oldcode = Byte /\ e.free_ent = y.free_ent /\ e.op = y.op
  BY <1>4 DEF EncoderRecords
<1>9. e.op <= RawSize
  <2>1. y.op <= 2 /\ y.op \in Nat
    BY <1>3, <1>4, <1>5
  <2>2. RawSize \in Nat /\ RawSize > 7
    BY CodesAre
  <2>3. y.op <= RawSize
    BY <2>1, <2>2
  <2> QED BY <1>8, <2>3
<1>10. codes \in Seq(Codewords)
  <2>1. CODE_CLEAR \in 0..CODE_MAX
    BY CodesAre
  <2>2. Written(enc, CODE_CLEAR) \in Codewords
    BY <1>2, <2>1, WrittenIs
  <2> QED BY <2>2
<1>11. \A s \in DOMAIN hash : hash[s] \in 0..CODE_MAX
  BY <1>1, EncodingIs
<1> HIDE DEF e, codes
<1> QED BY <1>1, <1>2, <1>4, <1>6, <1>7, <1>8, <1>9, <1>10, <1>11, EncodeStep

LEMMA KnownStringKeeps == LzwSafe /\ UNCHANGED packbitsVars /\ KnownString => LzwSafe'
<1> SUFFICES ASSUME LzwSafe, UNCHANGED packbitsVars, KnownString PROVE LzwSafe'
  OBVIOUS
<1> DEFINE c == hash[<<enc.oldcode, Byte>>]
           e == [enc EXCEPT !.oldcode = c, !.incount = @ + 1]
<1>1. pc = "encode" /\ given < Len(data) /\ Known /\ Encode(e, hash, <<>>)
  BY DEF KnownString, Encoding
<1>2. /\ enc \in EncoderRecords /\ enc.free_ent \in CODE_FIRST..(CODE_MAX - 2)
      /\ enc.incount \in Nat /\ enc.op <= RawSize
      /\ \A s \in DOMAIN hash : hash[s] \in 0..CODE_MAX
  BY <1>1, EncodingIs
<1>3. c \in 0..CODE_MAX
  BY <1>1, <1>2 DEF Known
<1> HIDE DEF c
<1>4. c \in NoCode..CODE_MAX /\ c # NoCode
  BY <1>3, CodesAre
<1>5. e \in EncoderRecords
  BY <1>2, <1>4, enc.incount + 1 \in Nat DEF EncoderRecords
<1>6. e.oldcode = c /\ e.free_ent = enc.free_ent /\ e.op = enc.op
  BY <1>2 DEF EncoderRecords
<1>7. <<>> \in Seq(Codewords)
  OBVIOUS
<1> HIDE DEF e
<1> QED BY <1>1, <1>2, <1>4, <1>5, <1>6, <1>7, EncodeStep

LEMMA NewStringKeeps == LzwSafe /\ UNCHANGED packbitsVars /\ NewString => LzwSafe'
<1> SUFFICES ASSUME LzwSafe, UNCHANGED packbitsVars, NewString PROVE LzwSafe'
  OBVIOUS
<1> DEFINE z == Room(enc)
           room == [z EXCEPT !.incount = @ + 1]
           y == Put(room)
           put == [y EXCEPT !.oldcode = Byte, !.free_ent = @ + 1]
           checked == [put EXCEPT !.checkpoint = put.incount + CHECK_GAP]
           string == Written(enc, enc.oldcode)
           clear == Written(put, CODE_CLEAR)
           longer == [s \in DOMAIN hash \cup {<<enc.oldcode, Byte>>} |->
                        IF s \in DOMAIN hash THEN hash[s] ELSE enc.free_ent]
<1>1. pc = "encode" /\ given < Len(data) /\ enc.oldcode # NoCode
  BY DEF NewString, Encoding
<1>2. /\ Full(put) /\ Encode(Cleared(put), <<>>, <<string, clear>>)
      \/ /\ ~Full(put) /\ TooBig(put) /\ Encode([put EXCEPT !.nbits = @ + 1], longer, <<string>>)
      \/ /\ ~Full(put) /\ Encode(Cleared(checked), <<>>, <<string, clear>>)
      \/ /\ ~Full(put) /\ Encode([checked EXCEPT !.ratio = Ratio(put)], longer, <<string>>)
      \/ /\ ~Full(put) /\ Encode(put, longer, <<string>>)
  BY DEF NewString
<1>3. /\ enc \in EncoderRecords /\ enc.free_ent \in CODE_FIRST..(CODE_MAX - 2)
      /\ enc.oldcode \in 0..CODE_MAX
      /\ \A s \in DOMAIN hash : hash[s] \in 0..CODE_MAX
  BY <1>1, EncodingIs
<1>4. z \in EncoderRecords /\ z.op <= RawSize - 5 /\ z.free_ent = enc.free_ent
  BY <1>3, RoomIs
<1>5. z.incount \in Nat /\ z.incount + 1 \in Nat /\ z.op \in Nat
  BY <1>4 DEF EncoderRecords
<1> HIDE DEF z
<1>6. room \in EncoderRecords /\ room.op = z.op /\ room.free_ent = z.free_ent
  <2>1. room \in EncoderRecords
    BY <1>4, <1>5 DEF EncoderRecords
  <2>2. room.op = z.op /\ room.free_ent = z.free_ent
    BY <1>4 DEF EncoderRecords
  <2> QED BY <2>1, <2>2
<1> HIDE DEF room
<1>7. y \in EncoderRecords /\ y.op <= room.op + 2 /\ y.outcount > 0 /\ y.free_ent = room.free_ent
  BY <1>6, PutIs
<1> HIDE DEF y
<1>8. Byte \in NoCode..CODE_MAX /\ Byte # NoCode
  BY <1>1, ByteEncoded
<1>9. y.op <= RawSize - 3 /\ y.op \in Nat /\ y.free_ent + 1 \in (CODE_FIRST + 1)..(CODE_MAX - 1)
      /\ y.free_ent + 1 \in Nat
  <2>1. y.op \in Nat /\ y.free_ent = enc.free_ent /\ y.op <= z.op + 2
    BY <1>4, <1>6, <1>7 DEF EncoderRecords
  <2>2. RawSize \in Nat /\ CODE_FIRST \in Nat /\ CODE_MAX \in Nat
    BY CodesAre
  <2>3. y.op <= RawSize - 3
    BY <1>4, <1>5, <2>1, <2>2
  <2> DEFINE n == y.free_ent
  <2>4. n \in CODE_FIRST..(CODE_MAX - 2)
    BY <1>3, <2>1
  <2> HIDE DEF n
  <2>5. n + 1 \in (CODE_FIRST + 1)..(CODE_MAX - 1) /\ n + 1 \in Nat
    BY <2>2, <2>4
  <2> QED BY <2>1, <2>3, <2>5 DEF n
<1>10. put \in EncoderRecords
  BY <1>7, <1>8, <1>9 DEF EncoderRecords
<1>11. /\ put.op = y.op /\ put.free_ent = y.free_ent + 1 /\ put.outcount = y.outcount
       /\ put.oldcode = Byte /\ put.nbits = y.nbits
  BY <1>7 DEF EncoderRecords
<1>12. put.incount \in Nat /\ put.outcount \in Nat /\ put.nbits \in Widths
  BY <1>10 DEF EncoderRecords
<1> HIDE DEF put
<1>13. put.op <= RawSize /\ put.op + 2 <= RawSize /\ put.free_ent \in (CODE_FIRST + 1)..(CODE_MAX - 1)
  <2>1. RawSize \in Nat
    BY CodesAre
  <2>2. y.op <= RawSize /\ y.op + 2 <= RawSize
    BY <1>9, <2>1
  <2> QED BY <1>9, <1>11, <2>2
<1>14. ~Full(put) => put.free_ent \in CODE_FIRST..(CODE_MAX - 2)
  <2> DEFINE f == put.free_ent
  <2>1. f \in (CODE_FIRST + 1)..(CODE_MAX - 1)
    BY <1>13
  <2>2. Full(put) <=> f = CODE_MAX - 1
    BY DEF Full
  <2> HIDE DEF f
  <2>3. ~Full(put) => f \in CODE_FIRST..(CODE_MAX - 2)
    BY <2>1, <2>2, CodeOrder
  <2> QED BY <2>3 DEF f
<1>15. put.incount + CHECK_GAP \in Nat
  BY <1>12, CodeOrder
<1>16. checked \in EncoderRecords
  BY <1>10, <1>15 DEF EncoderRecords
<1>17. checked.op = put.op /\ checked.free_ent = put.free_ent /\ checked.oldcode = put.oldcode
  BY <1>10 DEF EncoderRecords
<1> HIDE DEF checked
<1>18. string \in Codewords /\ clear \in Codewords
  <2>1. CODE_CLEAR \in 0..CODE_MAX
    BY CodesAre
  <2> QED BY <1>3, <1>10, <2>1, WrittenIs
<1> HIDE DEF string, clear
<1>19. <<string>> \in Seq(Codewords) /\ <<string, clear>> \in Seq(Codewords)
  BY <1>18
<1>20. \A s \in DOMAIN longer : longer[s] \in 0..CODE_MAX
  <2>1. enc.free_ent \in 0..CODE_MAX
    BY <1>3, CodeOrder
  <2> QED BY <1>3, <2>1
<1> HIDE DEF longer
<1>21. CODE_FIRST \in CODE_FIRST..(CODE_MAX - 2) /\ \A s \in DOMAIN <<>> : <<>>[s] \in 0..CODE_MAX
  BY CodesAre
<1>22. CASE Full(put) /\ Encode(Cleared(put), <<>>, <<string, clear>>)
  <2>1. /\ Cleared(put) \in EncoderRecords /\ Cleared(put).op <= RawSize
        /\ Cleared(put).free_ent = CODE_FIRST /\ Cleared(put).oldcode = put.oldcode
    BY <1>10, <1>13, ClearedIs
  <2> QED BY <1>1, <1>8, <1>11, <1>19, <1>21, <1>22, <2>1, EncodeStep
<1>23. CASE ~Full(put) /\ TooBig(put) /\ Encode([put EXCEPT !.nbits = @ + 1], longer, <<string>>)
  <2> DEFINE e == [put EXCEPT !.nbits = @ + 1]
  <2>1. put.nbits # 12
    <3>1. put.free_ent > MAXCODE(put.nbits)
      BY <1>23 DEF TooBig
    <3>2. put.free_ent \in CODE_FIRST..(CODE_MAX - 2)
      BY <1>14, <1>23
    <3>3. ~(put.free_ent > CODE_MAX)
      BY <3>2, CodesAre
    <3>4. CODE_MAX = MAXCODE(12)
      BY CodesAre
    <3> QED BY <3>1, <3>3, <3>4
  <2>2. put.nbits + 1 \in Widths
    <3>1. put.nbits \in 9..12
      BY <1>12, CodesAre
    <3>2. put.nbits + 1 \in 9..12
      BY <2>1, <3>1
    <3> QED BY <3>2, CodesAre
  <2>3. e \in EncoderRecords
    BY <1>10, <2>2 DEF EncoderRecords
  <2>4. e.op = put.op /\ e.free_ent = put.free_ent /\ e.oldcode = put.oldcode
    BY <1>10 DEF EncoderRecords
  <2>5. Encode(e, longer, <<string>>)
    BY <1>23
  <2> HIDE DEF e
  <2> QED BY <1>1, <1>8, <1>11, <1>13, <1>14, <1>19, <1>20, <1>23, <2>3, <2>4, <2>5, EncodeStep
<1>24. CASE ~Full(put) /\ Encode(Cleared(checked), <<>>, <<string, clear>>)
  <2>1. /\ Cleared(checked) \in EncoderRecords /\ Cleared(checked).op <= RawSize
        /\ Cleared(checked).free_ent = CODE_FIRST /\ Cleared(checked).oldcode = checked.oldcode
    BY <1>13, <1>16, <1>17, ClearedIs
  <2> QED BY <1>1, <1>8, <1>11, <1>17, <1>19, <1>21, <1>24, <2>1, EncodeStep
<1>25. CASE ~Full(put) /\ Encode([checked EXCEPT !.ratio = Ratio(put)], longer, <<string>>)
  <2> DEFINE e == [checked EXCEPT !.ratio = Ratio(put)]
  <2>1. Ratio(put) \in Nat
    <3> DEFINE a == put.incount * 256
               b == put.outcount
    <3>1. a \in Nat /\ b \in Nat \ {0}
      BY <1>7, <1>11, <1>12
    <3>2. Ratio(put) = a \div b
      BY DEF Ratio
    <3> HIDE DEF a, b
    <3> QED BY <3>1, <3>2, Divided
  <2>2. e \in EncoderRecords
    BY <1>16, <2>1 DEF EncoderRecords
  <2>3. e.op = checked.op /\ e.free_ent = checked.free_ent /\ e.oldcode = checked.oldcode
    BY <1>16 DEF EncoderRecords
  <2>4. Encode(e, longer, <<string>>)
    BY <1>25
  <2> HIDE DEF e
  <2> QED BY <1>1, <1>8, <1>11, <1>13, <1>14, <1>17, <1>19, <1>20, <1>25, <2>2, <2>3, <2>4, EncodeStep
<1>26. CASE ~Full(put) /\ Encode(put, longer, <<string>>)
  BY <1>1, <1>8, <1>10, <1>11, <1>13, <1>14, <1>19, <1>20, <1>26, EncodeStep
<1> QED BY <1>2, <1>22, <1>23, <1>24, <1>25, <1>26

LEMMA LZWPostEncodeKeeps == LzwSafe /\ UNCHANGED packbitsVars /\ LZWPostEncode => LzwSafe'
<1> SUFFICES ASSUME LzwSafe, UNCHANGED packbitsVars, LZWPostEncode PROVE LzwSafe'
  OBVIOUS
<1> DEFINE room == Room(enc)
           last == Put(room)
           eoi == Put(last)
           rest == IF eoi.nextbits > 0 THEN 1 ELSE 0
           codes == <<Written(enc, enc.oldcode), Written(last, CODE_EOI)>>
<1>1. /\ pc = "encode" /\ given = Len(data) /\ pc' = "predecode"
      /\ enc' = [eoi EXCEPT !.oldcode = NoCode, !.op = @ + rest]
      /\ stream' = stream \o codes
      /\ UNCHANGED <<stripVars, given, clientVars, hash, decoderVars>>
  BY DEF LZWPostEncode
<1>2. /\ enc \in EncoderRecords /\ enc.free_ent \in CODE_FIRST..(CODE_MAX - 2)
      /\ enc.oldcode \in 0..CODE_MAX /\ stream \in Seq(Codewords)
      /\ \A s \in DOMAIN hash : hash[s] \in 0..CODE_MAX
  <2>1. given # 0
    BY <1>1, EncodingIs
  <2> QED BY <1>1, <2>1, EncodingIs
<1>3. room \in EncoderRecords /\ room.op <= RawSize - 5 /\ room.free_ent = enc.free_ent
  BY <1>2, RoomIs
<1> HIDE DEF room
<1>4. last \in EncoderRecords /\ last.op <= room.op + 2 /\ last.free_ent = room.free_ent
  BY <1>3, PutIs
<1> HIDE DEF last
<1>5. eoi \in EncoderRecords /\ eoi.op <= last.op + 2 /\ eoi.free_ent = last.free_ent
  BY <1>4, PutIs
<1> HIDE DEF eoi
<1>6. room.op \in Nat /\ last.op \in Nat /\ eoi.op \in Nat
  BY <1>3, <1>4, <1>5 DEF EncoderRecords
<1>7. rest \in {0, 1}
  OBVIOUS
<1> HIDE DEF rest
<1>8. RawSize \in Nat /\ NoCode \in NoCode..CODE_MAX /\ CODE_EOI \in 0..CODE_MAX
  BY CodesAre
<1>9. eoi.op + rest <= RawSize /\ eoi.op + rest \in Nat
  BY <1>3, <1>4, <1>5, <1>6, <1>7, <1>8
<1>10. enc' \in EncoderRecords
  BY <1>1, <1>5, <1>8, <1>9 DEF EncoderRecords
<1>11. enc'.op = eoi.op + rest /\ enc'.free_ent = eoi.free_ent
  BY <1>1, <1>5 DEF EncoderRecords
<1>12. codes \in Seq(Codewords)
  <2>1. Written(enc, enc.oldcode) \in Codewords /\ Written(last, CODE_EOI) \in Codewords
    BY <1>2, <1>4, <1>8, WrittenIs
  <2> QED BY <2>1
<1> HIDE DEF codes
<1>13. stream' \in Seq(Codewords)
  BY <1>1, <1>2, <1>12, Joined
<1>14. EncoderOK'
  BY <1>1, <1>2, <1>3, <1>4, <1>5, <1>9, <1>10, <1>11 DEF EncoderOK
<1>15. given' \in 0..Len(data)
  BY <1>1, EncodingIs
<1> QED BY <1>1, <1>13, <1>14, <1>15, LzwEncodes DEF EncodePcs

-----------------------------------------------------------------------------
(***************************************************************************)
(* The decoder of LZW.                                                     *)
(***************************************************************************)
LEMMA StartTableIs ==
  /\ StartTable \in Tables
  /\ StartDecoder \in Places /\ StartDecoder.free = CODE_FIRST /\ StartDecoder.old = Before
  /\ \A l : l.free = CODE_FIRST => TableOK(StartTable, l)
<1>1. /\ CSIZE \in Nat /\ CODE_CLEAR \in Nat /\ CODE_FIRST = CODE_CLEAR + 2 /\ CODE_FIRST <= CSIZE
      /\ Values = 0..(CODE_CLEAR - 1) /\ Before \in Before..CODE_MAX /\ BITS_MIN \in Widths
      /\ CODE_FIRST \in Nat
  BY CodesAre
<1>2. Values \subseteq 0..(CSIZE - 1) /\ Values \subseteq Nat
  BY <1>1
<1>3. \A i \in 0..(CSIZE - 1) :
        StartTable[i] = IF i \in Values THEN [next |-> NULL, length |-> 1, value |-> i, firstchar |-> i]
                                        ELSE Blank
  BY DEF StartTable
<1>4. \A i \in Values : StartTable[i].length = 1 /\ StartTable[i].next = NULL
  <2> SUFFICES ASSUME NEW i \in Values PROVE StartTable[i].length = 1 /\ StartTable[i].next = NULL
    OBVIOUS
  <2>1. StartTable[i] = [next |-> NULL, length |-> 1, value |-> i, firstchar |-> i]
    BY <1>2, <1>3
  <2> QED BY <2>1
<1>5. \A i \in 0..(CSIZE - 1) : i \notin Values => StartTable[i].length = 0
  <2> SUFFICES ASSUME NEW i \in 0..(CSIZE - 1), i \notin Values PROVE StartTable[i].length = 0
    OBVIOUS
  <2>1. StartTable[i] = Blank
    BY <1>3
  <2> QED BY <2>1 DEF Blank
<1>6. StartTable \in Tables
  <2>1. \A i \in Values : [next |-> NULL, length |-> 1, value |-> i, firstchar |-> i] \in Entries
    BY <1>2 DEF Entries
  <2>2. Blank \in Entries
    BY DEF Blank, Entries
  <2>3. \A i \in 0..(CSIZE - 1) : StartTable[i] \in Entries
    BY <1>3, <2>1, <2>2
  <2>4. StartTable = [i \in 0..(CSIZE - 1) |-> StartTable[i]]
    BY DEF StartTable
  <2> QED BY <2>3, <2>4 DEF Tables
<1>7. StartDecoder \in Places /\ StartDecoder.free = CODE_FIRST /\ StartDecoder.old = Before
  BY <1>1 DEF StartDecoder, Places
<1>8. ASSUME NEW l, l.free = CODE_FIRST PROVE TableOK(StartTable, l)
  <2>1. CODE_FIRST..(l.free - 1) = {}
    BY <1>1, <1>8
  <2> QED BY <1>4, <1>5, <2>1 DEF TableOK
<1> QED BY <1>6, <1>7, <1>8

LEMMA LZWPreDecodeKeeps == LzwSafe /\ UNCHANGED packbitsVars /\ LZWPreDecode => LzwSafe'
<1> SUFFICES ASSUME LzwSafe, UNCHANGED packbitsVars, LZWPreDecode PROVE LzwSafe'
  OBVIOUS
<1>1. /\ pc = "predecode" /\ pc' = "idle" /\ sp' = StartDecoder /\ dec_codetab' = StartTable
      /\ dec_restart' = 0 /\ data' = data /\ asked' = asked /\ buf' = buf /\ taken' = taken
      /\ UNCHANGED <<stripVars, given, stream, clientVars, encoderVars, loc, dec_codep, code, misread>>
  BY DEF LZWPreDecode, stripVars, clientVars
<1>2. loc = StartDecoder /\ code \in 0..CODE_MAX /\ taken \in Nat
  BY <1>1, ClientIs DEF LzwSafe, DecoderOK, EncodePcs
<1>3. given' \in 0..Len(data)
  BY <1>1 DEF LzwSafe, StripOK
<1>4. StripOK' /\ ClientOK'
  BY <1>1, <1>3, StripKept, ClientKept DEF LzwSafe
<1>5. PackBitsIdle'
  BY DEF LzwSafe, PackBitsIdle, packbitsVars
<1>6. EncoderOK'
  BY <1>1 DEF LzwSafe, EncoderOK, encoderVars
<1>7. DecoderOK'
  <2>1. 0 <= taken
    BY <1>2
  <2> QED BY <1>1, <1>2, <2>1, StartTableIs DEF DecoderOK, CodePcs, EncodePcs
<1>8. StringsOK'
  <2>1. TableOK(StartTable, StartDecoder) /\ OldOK(StartTable, StartDecoder)
    BY StartTableIs DEF OldOK
  <2> QED BY <1>1, <1>2, <2>1 DEF StringsOK
<1> QED BY <1>1, <1>4, <1>5, <1>6, <1>7, <1>8 DEF LzwSafe, LzwPcs

\* The facts that most steps of the decoder need.
LEMMA DecodingIs ==
  ASSUME LzwSafe
  PROVE  /\ sp \in Places /\ loc \in Places /\ dec_codetab \in Tables /\ code \in 0..CODE_MAX
         /\ code \in Nat /\ dec_restart \in Nat /\ dec_restart <= taken
         /\ stream \in Seq(Codewords) /\ Len(stream) \in Nat
         /\ StripOK /\ ClientOK /\ asked \in Nat /\ taken \in Nat /\ Len(buf) \in Nat
         /\ occ \in Nat /\ occ = asked - Len(buf) /\ Len(buf) <= asked /\ IsSeq(buf)
         /\ loc.free \in CODE_FIRST..CSIZE /\ loc.free \in Nat /\ loc.at \in Nat
         /\ loc.nbits \in Widths /\ loc.old \in Before..CODE_MAX
         /\ EncoderOK /\ PackBitsIdle /\ pc \in LzwPcs
<1>1. loc.free \in CODE_FIRST..CSIZE /\ loc.at \in Nat /\ loc.nbits \in Widths
      /\ loc.old \in Before..CODE_MAX
  BY DEF LzwSafe, DecoderOK, Places
<1>2. loc.free \in Nat
  <2> DEFINE f == loc.free
  <2> HIDE DEF f
  <2>1. f \in Nat
    BY <1>1, CodesAre, SMTT(30) DEF f
  <2> QED BY <2>1 DEF f
<1>3. code \in 0..CODE_MAX /\ CODE_MAX \in Nat
  BY CodesAre DEF LzwSafe, DecoderOK
<1> QED BY <1>1, <1>2, <1>3, ClientIs DEF LzwSafe, DecoderOK

\* What a step that is not one of the encoder leaves as it is.
LEMMA LzwDecodes ==
  ASSUME LzwSafe, UNCHANGED packbitsVars, UNCHANGED stripVars, UNCHANGED encoderVars,
         pc \notin EncodePcs, pc' \in LzwPcs \ EncodePcs,
         StripOK', ClientOK', stream' \in Seq(Codewords), DecoderOK', StringsOK'
  PROVE  LzwSafe'
<1>1. PackBitsIdle'
  BY DEF LzwSafe, PackBitsIdle, packbitsVars
<1>2. EncoderOK'
  BY DEF LzwSafe, EncoderOK, encoderVars, EncodePcs
<1> QED BY <1>1, <1>2 DEF LzwSafe

LEMMA LzwAskKeeps == LzwSafe /\ UNCHANGED packbitsVars /\ LzwAsk => LzwSafe'
<1> SUFFICES ASSUME LzwSafe, UNCHANGED packbitsVars, LzwAsk PROVE LzwSafe'
  OBVIOUS
<1>1. Ask(Requests) /\ UNCHANGED lzwVars
  BY DEF LzwAsk
<1>2. Requests \in SUBSET Nat
  BY CodesAre
<1>3. /\ ClientOK' /\ StripOK' /\ UNCHANGED <<stripVars, stream, taken, failed>>
      /\ pc' = "call" /\ pc = "idle"
  BY <1>1, <1>2, ClientAsks DEF LzwSafe
<1>4. DecoderOK'
  BY <1>1, <1>3 DEF LzwSafe, DecoderOK, lzwVars, CodePcs, EncodePcs
<1>5. StringsOK'
  BY <1>1, <1>3 DEF LzwSafe, StringsOK, TableOK, OldOK, lzwVars
<1> QED BY <1>1, <1>3, <1>4, <1>5, LzwDecodes, DecodingIs DEF EncodePcs, LzwPcs, lzwVars, encoderVars

LEMMA BackIs ==
  ASSUME NEW table, NEW path, NEW n \in Nat
  PROVE  IsSeq(Back(table, path, n)) /\ Len(Back(table, path, n)) = n
<1> DEFINE s == Back(table, path, n)
<1>1. s = [i \in 1..n |-> s[i]]
  BY DEF Back
<1> HIDE DEF s
<1>2. IsSeq(s) /\ Len(s) = n
  BY <1>1, FunctionIsSeq
<1> QED BY <1>2 DEF s

LEMMA ResumeKeeps == LzwSafe /\ UNCHANGED packbitsVars /\ Resume => LzwSafe'
<1> SUFFICES ASSUME LzwSafe, UNCHANGED packbitsVars, Resume PROVE LzwSafe'
  OBVIOUS
<1> DEFINE residue == dec_codetab[dec_codep].length - dec_restart
           path == Chain(dec_codetab, dec_codep, residue)
           before == SubSeq(path, 1, Len(path) - (residue - asked))
<1>1. /\ pc = "call" /\ dec_restart > 0 /\ astray' = (astray \/ residue < 1)
      /\ UNCHANGED <<stripVars, given, stream, asked, encoderVars, sp, dec_codetab, dec_codep,
                     dec_bitsleft, code, misread>> /\ data' = data
  BY DEF Resume, stripVars
<1>2. dec_codep \in 0..(CSIZE - 1) /\ dec_codetab[dec_codep].length > dec_restart
  BY <1>1 DEF LzwSafe, DecoderOK
<1>3. residue \in Nat /\ residue > 0 /\ ~(residue < 1)
  <2> DEFINE len == dec_codetab[dec_codep].length
  <2>1. len \in Nat /\ len > dec_restart
    BY <1>2, DecodingIs DEF Tables, Entries
  <2> HIDE DEF len
  <2>2. residue = len - dec_restart
    BY DEF len
  <2> QED BY <2>1, <2>2, DecodingIs, SMTT(30)
<1>4. ~astray'
  BY <1>1, <1>3 DEF LzwSafe, ClientOK
<1>5. ~failed => loc = sp /\ TableOK(dec_codetab, loc) /\ OldOK(dec_codetab, loc)
  BY <1>1 DEF LzwSafe, StringsOK
<1>6. CASE /\ residue > asked /\ Return(Back(dec_codetab, before, asked))
           /\ dec_restart' = dec_restart + asked /\ UNCHANGED loc
  <2> DEFINE bytes == Back(dec_codetab, before, asked)
  <2>1. IsSeq(bytes) /\ Len(bytes) = asked /\ asked <= asked
    BY BackIs, DecodingIs
  <2> HIDE DEF bytes, path, before
  <2>2. Return(bytes)
    BY <1>6 DEF bytes
  <2>3. StripOK' /\ ClientOK' /\ pc' = "idle" /\ taken' = taken + asked
        /\ failed' = (failed \/ ~(Len(bytes) >= asked))
    BY <1>1, <1>4, <2>1, <2>2, ClientLeaves, DecodingIs
  <2>4. dec_restart' \in Nat /\ dec_restart' <= taken'
    BY <1>6, <2>3, DecodingIs, SMTT(30)
  <2>5. dec_codetab[dec_codep].length > dec_restart'
    <3> DEFINE len == dec_codetab[dec_codep].length
    <3>1. len \in Nat
      BY <1>2, DecodingIs DEF Tables, Entries
    <3>2. len - dec_restart > asked
      BY <1>6
    <3> HIDE DEF len
    <3>3. len > dec_restart + asked
      BY <3>1, <3>2, DecodingIs
    <3> QED BY <1>6, <3>3 DEF len
  <2> HIDE DEF residue
  <2>6. DecoderOK'
    BY <1>1, <1>2, <1>6, <2>3, <2>4, <2>5, DecodingIs DEF DecoderOK, CodePcs, EncodePcs
  <2>7. StringsOK'
    <3>1. ~failed' => ~failed
      BY <2>3
    <3> QED BY <1>1, <1>5, <1>6, <2>3, <3>1 DEF StringsOK, TableOK, OldOK
  <2> QED BY <1>1, <2>3, <2>6, <2>7, LzwDecodes, DecodingIs DEF EncodePcs, LzwPcs
<1>7. CASE /\ ~(residue > asked) /\ buf' = Back(dec_codetab, path, residue) /\ dec_restart' = 0
           /\ loc' = sp /\ pc' = "decode" /\ UNCHANGED <<taken, ret, failed>>
  <2>1. IsSeq(buf') /\ Len(buf') = residue
    BY <1>3, <1>7, BackIs
  <2> HIDE DEF path, before, residue
  <2>2. Len(buf') <= asked
    BY <1>3, <1>7, <2>1, DecodingIs
  <2>3. StripOK' /\ ClientOK'
    BY <1>1, <1>4, <1>7, <2>1, <2>2, ClientGoesOn, DecodingIs
  <2>4. DecoderOK'
    BY <1>1, <1>7, <2>3, DecodingIs DEF DecoderOK, CodePcs, EncodePcs
  <2>5. StringsOK'
    BY <1>1, <1>5, <1>7 DEF StringsOK, TableOK, OldOK, EncodePcs
  <2> QED BY <1>1, <1>7, <2>3, <2>4, <2>5, LzwDecodes, DecodingIs DEF EncodePcs, LzwPcs
<1> QED BY <1>6, <1>7 DEF Resume, RestartMoved

LEMMA StartKeeps == LzwSafe /\ UNCHANGED packbitsVars /\ Start => LzwSafe'
<1> SUFFICES ASSUME LzwSafe, UNCHANGED packbitsVars, Start PROVE LzwSafe'
  OBVIOUS
<1>1. /\ pc = "call" /\ dec_restart = 0 /\ loc' = sp /\ pc' = "decode" /\ data' = data
      /\ asked' = asked /\ buf' = buf /\ taken' = taken /\ failed' = failed
      /\ UNCHANGED <<stripVars, given, stream, clientVars, encoderVars, sp, dec_codetab,
                     dec_restart, dec_codep, dec_bitsleft, code, misread>>
  BY DEF Start, stripVars, clientVars
<1>2. given' \in 0..Len(data)
  BY <1>1, DecodingIs DEF StripOK
<1>3. StripOK' /\ ClientOK'
  BY <1>1, <1>2, StripKept, ClientKept, DecodingIs
<1>4. DecoderOK'
  BY <1>1, DecodingIs DEF DecoderOK, CodePcs, EncodePcs
<1>5. StringsOK'
  BY <1>1 DEF LzwSafe, StringsOK, TableOK, OldOK, EncodePcs
<1> QED BY <1>1, <1>3, <1>4, <1>5, LzwDecodes, DecodingIs DEF EncodePcs, LzwPcs

LEMMA AnyCodeIs ==
  ASSUME LzwSafe
  PROVE  \A c \in AnyCode : c \in 0..CODE_MAX
<1>1. MAXCODE(loc.nbits) \in Nat /\ MAXCODE(loc.nbits) <= CODE_MAX /\ CODE_MAX \in Nat
  BY DecodingIs, CodesAre
<1> DEFINE m == MAXCODE(loc.nbits)
<1> HIDE DEF m
<1>2. \A c \in 0..m : c \in 0..CODE_MAX
  BY <1>1 DEF m
<1> QED BY <1>2 DEF AnyCode, m

LEMMA NextCodeKeeps == LzwSafe /\ UNCHANGED packbitsVars /\ NextCode => LzwSafe'
<1> SUFFICES ASSUME LzwSafe, UNCHANGED packbitsVars, NextCode PROVE LzwSafe'
  OBVIOUS
<1>1. /\ pc = "cleared" \/ (pc = "decode" /\ occ > 0)
      /\ pc' = (IF pc = "cleared" THEN "first" ELSE "code") /\ data' = data
      /\ asked' = asked /\ buf' = buf /\ taken' = taken /\ failed' = failed
      /\ UNCHANGED <<stripVars, given, clientVars, encoderVars, sp, dec_codetab, dec_restart, dec_codep>>
  BY DEF NextCode, stripVars, clientVars
<1>2. pc \notin EncodePcs /\ pc # "idle"
  BY <1>1 DEF EncodePcs
<1>3. occ > 0 /\ dec_restart = 0
  BY <1>1 DEF LzwSafe, DecoderOK, CodePcs
<1>4. given' \in 0..Len(data)
  BY <1>1, DecodingIs DEF StripOK
<1>5. StripOK' /\ ClientOK'
  BY <1>1, <1>2, <1>4, StripKept, ClientKept, DecodingIs
<1>6. /\ code' \in 0..CODE_MAX /\ stream' \in Seq(Codewords)
      /\ loc' = loc \/ loc' = [loc EXCEPT !.at = @ + 1]
  <2>1. CODE_EOI \in 0..CODE_MAX
    BY CodesAre
  <2>2. CASE dec_bitsleft < loc.nbits
    BY <2>1, <2>2, DecodingIs DEF NextCode
  <2>3. CASE ~(dec_bitsleft < loc.nbits)
    <3>1. loc' = [loc EXCEPT !.at = @ + 1]
      BY <2>3 DEF NextCode
    <3>2. CASE loc.at = Len(stream) /\ foreign
      <4>1. code' \in ForeignCodes /\ stream' = Append(stream, [code |-> code', width |-> loc.nbits])
        BY <2>3, <3>2 DEF NextCode
      <4>2. code' \in 0..CODE_MAX
        BY <4>1, AnyCodeIs DEF ForeignCodes
      <4> DEFINE word == [code |-> code', width |-> loc.nbits]
      <4>3. word \in Codewords
        BY <4>2, DecodingIs DEF Codewords
      <4> HIDE DEF word
      <4>4. stream' = Append(stream, word)
        BY <4>1 DEF word
      <4> QED BY <3>1, <4>2, <4>3, <4>4, DecodingIs, AppendIs
    <3>3. CASE ~(loc.at = Len(stream) /\ foreign)
      <4>1. /\ stream' = stream
            /\ \/ loc.at < Len(stream) /\ code' = stream[loc.at + 1].code
               \/ code' \in AnyCode
        BY <2>3, <3>3 DEF NextCode
      <4>2. ASSUME loc.at < Len(stream) PROVE stream[loc.at + 1].code \in 0..CODE_MAX
        <5>1. loc.at + 1 \in 1..Len(stream)
          BY <4>2, DecodingIs
        <5>2. stream[loc.at + 1] \in Codewords
          BY <5>1, DecodingIs, ElementIs
        <5> QED BY <5>2 DEF Codewords
      <4>3. code' \in 0..CODE_MAX
        BY <4>1, <4>2, AnyCodeIs
      <4> QED BY <3>1, <4>1, <4>3, DecodingIs
    <3> QED BY <3>2, <3>3
  <2> QED BY <2>2, <2>3
<1>7. loc' \in Places /\ loc'.free = loc.free /\ loc'.old = loc.old
  <2>1. loc \in Places /\ loc.at + 1 \in Nat
    BY DecodingIs
  <2> QED BY <1>6, <2>1 DEF Places
<1>8. occ' = occ
  BY <1>1 DEF occ
<1>9. DecoderOK'
  BY <1>1, <1>3, <1>6, <1>7, <1>8, DecodingIs DEF DecoderOK, CodePcs, EncodePcs
<1>10. StringsOK'
  <2>1. ASSUME ~failed PROVE TableOK(dec_codetab, loc') /\ (pc' = "code" => OldOK(dec_codetab, loc'))
    <3>1. TableOK(dec_codetab, loc)
      BY <2>1 DEF LzwSafe, StringsOK
    <3>2. pc' = "code" => OldOK(dec_codetab, loc)
      BY <1>1, <2>1 DEF LzwSafe, StringsOK
    <3> QED BY <1>7, <3>1, <3>2 DEF TableOK, OldOK
  <2> QED BY <1>1, <2>1 DEF StringsOK, EncodePcs
<1>11. pc' \in LzwPcs \ EncodePcs
  BY <1>1 DEF EncodePcs, LzwPcs, CodePcs
<1> QED BY <1>1, <1>2, <1>5, <1>6, <1>9, <1>10, <1>11, LzwDecodes

\* A step after a code: Decoding leaves alone what it says.
LEMMA Decodes ==
  ASSUME LzwSafe, UNCHANGED packbitsVars, Decoding, pc \in {"decode", "code", "first"},
         dec_codetab' \in Tables,
         dec_restart' \in Nat, dec_restart' <= taken',
         dec_restart' > 0 => /\ dec_codep' \in 0..(CSIZE - 1)
                             /\ dec_codetab'[dec_codep'].length > dec_restart',
         pc' \in {"decode", "cleared", "idle"},
         pc' \in {"decode", "cleared"} => dec_restart' = 0,
         pc' = "cleared" => occ' > 0,
         sp' \in Places, loc' \in Places, StripOK', ClientOK', StringsOK'
  PROVE  LzwSafe'
<1>1. UNCHANGED <<stripVars, given, stream, asked, astray, encoderVars, dec_bitsleft, code, misread>>
  BY DEF Decoding
<1>2. pc \notin EncodePcs /\ pc' \in LzwPcs \ EncodePcs
  BY DEF EncodePcs, LzwPcs, CodePcs
<1>3. DecoderOK'
  BY <1>1, <1>2, DecodingIs DEF DecoderOK, CodePcs, EncodePcs
<1> QED BY <1>1, <1>2, <1>3, LzwDecodes, DecodingIs

\* A call that fails at a code that means nothing.
LEMMA FailKeeps ==
  ASSUME LzwSafe, UNCHANGED packbitsVars, Decoding, pc \in {"code", "first"}, Fail,
         dec_codetab' \in Tables, UNCHANGED <<dec_restart, dec_codep>>
  PROVE  LzwSafe'
<1>1. /\ Return(buf) /\ sp' = sp /\ loc' = loc
      /\ UNCHANGED <<stripVars, given, asked, astray>>
  BY DEF Fail, Decoding
<1>2. occ > 0 /\ dec_restart = 0 /\ ~astray /\ pc # "idle"
  BY DEF LzwSafe, DecoderOK, CodePcs, ClientOK
<1>3. /\ StripOK' /\ ClientOK' /\ pc' = "idle" /\ taken' = taken + asked
      /\ failed' = (failed \/ ~(Len(buf) >= asked))
  BY <1>1, <1>2, ClientLeaves, DecodingIs
<1>4. failed'
  <2>1. ~(Len(buf) >= asked)
    BY <1>2, DecodingIs
  <2> QED BY <1>3, <2>1
<1>5. dec_restart' = 0 /\ 0 <= taken'
  BY <1>2, <1>3, DecodingIs
<1>6. StringsOK'
  BY <1>4 DEF StringsOK
<1> QED BY <1>1, <1>3, <1>5, <1>6, Decodes, DecodingIs

\* A call that ends with the local variables stored.
LEMMA LeaveKeeps ==
  ASSUME LzwSafe, UNCHANGED packbitsVars, Decoding, pc \in {"decode", "code", "first"},
         NEW l \in Places, NEW bytes, Leave(l, bytes), IsSeq(bytes), Len(bytes) <= asked,
         dec_codetab' \in Tables,
         dec_restart' \in Nat, dec_restart' <= occ,
         dec_restart' > 0 => /\ dec_codep' \in 0..(CSIZE - 1)
                             /\ dec_codetab'[dec_codep'].length > dec_restart',
         ~failed /\ Len(bytes) >= asked => TableOK(dec_codetab', l) /\ OldOK(dec_codetab', l)
  PROVE  LzwSafe'
<1>1. /\ Return(bytes) /\ sp' = l /\ loc' = l
      /\ UNCHANGED <<stripVars, given, asked, astray>>
  BY DEF Leave, Decoding
<1>2. ~astray /\ pc # "idle"
  BY DEF LzwSafe, ClientOK
<1>3. /\ StripOK' /\ ClientOK' /\ pc' = "idle" /\ taken' = taken + asked
      /\ failed' = (failed \/ ~(Len(bytes) >= asked))
  BY <1>1, <1>2, ClientLeaves, DecodingIs
<1>4. dec_restart' <= taken'
  BY <1>3, DecodingIs
<1>5. StringsOK'
  BY <1>1, <1>3 DEF StringsOK, TableOK, OldOK
<1> QED BY <1>1, <1>3, <1>4, <1>5, Decodes

\* A call that goes on after a string.
LEMMA GoKeeps ==
  ASSUME LzwSafe, UNCHANGED packbitsVars, Decoding, pc \in {"code", "first"},
         NEW l \in Places, NEW bytes, Go(l, bytes), IsSeq(bytes), Len(bytes) <= occ,
         dec_codetab' \in Tables, UNCHANGED <<dec_restart, dec_codep>>,
         ~failed => TableOK(dec_codetab', l) /\ OldOK(dec_codetab', l)
  PROVE  LzwSafe'
<1>1. /\ buf' = buf \o bytes /\ loc' = l /\ pc' = "decode" /\ taken' = taken /\ ret' = ret
      /\ failed' = failed /\ sp' = sp
      /\ UNCHANGED <<stripVars, given, asked, astray>>
  BY DEF Go, Decoding
<1>2. dec_restart = 0 /\ pc # "idle" /\ ~astray
  BY DEF LzwSafe, DecoderOK, CodePcs, ClientOK
<1>3. IsSeq(buf') /\ Len(buf') = Len(buf) + Len(bytes) /\ Len(bytes) \in Nat
  BY <1>1, SeqsJoined, DecodingIs
<1>4. Len(buf') <= asked
  BY <1>3, DecodingIs
<1>5. StripOK' /\ ClientOK'
  BY <1>1, <1>2, <1>3, <1>4, ClientGoesOn, DecodingIs
<1>6. StringsOK'
  BY <1>1 DEF StringsOK, TableOK, OldOK, EncodePcs
<1>7. dec_restart' = 0 /\ 0 <= taken'
  BY <1>1, <1>2, DecodingIs
<1> QED BY <1>1, <1>5, <1>6, <1>7, Decodes, DecodingIs

LEMMA ClearKeeps == LzwSafe /\ UNCHANGED packbitsVars /\ Clear => LzwSafe'
<1> SUFFICES ASSUME LzwSafe, UNCHANGED packbitsVars, Clear PROVE LzwSafe'
  OBVIOUS
<1>1. /\ pc \in {"code", "first"} /\ dec_codetab' = StartTable
      /\ loc' = [loc EXCEPT !.free = CODE_FIRST, !.nbits = BITS_MIN] /\ pc' = "cleared"
      /\ UNCHANGED <<buf, taken, ret, failed, sp, dec_restart, dec_codep>> /\ Decoding
      /\ UNCHANGED <<stripVars, given, asked, astray>>
  BY DEF Clear, ClearTable, Decoding
<1>2. occ > 0 /\ dec_restart = 0 /\ ~astray /\ pc # "idle"
  BY <1>1 DEF LzwSafe, DecoderOK, CodePcs, ClientOK
<1>3. occ' = occ
  BY <1>1 DEF occ
<1>4. CODE_FIRST \in CODE_FIRST..CSIZE /\ BITS_MIN \in Widths
  BY CodesAre
<1>5. loc' \in Places /\ loc'.free = CODE_FIRST
  BY <1>1, <1>4, DecodingIs DEF Places
<1>6. StripOK' /\ ClientOK'
  BY <1>1, <1>2, ClientGoesOn, DecodingIs
<1>7. StringsOK'
  BY <1>1, <1>5, StartTableIs DEF StringsOK, EncodePcs
<1>8. dec_restart' = 0 /\ 0 <= taken'
  BY <1>1, <1>2, DecodingIs
<1> QED BY <1>1, <1>2, <1>3, <1>5, <1>6, <1>7, <1>8, Decodes, DecodingIs, StartTableIs

LEMMA EndOfInformationKeeps ==
  LzwSafe /\ UNCHANGED packbitsVars /\ EndOfInformation => LzwSafe'
<1> SUFFICES ASSUME LzwSafe, UNCHANGED packbitsVars, EndOfInformation PROVE LzwSafe'
  OBVIOUS
<1>1. /\ pc \in {"code", "first"} /\ Leave(loc, buf) /\ Decoding
      /\ UNCHANGED <<dec_codetab, dec_restart, dec_codep>>
  BY DEF EndOfInformation
<1>2. occ > 0 /\ dec_restart = 0
  BY <1>1 DEF LzwSafe, DecoderOK, CodePcs
<1>3. ~(Len(buf) >= asked) /\ dec_restart' = 0 /\ 0 <= occ
  BY <1>1, <1>2, DecodingIs
<1> QED BY <1>1, <1>3, LeaveKeeps, DecodingIs

LEMMA SatisfiedKeeps == LzwSafe /\ UNCHANGED packbitsVars /\ Satisfied => LzwSafe'
<1> SUFFICES ASSUME LzwSafe, UNCHANGED packbitsVars, Satisfied PROVE LzwSafe'
  OBVIOUS
<1>1. /\ pc = "decode" /\ Leave(loc, buf) /\ Decoding
      /\ dec_codetab' = dec_codetab /\ dec_restart' = dec_restart /\ dec_codep' = dec_codep
  BY DEF Satisfied
<1>2. dec_restart = 0
  BY <1>1 DEF LzwSafe, DecoderOK
<1>3. ~failed => TableOK(dec_codetab', loc) /\ OldOK(dec_codetab', loc)
  BY <1>1 DEF LzwSafe, StringsOK
<1>4. dec_restart' = 0 /\ 0 <= occ
  BY <1>1, <1>2, DecodingIs
<1> QED BY <1>1, <1>3, <1>4, LeaveKeeps, DecodingIs

LEMMA OneByte ==
  ASSUME NEW b
  PROVE  IsSeq(<<b>>) /\ Len(<<b>>) = 1
<1>1. <<b>> \in Seq({b}) /\ Len(<<b>>) = 1
  OBVIOUS
<1> QED BY <1>1, SeqIs

\* The code of a byte is that of an entry that is there from the beginning.
LEMMA ByteEntry ==
  ASSUME NEW table \in Tables, NEW l, l.free \in CODE_FIRST..CSIZE, TableOK(table, l),
         NEW c \in 0..CODE_MAX, c < CODE_CLEAR
  PROVE  c \in 0..(l.free - 1) /\ table[c].length > 0
<1> DEFINE f == l.free
<1>1. f \in CODE_FIRST..CSIZE
  OBVIOUS
<1> HIDE DEF f
<1>2. CODE_CLEAR \in Nat /\ CODE_FIRST = CODE_CLEAR + 2 /\ CSIZE \in Nat /\ CODE_MAX \in Nat
      /\ Values = 0..(CODE_CLEAR - 1)
  BY CodesAre
<1>3. c \in Values /\ c \in 0..(f - 1)
  BY <1>1, <1>2
<1>4. table[c].length = 1
  BY <1>3 DEF TableOK
<1> QED BY <1>3, <1>4 DEF f

LEMMA FirstStringKeeps == LzwSafe /\ UNCHANGED packbitsVars /\ FirstString => LzwSafe'
<1> SUFFICES ASSUME LzwSafe, UNCHANGED packbitsVars, FirstString PROVE LzwSafe'
  OBVIOUS
<1> DEFINE l == [loc EXCEPT !.old = code]
<1>1. /\ pc = "first" /\ code # CODE_CLEAR
      /\ IF code > CODE_CLEAR THEN Fail ELSE Go(l, <<code>>)
      /\ UNCHANGED <<dec_codetab, dec_restart, dec_codep>> /\ Decoding
  BY DEF FirstString
<1>2. CASE code > CODE_CLEAR
  BY <1>1, <1>2, FailKeeps, DecodingIs
<1>3. CASE ~(code > CODE_CLEAR)
  <2>1. code < CODE_CLEAR /\ code \in Before..CODE_MAX /\ CODE_CLEAR \in Nat
    <3>1. CODE_CLEAR \in Nat /\ CODE_MAX \in Nat /\ Before = -1
      BY CodesAre
    <3>2. code \in 0..CODE_MAX
      BY DecodingIs
    <3>3. code # CODE_CLEAR
      BY <1>1
    <3> HIDE DEF l
    <3>4. code < CODE_CLEAR
      BY <1>3, <3>1, <3>2, <3>3
    <3> QED BY <3>1, <3>2, <3>4
  <2>2. l \in Places /\ l.free = loc.free /\ l.old = code
    BY <2>1, DecodingIs DEF Places
  <2>3. occ > 0 /\ 1 <= occ
    BY <1>1, DecodingIs DEF LzwSafe, DecoderOK, CodePcs
  <2> HIDE DEF l
  <2>4. ASSUME ~failed PROVE TableOK(dec_codetab', l) /\ OldOK(dec_codetab', l)
    <3>1. TableOK(dec_codetab, loc) /\ dec_codetab' = dec_codetab
      BY <1>1, <2>4 DEF LzwSafe, StringsOK
    <3>2. TableOK(dec_codetab', l)
      BY <2>2, <3>1 DEF TableOK
    <3>3. code \in 0..(loc.free - 1) /\ dec_codetab[code].length > 0
      BY <2>1, <3>1, ByteEntry, DecodingIs
    <3> QED BY <2>2, <3>1, <3>2, <3>3 DEF OldOK
  <2>5. IsSeq(<<code>>) /\ Len(<<code>>) <= occ
    BY <2>3, OneByte
  <2>6. dec_codetab' \in Tables
    BY <1>1, DecodingIs
  <2>7. Go(l, <<code>>)
    BY <1>1, <1>3
  <2> QED BY <1>1, <2>2, <2>4, <2>5, <2>6, <2>7, GoKeeps
<1> QED BY <1>2, <1>3

LEMMA CorruptedTableKeeps == LzwSafe /\ UNCHANGED packbitsVars /\ CorruptedTable => LzwSafe'
<1> SUFFICES ASSUME LzwSafe, UNCHANGED packbitsVars, CorruptedTable PROVE LzwSafe'
  OBVIOUS
<1>1. /\ pc = "code" /\ Fail /\ Decoding /\ UNCHANGED <<dec_codetab, dec_restart, dec_codep>>
  BY DEF CorruptedTable, Other
<1> QED BY <1>1, FailKeeps, DecodingIs

\* The table with the new entry, and the place of the code after it.
LEMMA EnteredIs ==
  ASSUME LzwSafe, EnterString
  PROVE  /\ pc = "code" /\ dec_codetab' \in Tables /\ Entered \in Places
         /\ Entered.free = loc.free + 1 /\ Entered.old = code
         /\ code # CODE_CLEAR /\ code # CODE_EOI
         /\ dec_restart = 0 /\ occ > 0
         /\ ~failed => TableOK(dec_codetab', Entered)
<1> DEFINE free == loc.free
           old == loc.old
           first == dec_codetab[old].firstchar
           from == IF InTable(code) THEN dec_codetab[code].firstchar ELSE first
           len == dec_codetab[old].length
<1>1. /\ pc = "code" /\ code \notin {CODE_CLEAR, CODE_EOI} /\ ~(free >= CSIZE) /\ old # Before
      /\ dec_codetab' = [dec_codetab EXCEPT ![free] = NewEntry]
  BY DEF EnterString, Other, Corrupted
<1>2. dec_restart = 0 /\ occ > 0
  BY <1>1 DEF LzwSafe, DecoderOK, CodePcs
<1>3. /\ CSIZE \in Nat /\ CODE_MAX \in Nat /\ CODE_MAX < CSIZE /\ CODE_FIRST \in Nat
      /\ Before = -1 /\ CODE_FIRST = CODE_CLEAR + 2 /\ CODE_CLEAR \in Nat
      /\ Values = 0..(CODE_CLEAR - 1)
  BY CodesAre
<1>4. free \in CODE_FIRST..CSIZE /\ old \in Before..CODE_MAX /\ code \in 0..CODE_MAX
      /\ dec_codetab \in Tables
  BY DecodingIs
<1>5. NewEntry = [next |-> old, length |-> len + 1, firstchar |-> first, value |-> from]
  BY DEF NewEntry
<1> HIDE DEF free, old
<1>6. /\ free \in 0..(CSIZE - 1) /\ free + 1 \in CODE_FIRST..CSIZE
      /\ old \in 0..(CSIZE - 1) /\ code \in 0..(CSIZE - 1)
  BY <1>1, <1>3, <1>4
<1>7. first \in Nat /\ from \in Nat /\ len \in Nat /\ len + 1 \in Nat
  <2>1. dec_codetab[old] \in Entries /\ dec_codetab[code] \in Entries
    BY <1>4, <1>6 DEF Tables
  <2>2. first \in Nat /\ len \in Nat /\ dec_codetab[code].firstchar \in Nat
    BY <2>1 DEF Entries
  <2> QED BY <2>2
<1> HIDE DEF first, from, len
<1>8. NewEntry \in Entries
  BY <1>5, <1>6, <1>7 DEF Entries
<1>9. dec_codetab' \in Tables
  BY <1>1, <1>4, <1>6, <1>8 DEF Tables
<1> DEFINE n == loc.nbits
           bits == IF free + 1 > WidenBefore(n) /\ n < BITS_MAX THEN n + 1 ELSE n
<1>10. bits \in Widths
  <2>1. n \in 9..12 /\ BITS_MAX = 12 /\ Widths = 9..12
    BY DecodingIs, CodesAre
  <2> HIDE DEF n
  <2>2. bits = n \/ (n < BITS_MAX /\ bits = n + 1)
    BY DEF bits
  <2> HIDE DEF bits
  <2> QED BY <2>1, <2>2
<1>11. Entered = [loc EXCEPT !.free = free + 1, !.old = code, !.nbits = bits]
  BY DEF Entered, free
<1> HIDE DEF bits
<1>12. code \in Before..CODE_MAX
  BY <1>3, <1>4
<1>13. Entered \in Places
  BY <1>6, <1>10, <1>11, <1>12, DecodingIs DEF Places
<1>14. Entered.free = free + 1 /\ Entered.old = code
  BY <1>11, DecodingIs DEF Places
<1>15. ASSUME ~failed PROVE TableOK(dec_codetab', Entered)
  <2>1. TableOK(dec_codetab, loc) /\ OldOK(dec_codetab, loc)
    BY <1>1, <1>15 DEF LzwSafe, StringsOK
  <2>2. old \in 0..(free - 1) /\ len > 0
    BY <1>1, <2>1 DEF OldOK, free, old, len
  <2>3. /\ \A p \in 0..(CSIZE - 1) : p # free => dec_codetab'[p] = dec_codetab[p]
        /\ dec_codetab'[free] = NewEntry
    BY <1>1, <1>4, <1>6 DEF Tables
  <2>4. \A p \in Values : p \in 0..(CSIZE - 1) /\ p # free
    BY <1>3, <1>4
  <2>5. \A p \in Values : dec_codetab'[p].length = 1 /\ dec_codetab'[p].next = NULL
    BY <2>1, <2>3, <2>4 DEF TableOK
  <2>6. \A p : p \in CODE_FIRST..(Entered.free - 1) <=> p \in CODE_FIRST..(free - 1) \/ p = free
    BY <1>3, <1>4, <1>14
  <2>7. \A p \in 0..(CSIZE - 1) :
          p \notin Values /\ p \notin CODE_FIRST..(Entered.free - 1) => dec_codetab'[p].length = 0
    BY <2>1, <2>3, <2>6 DEF TableOK, free
  <2>8. \A p \in CODE_FIRST..(free - 1) :
          p \in 0..(CSIZE - 1) /\ p # free /\ \A q \in 0..(p - 1) : q \in 0..(CSIZE - 1) /\ q # free
    BY <1>3, <1>4
  <2>9. ASSUME NEW p \in CODE_FIRST..(free - 1)
        PROVE  /\ dec_codetab'[p].next \in 0..(p - 1)
               /\ dec_codetab'[dec_codetab'[p].next].length > 0
               /\ dec_codetab'[p].length = dec_codetab'[dec_codetab'[p].next].length + 1
    <3>1. /\ dec_codetab[p].next \in 0..(p - 1)
          /\ dec_codetab[dec_codetab[p].next].length > 0
          /\ dec_codetab[p].length = dec_codetab[dec_codetab[p].next].length + 1
      BY <2>1 DEF TableOK, free
    <3>2. dec_codetab'[p] = dec_codetab[p]
      BY <2>3, <2>8
    <3>3. dec_codetab'[dec_codetab[p].next] = dec_codetab[dec_codetab[p].next]
      BY <2>3, <2>8, <3>1
    <3> QED BY <3>1, <3>2, <3>3
  <2>10. /\ dec_codetab'[free].next \in 0..(free - 1)
         /\ dec_codetab'[dec_codetab'[free].next].length > 0
         /\ dec_codetab'[free].length = dec_codetab'[dec_codetab'[free].next].length + 1
    <3>1. NewEntry.next = old /\ NewEntry.length = len + 1
      BY <1>5
    <3>2. old # free
      BY <1>3, <1>4, <2>2
    <3>3. dec_codetab'[old] = dec_codetab[old]
      BY <1>6, <2>3, <3>2
    <3>4. dec_codetab'[old].length = len
      BY <3>3 DEF len
    <3> QED BY <2>2, <2>3, <3>1, <3>4
  <2> QED BY <2>5, <2>6, <2>7, <2>9, <2>10 DEF TableOK
<1> QED BY <1>1, <1>2, <1>9, <1>13, <1>14, <1>15 DEF free

LEMMA LiteralKeeps == LzwSafe /\ UNCHANGED packbitsVars /\ Literal => LzwSafe'
<1> SUFFICES ASSUME LzwSafe, UNCHANGED packbitsVars, Literal PROVE LzwSafe'
  OBVIOUS
<1>1. EnterString /\ code < CODE_CLEAR /\ Go(Entered, <<code>>) /\ Decoding
      /\ UNCHANGED <<dec_restart, dec_codep>>
  BY DEF Literal
<1>2. /\ pc = "code" /\ dec_codetab' \in Tables /\ Entered \in Places /\ Entered.old = code
      /\ occ > 0 /\ (~failed => TableOK(dec_codetab', Entered))
  BY <1>1, EnteredIs
<1>3. ASSUME ~failed PROVE OldOK(dec_codetab', Entered)
  <2>1. Entered.free \in CODE_FIRST..CSIZE /\ code \in 0..CODE_MAX
    BY <1>2, DecodingIs DEF Places
  <2>2. code \in 0..(Entered.free - 1) /\ dec_codetab'[code].length > 0
    BY <1>1, <1>2, <1>3, <2>1, ByteEntry
  <2> QED BY <1>2, <2>2 DEF OldOK
<1>4. IsSeq(<<code>>) /\ Len(<<code>>) <= occ
  <2>1. 1 <= occ
    BY <1>2, DecodingIs
  <2> QED BY <2>1, OneByte
<1> QED BY <1>1, <1>2, <1>3, <1>4, GoKeeps

LEMMA UnknownStringKeeps == LzwSafe /\ UNCHANGED packbitsVars /\ UnknownString => LzwSafe'
<1> SUFFICES ASSUME LzwSafe, UNCHANGED packbitsVars, UnknownString PROVE LzwSafe'
  OBVIOUS
<1>1. EnterString /\ Fail /\ Decoding /\ UNCHANGED <<dec_restart, dec_codep>>
  BY DEF UnknownString
<1>2. pc = "code" /\ dec_codetab' \in Tables
  BY <1>1, EnteredIs
<1> QED BY <1>1, <1>2, FailKeeps

\* The code of a string: that of an entry that is in use.
LEMMA StringEntry ==
  ASSUME LzwSafe, EnterString, StringOf(code).length > 0
  PROVE  /\ StringOf(code).length \in Nat /\ code \in 0..(CSIZE - 1) /\ code \in Links
         /\ ~failed => OldOK(dec_codetab', Entered)
<1>1. /\ CSIZE \in Nat /\ CODE_MAX \in Nat /\ CODE_MAX < CSIZE /\ CODE_FIRST \in Nat
      /\ CODE_FIRST = CODE_CLEAR + 2 /\ CODE_CLEAR \in Nat /\ Values = 0..(CODE_CLEAR - 1)
  BY CodesAre
<1>2. code \in 0..CODE_MAX /\ loc.free \in CODE_FIRST..CSIZE
  BY DecodingIs
<1>3. code \in 0..(CSIZE - 1) /\ code \in Links
  BY <1>1, <1>2 DEF Links
<1>4. dec_codetab' \in Tables /\ Entered.free = loc.free + 1 /\ Entered.old = code
      /\ (~failed => TableOK(dec_codetab', Entered))
  BY EnteredIs
<1>5. StringOf(code).length \in Nat /\ dec_codetab'[code].length > 0
  BY <1>3, <1>4 DEF StringOf, Tables, Entries
<1>6. ASSUME ~failed PROVE code \in 0..(Entered.free - 1)
  <2> DEFINE f == Entered.free
  <2>1. code \in Values \/ code \in CODE_FIRST..(f - 1)
    <3>1. dec_codetab'[code].length # 0
      BY <1>5
    <3> QED BY <1>3, <1>4, <1>6, <3>1 DEF TableOK
  <2>2. f \in CODE_FIRST..CSIZE
    BY EnteredIs DEF Places
  <2> HIDE DEF f
  <2>3. code \in 0..(f - 1)
    BY <1>1, <2>1, <2>2
  <2> QED BY <2>3 DEF f
<1> QED BY <1>3, <1>4, <1>5, <1>6 DEF OldOK

LEMMA WholeStringKeeps == LzwSafe /\ UNCHANGED packbitsVars /\ WholeString => LzwSafe'
<1> SUFFICES ASSUME LzwSafe, UNCHANGED packbitsVars, WholeString PROVE LzwSafe'
  OBVIOUS
<1> DEFINE len == StringOf(code).length
           path == Chain(dec_codetab', code, len)
           bytes == Back(dec_codetab', path, len)
<1>1. /\ EnterString /\ len \in 1..occ /\ Decoding
      /\ Leave(Entered, buf) \/ Go(Entered, bytes)
      /\ UNCHANGED <<dec_restart, dec_codep>>
  BY DEF WholeString
<1>2. /\ pc = "code" /\ dec_codetab' \in Tables /\ Entered \in Places
      /\ occ > 0 /\ dec_restart = 0 /\ (~failed => TableOK(dec_codetab', Entered))
  BY <1>1, EnteredIs
<1>3. len > 0 /\ len \in Nat /\ len <= occ
  BY <1>1, DecodingIs
<1>4. ~failed => OldOK(dec_codetab', Entered)
  BY <1>1, <1>3, StringEntry
<1> HIDE DEF path, len
<1>5. IsSeq(bytes) /\ Len(bytes) = len
  BY <1>3, BackIs
<1> HIDE DEF bytes
<1>6. CASE Go(Entered, bytes)
  <2>1. Len(bytes) <= occ
    BY <1>3, <1>5
  <2> QED BY <1>1, <1>2, <1>4, <1>5, <1>6, <2>1, GoKeeps
<1>7. CASE Leave(Entered, buf)
  <2>1. dec_restart' = 0 /\ 0 <= occ
    BY <1>1, <1>2, DecodingIs
  <2> QED BY <1>1, <1>2, <1>4, <1>7, <2>1, LeaveKeeps, DecodingIs
<1> QED BY <1>1, <1>6, <1>7

LEMMA StringTooLongKeeps == LzwSafe /\ UNCHANGED packbitsVars /\ StringTooLong => LzwSafe'
<1> SUFFICES ASSUME LzwSafe, UNCHANGED packbitsVars, StringTooLong PROVE LzwSafe'
  OBVIOUS
<1> DEFINE fitting == Fitting(dec_codetab', code, occ)
           path == Chain(dec_codetab', fitting, occ)
           back == Back(dec_codetab', path, occ)
           bytes == IF Len(path) < occ THEN buf ELSE buf \o back
<1>1. /\ EnterString /\ StringOf(code).length > occ /\ Decoding
      /\ dec_codep' = code
      /\ dec_restart' = IF fitting = NULL THEN dec_restart ELSE occ
      /\ Leave(Entered, bytes)
  BY DEF StringTooLong
<1>2. /\ pc = "code" /\ dec_codetab' \in Tables /\ Entered \in Places
      /\ occ > 0 /\ occ \in Nat /\ dec_restart = 0 /\ (~failed => TableOK(dec_codetab', Entered))
  BY <1>1, EnteredIs, DecodingIs
<1>3. code \in 0..(CSIZE - 1) /\ dec_codetab'[code].length > occ
  <2>1. code \in 0..CODE_MAX /\ CODE_MAX \in Nat /\ CODE_MAX < CSIZE /\ CSIZE \in Nat
    BY DecodingIs, CodesAre
  <2>2. code \in 0..(CSIZE - 1)
    BY <2>1
  <2> QED BY <1>1, <2>2 DEF StringOf
<1>4. ~failed => OldOK(dec_codetab', Entered)
  <2>1. StringOf(code).length > 0
    <3> DEFINE len == dec_codetab'[code].length
    <3>1. len > occ /\ len \in Nat
      BY <1>2, <1>3 DEF Tables, Entries
    <3> HIDE DEF len
    <3>2. len > 0
      BY <1>2, <3>1
    <3> QED BY <3>2 DEF len, StringOf
  <2> QED BY <1>1, <2>1, StringEntry
<1> HIDE DEF fitting, path
<1>5. IsSeq(bytes) /\ Len(bytes) <= asked
  <2>1. IsSeq(back) /\ Len(back) = occ
    BY <1>2, BackIs
  <2> HIDE DEF back
  <2>2. IsSeq(buf \o back) /\ Len(buf \o back) = Len(buf) + occ
    BY <2>1, SeqsJoined, DecodingIs
  <2>3. Len(buf \o back) <= asked
    BY <2>2, DecodingIs
  <2> QED BY <2>2, <2>3, DecodingIs
<1> HIDE DEF bytes
<1>6. dec_restart' \in {0, occ}
  BY <1>1, <1>2
<1>7. dec_restart' \in Nat /\ dec_restart' <= occ
  BY <1>2, <1>6
<1>8. dec_restart' > 0 => dec_codep' \in 0..(CSIZE - 1) /\ dec_codetab'[dec_codep'].length > dec_restart'
  BY <1>1, <1>3, <1>6
<1> QED BY <1>1, <1>2, <1>4, <1>5, <1>7, <1>8, LeaveKeeps

LEMMA LzwKeeps == LzwSafe /\ UNCHANGED packbitsVars /\ LzwNext => LzwSafe'
<1>1. LzwSafe /\ UNCHANGED packbitsVars /\ LzwEncode => LzwSafe'
  BY FirstByteKeeps, KnownStringKeeps, NewStringKeeps, LZWPostEncodeKeeps DEF LzwEncode
<1>2. LzwSafe /\ UNCHANGED packbitsVars /\ LzwDecode => LzwSafe'
  BY ResumeKeeps, StartKeeps, NextCodeKeeps, ClearKeeps, EndOfInformationKeeps, SatisfiedKeeps,
     FirstStringKeeps, CorruptedTableKeeps, LiteralKeeps, UnknownStringKeeps, WholeStringKeeps,
     StringTooLongKeeps DEF LzwDecode
<1> QED BY <1>1, <1>2, LZWPreDecodeKeeps, LzwAskKeeps DEF LzwNext

LEMMA LzwStart ==
  ASSUME LzwInit(Strips(LzwLengths)), PackBitsIdle
  PROVE  LzwSafe
<1>1. /\ given = 0 /\ asked = 0 /\ buf = <<>> /\ taken = 0 /\ ret = 1 /\ ~astray
      /\ stream = <<>> /\ enc = StartEncoder /\ hash = <<>> /\ sp = StartDecoder
      /\ loc = StartDecoder /\ dec_codetab = StartTable /\ dec_restart = 0 /\ code = 0
  BY DEF LzwInit, CodecInit, LzwIdle
<1>2. /\ data \in Seq(Values) /\ pc \in EncodePcs /\ (pc = "encode" => Len(data) > 0)
  <2>1. CASE data \in Strips(LzwLengths) /\ pc = "encode"
    <3>1. LzwLengths \in SUBSET Nat /\ LzwLengths \subseteq Nat \ {0}
      BY CodecsAssumption
    <3>2. data \in Seq(Values) /\ Len(data) \in LzwLengths
      BY <2>1, <3>1, StripOfValues
    <3> QED BY <2>1, <3>1, <3>2 DEF EncodePcs
  <2>2. CASE data = <<>> /\ pc = "predecode"
    BY <2>2 DEF EncodePcs
  <2> QED BY <2>1, <2>2 DEF LzwInit
<1>3. Len(data) \in Nat
  BY <1>2
<1>4. StripOK
  BY <1>1, <1>2, <1>3 DEF StripOK
<1>5. ClientOK
  BY <1>1, <1>4, StripIs, EmptyIsSeq DEF ClientOK
<1>6. /\ CODE_FIRST \in Nat /\ CODE_FIRST \in CODE_FIRST..(CODE_MAX - 2) /\ CODE_MAX \in Nat
      /\ BITS_MIN \in Widths /\ NoCode \in NoCode..CODE_MAX /\ CHECK_GAP \in Nat /\ 0 <= RawSize
      /\ 0 \in 0..CODE_MAX
  BY CodesAre
<1>7. StartEncoder \in EncoderRecords /\ StartEncoder.free_ent = CODE_FIRST /\ StartEncoder.op = 0
  BY <1>6 DEF StartEncoder, EncoderRecords
<1>8. EncoderOK
  BY <1>1, <1>2, <1>6, <1>7 DEF EncoderOK
<1>9. DecoderOK
  BY <1>1, <1>2, <1>6, StartTableIs DEF DecoderOK, EncodePcs, CodePcs
<1>10. StringsOK
  BY <1>1, StartTableIs DEF StringsOK, OldOK
<1>11. stream \in Seq(Codewords) /\ pc \in LzwPcs
  BY <1>1, <1>2 DEF LzwPcs
<1> QED BY <1>4, <1>5, <1>8, <1>9, <1>10, <1>11 DEF LzwSafe

-----------------------------------------------------------------------------
(***************************************************************************)
(* The results.                                                            *)
(***************************************************************************)
LEMMA SchemeStays ==
  ASSUME [Next]_vars
  PROVE  /\ scheme' = "packbits" =>
              scheme = "packbits" /\ ((PackBitsNext /\ UNCHANGED lzwVars) \/ UNCHANGED vars)
         /\ scheme' = "lzw" =>
              scheme = "lzw" /\ ((LzwNext /\ UNCHANGED packbitsVars) \/ UNCHANGED vars)
<1>1. "packbits" \notin FaxSchemes /\ "lzw" \notin FaxSchemes
  BY DEF FaxSchemes
<1>2. CASE scheme = "packbits" /\ PackBitsNext /\ UNCHANGED <<lzwVars, faxVars>>
  BY <1>2, PackBitsKeepsStrip DEF NotFax, stripVars
<1>3. CASE scheme = "lzw" /\ LzwNext /\ UNCHANGED <<packbitsVars, faxVars>>
  BY <1>3, LzwKeepsStrip DEF NotFax, stripVars
<1>4. CASE scheme \in FaxSchemes /\ FaxNext
  BY <1>1, <1>4, FaxKeepsStrip DEF stripVars
<1>5. CASE UNCHANGED vars
  <2>1. scheme' = scheme
    BY <1>5 DEF vars, codecVars, stripVars
  <2> QED BY <1>5, <2>1
<1> QED BY <1>2, <1>3, <1>4, <1>5 DEF Next

LEMMA PackBitsUnchanged == PackBitsSafe /\ UNCHANGED vars => PackBitsSafe'
<1> SUFFICES ASSUME PackBitsSafe, UNCHANGED vars PROVE PackBitsSafe'
  OBVIOUS
<1>1. UNCHANGED <<codecVars, packbitsVars, lzwVars>>
  BY DEF vars
<1>2. StripOK' /\ ClientOK'
  BY <1>1 DEF PackBitsSafe, StripOK, ClientOK, IsSeq, StripSize, codecVars, stripVars, clientVars
<1>3. PackBitsOK'
  BY <1>1 DEF PackBitsSafe, PackBitsOK, LiteralOK, AfterLiteral, codecVars, stripVars, packbitsVars
<1>4. LzwIdle'
  BY <1>1 DEF PackBitsSafe, LzwIdle, lzwVars
<1> QED BY <1>2, <1>3, <1>4 DEF PackBitsSafe

LEMMA LzwUnchanged == LzwSafe /\ UNCHANGED vars => LzwSafe'
<1> SUFFICES ASSUME LzwSafe, UNCHANGED vars PROVE LzwSafe'
  OBVIOUS
<1>1. UNCHANGED <<codecVars, packbitsVars, lzwVars>>
  BY DEF vars
<1>2. StripOK' /\ ClientOK' /\ pc' = pc /\ stream' = stream
  BY <1>1 DEF LzwSafe, StripOK, ClientOK, IsSeq, StripSize, codecVars, stripVars, clientVars
<1>3. PackBitsIdle'
  BY <1>1 DEF LzwSafe, PackBitsIdle, packbitsVars
<1>4. EncoderOK'
  BY <1>1 DEF LzwSafe, EncoderOK, codecVars, stripVars, lzwVars
<1>5. occ' = occ
  BY <1>1 DEF occ, codecVars, clientVars
<1>6. DecoderOK'
  BY <1>1, <1>5 DEF LzwSafe, DecoderOK, codecVars, clientVars, lzwVars
<1>7. StringsOK'
  BY <1>1 DEF LzwSafe, StringsOK, TableOK, OldOK, codecVars, clientVars, lzwVars
<1> QED BY <1>2, <1>3, <1>4, <1>6, <1>7 DEF LzwSafe

LEMMA CodecsAlways == Spec => []CodecsSafe
<1>1. Init => CodecsSafe
  <2>1. ASSUME Init, scheme = "packbits" PROVE PackBitsSafe
    BY <2>1, PackBitsStart DEF Init, FaxSchemes
  <2>2. ASSUME Init, scheme = "lzw" PROVE LzwSafe
    BY <2>2, LzwStart DEF Init, FaxSchemes
  <2> QED BY <2>1, <2>2 DEF CodecsSafe
<1>2. CodecsSafe /\ [Next]_vars => CodecsSafe'
  <2> SUFFICES ASSUME CodecsSafe, [Next]_vars PROVE CodecsSafe'
    OBVIOUS
  <2>1. ASSUME scheme' = "packbits" PROVE PackBitsSafe'
    <3>1. scheme = "packbits" /\ ((PackBitsNext /\ UNCHANGED lzwVars) \/ UNCHANGED vars)
      BY <2>1, SchemeStays
    <3>2. PackBitsSafe
      BY <3>1 DEF CodecsSafe
    <3> QED BY <3>1, <3>2, PackBitsKeeps, PackBitsUnchanged
  <2>2. ASSUME scheme' = "lzw" PROVE LzwSafe'
    <3>1. scheme = "lzw" /\ ((LzwNext /\ UNCHANGED packbitsVars) \/ UNCHANGED vars)
      BY <2>2, SchemeStays
    <3>2. LzwSafe
      BY <3>1 DEF CodecsSafe
    <3> QED BY <3>1, <3>2, LzwKeeps, LzwUnchanged
  <2> QED BY <2>1, <2>2 DEF CodecsSafe
<1> QED BY <1>1, <1>2, PTL DEF Spec

SchemeOK == scheme \in {"packbits", "lzw"} \cup FaxSchemes

LEMMA SchemeAlways == Spec => []SchemeOK
<1>1. Init => SchemeOK
  BY DEF Init, SchemeOK
<1>2. SchemeOK /\ [Next]_vars => SchemeOK'
  <2> SUFFICES ASSUME SchemeOK, [Next]_vars PROVE SchemeOK'
    OBVIOUS
  <2>1. scheme' = scheme
    BY PackBitsKeepsStrip, LzwKeepsStrip, FaxKeepsStrip
       DEF Next, NotFax, vars, codecVars, stripVars
  <2> QED BY <2>1 DEF SchemeOK
<1> QED BY <1>1, <1>2, PTL DEF Spec

\* Whatever the strip holds, and even after a call that failed, no codec puts anything
\* beyond the client's buffer or the raw buffer: a literal that is being extended
\* always leaves the room that a run takes when the buffer is flushed, and a code and a
\* Clear code find room after the check of tif_lzw.c:956-960 (tif_packbits.c:88-110,
\* 236-262, tif_lzw.c:385-422, 504-541, tif_fax3.h:285-303).
THEOREM NothingBeyondBuffers == Spec => []InBuffers
<1>1. SchemeOK /\ CodecsSafe /\ FaxSafe => InBuffers
  <2> SUFFICES ASSUME SchemeOK, CodecsSafe, FaxSafe PROVE InBuffers
    OBVIOUS
  <2>1. RawSize \in Nat /\ Len(<<>>) = 0 /\ StartEncoder.op = 0
    BY Sizes DEF StartEncoder
  <2>2. PackBitsIdle => Len(raw) <= RawSize
    BY <2>1 DEF PackBitsIdle
  <2>3. LzwIdle => enc.op <= RawSize
    BY <2>1 DEF LzwIdle
  <2>4. CASE scheme = "packbits"
    BY <2>3, <2>4 DEF CodecsSafe, PackBitsSafe, ClientOK, PackBitsOK, InBuffers
  <2>5. CASE scheme = "lzw"
    BY <2>2, <2>5 DEF CodecsSafe, LzwSafe, ClientOK, EncoderOK, InBuffers
  <2>6. CASE scheme \in FaxSchemes
    BY <2>2, <2>3, <2>6 DEF FaxSafe, FaxInv, FaxClientOK, InBuffers
  <2> QED BY <2>4, <2>5, <2>6 DEF SchemeOK
<1> QED BY <1>1, SchemeAlways, CodecsAlways, FaxAlways, PTL

\* Until a call fails, whatever codes another program has written, each string of the
\* code table goes back to an older one and is as long as it says
\* (tif_lzw.c:351-357, 473-538).
THEOREM ChainsEnd == Spec => []NoLoopInTable
<1>1. SchemeOK /\ CodecsSafe /\ FaxSafe => NoLoopInTable
  <2> SUFFICES ASSUME SchemeOK, CodecsSafe, FaxSafe, ~failed,
                      NEW p \in CODE_FIRST..(loc.free - 1), dec_codetab[p].length > 0
               PROVE  /\ dec_codetab[p].next < p
                      /\ Len(Chain(dec_codetab, p, CSIZE)) = dec_codetab[p].length
    BY DEF NoLoopInTable
  <2>1. CASE scheme = "lzw"
    <3>1. LzwSafe
      BY <2>1 DEF CodecsSafe
    <3>2. dec_codetab \in Tables /\ loc \in Places
      BY <3>1, DecodingIs
    <3>3. TableOK(dec_codetab, loc)
      BY <3>1 DEF LzwSafe, StringsOK
    <3> QED BY <3>2, <3>3, NoLoop
  <2>2. CASE scheme # "lzw"
    <3>1. LzwIdle
      BY <2>2 DEF SchemeOK, CodecsSafe, PackBitsSafe, FaxSafe, FaxInv
    <3>2. loc.free = CODE_FIRST
      BY <3>1, StartTableIs DEF LzwIdle
    <3>3. CODE_FIRST \in Nat
      BY CodesAre
    <3> QED BY <3>2, <3>3
  <2> QED BY <2>1, <2>2
<1> QED BY <1>1, SchemeAlways, CodecsAlways, FaxAlways, PTL

LEMMA LzwTypes == LzwSafe => LzwTypeOK
<1> SUFFICES ASSUME LzwSafe PROVE LzwTypeOK
  OBVIOUS
<1>1. /\ sp \in Places /\ loc \in Places /\ code \in 0..CODE_MAX
      /\ dec_restart \in Nat /\ dec_restart <= taken /\ taken \in Nat
  BY DecodingIs
<1>2. dec_restart \in 0..StripSize
  <2>1. StripSize \in Nat /\ taken <= StripSize
    BY ClientIs, StripIs DEF LzwSafe
  <2> HIDE DEF StripSize
  <2> QED BY <1>1, <2>1
<1>3. \A s \in {sp, loc} : /\ s.nbits \in BITS_MIN..BITS_MAX
                           /\ s.free \in CODE_FIRST..CSIZE /\ s.old \in Before..CODE_MAX
  BY <1>1 DEF Places, Widths
<1>4. enc.nbits \in BITS_MIN..BITS_MAX /\ enc.free_ent \in CODE_FIRST..(CODE_MAX - 2)
  BY DEF LzwSafe, EncoderOK, EncoderRecords, Widths
<1> QED BY <1>1, <1>2, <1>3, <1>4 DEF LzwTypeOK

LEMMA FaxTypes == FaxInv => FaxTypeOK
<1> SUFFICES ASSUME FaxInv PROVE FaxTypeOK
  OBVIOUS
<1>1. enc3 \in EncoderType /\ stream \in Seq(FaxCodes)
  BY DEF FaxInv, FaxStripOK
<1>2. enc3.tag \in {"1D", "2D"} /\ enc3.k \in 1..3 /\ enc3.a0 \in 0..lastx
  BY <1>1 DEF EncoderType
<1>3. dec3.EOLcnt \in {0, 1} /\ dec3.bp \in 0..Len(stream)
  BY Stays
<1>4. /\ at \in RowType /\ at.pa <= Len(at.runs) /\ at.pb <= Len(dec3.refruns) + 2
      /\ dec3.refruns \in Seq(Nat)
  BY Stays DEF FaxInv, FaxRowOK, RefIs
<1>5. /\ at.runs \in Seq(Nat) /\ at.RunLength \in Nat /\ at.pa \in Nat
      /\ at.a0 \in Nat /\ at.pb \in Nat /\ at.b1 \in Nat
  BY <1>4 DEF RowType
<1>6. at.pa \in 0..Len(at.runs)
  <2>1. Len(at.runs) \in Nat
    BY <1>5
  <2> QED BY <1>4, <1>5, <2>1
<1>7. at.pb \in 0..(Len(dec3.refruns) + 2)
  <2>1. Len(dec3.refruns) \in Nat
    BY <1>4
  <2> QED BY <1>4, <1>5, <2>1
<1> QED BY <1>2, <1>3, <1>5, <1>6, <1>7 DEF FaxTypeOK

\* The values the variables of the codecs take (tif_packbits.c, tif_lzw.c, tif_fax3.c).
THEOREM TypesOfCodecs == Spec => []TypeOK
<1>1. SchemeOK /\ CodecsSafe /\ FaxSafe => TypeOK
  <2> SUFFICES ASSUME SchemeOK, CodecsSafe, FaxSafe PROVE TypeOK
    OBVIOUS
  <2>1. "packbits" \notin FaxSchemes /\ "lzw" \notin FaxSchemes
    BY DEF FaxSchemes
  <2>2. CASE scheme = "packbits"
    <3>1. PackBitsSafe
      BY <2>2 DEF CodecsSafe
    <3>2. PackBitsTypeOK
      BY <3>1, RawIs DEF PackBitsTypeOK, RawBytes, PackBitsStates
    <3> QED BY <2>1, <2>2, <3>1, <3>2 DEF TypeOK, PackBitsSafe, StripOK, ClientOK
  <2>3. CASE scheme = "lzw"
    <3>1. LzwSafe
      BY <2>3 DEF CodecsSafe
    <3> QED BY <2>1, <2>3, <3>1, LzwTypes DEF TypeOK, LzwSafe, StripOK, ClientOK
  <2>4. CASE scheme \in FaxSchemes
    <3>1. FaxInv
      BY <2>4 DEF FaxSafe
    <3> QED BY <2>1, <2>4, <3>1, FaxTypes DEF TypeOK, FaxInv, FaxStripOK, FaxClientOK
  <2> QED BY <2>2, <2>3, <2>4 DEF SchemeOK
<1> QED BY <1>1, SchemeAlways, CodecsAlways, FaxAlways, PTL
=============================================================================
