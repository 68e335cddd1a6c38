--------------------------------- MODULE Lzw ---------------------------------
(***************************************************************************)
(* The LZW codec (tif_lzw.c).  The numbers of bits of a code are the real  *)
(* ones; a table of a few entries stands for the 4096, so MAXCODE is given *)
(* by a table of its own.  A code of the stream is a record of the code    *)
(* and of the width it was written at: read at another width, it can be    *)
(* any code.                                                               *)
(***************************************************************************)
EXTENDS Codec, FiniteSets

CONSTANTS MaxCodes,     \* <<MAXCODE(9), ..., MAXCODE(12)>>
          CSIZE,        \* the decoder's table
          CHECK_GAP,    \* enc_ratio check interval
          ForeignBits,  \* bound: bits of a strip of another program
          Requests      \* bound: the sizes of the client's buffers

BITS_MIN == 9
BITS_MAX == 12
MAXCODE(n) == MaxCodes[n - BITS_MIN + 1]
CODE_CLEAR == Cardinality(Values)
CODE_EOI == CODE_CLEAR + 1
CODE_FIRST == CODE_CLEAR + 2
CODE_MAX == MAXCODE(BITS_MAX)

ASSUME LzwAssumption ==
  /\ IsFiniteSet(Values) /\ Values = 0..(CODE_CLEAR - 1)
  /\ MaxCodes \in [1..4 -> Nat] /\ CSIZE \in Nat
  /\ MAXCODE(BITS_MIN) > CODE_FIRST
  /\ \A n \in (BITS_MIN + 1)..BITS_MAX : MAXCODE(n) > MAXCODE(n - 1)
  /\ CODE_MAX > MAXCODE(BITS_MAX - 1) + 2
  /\ CSIZE > CODE_MAX
  /\ CHECK_GAP \in Nat \ {0} /\ ForeignBits \in Nat /\ Requests \subseteq Nat \ {0}
  /\ RawSize > 7

NoCode == -1
NULL == -2
Before == -1            \* &dec_codetab[-1]

VARIABLES
  enc,                  \* the encoder: the fields of LZWCodecState and tif_rawcp
  hash,                 \* enc_hashtab: from a prefix code and a byte to a code
  sp,                   \* the decoder's lzw_nbits, dec_free_entp, dec_oldcodep and
                        \* tif_rawcp, as the last call has left them
  loc,                  \* the same in the local variables of LZWDecode
  dec_codetab, dec_restart, dec_codep, dec_bitsleft,
  code,
  misread               \* history: a code was read at another width

lzwVars == <<enc, hash, sp, loc, dec_codetab, dec_restart, dec_codep, dec_bitsleft,
             code, misread>>
encoderVars == <<enc, hash>>
decoderVars == <<sp, loc, dec_codetab, dec_restart, dec_codep, dec_bitsleft, code, misread>>

\* LZWPreEncode.  outbits counts the bits of the stream.
StartEncoder == [nbits |-> BITS_MIN, free_ent |-> CODE_FIRST, oldcode |-> NoCode,
                 nextbits |-> 0, op |-> 0, incount |-> 0, outcount |-> 0,
                 checkpoint |-> CHECK_GAP, ratio |-> 0, outbits |-> 0]
Blank == [next |-> NULL, length |-> 0, value |-> 0, firstchar |-> 0]
StartTable == [i \in 0..(CSIZE - 1) |->
                 IF i \in Values THEN [next |-> NULL, length |-> 1, value |-> i, firstchar |-> i]
                                 ELSE Blank]
StartDecoder == [nbits |-> BITS_MIN, free |-> CODE_FIRST, old |-> Before, at |-> 0]

LzwIdle == /\ enc = StartEncoder /\ hash = <<>>
           /\ sp = StartDecoder /\ loc = StartDecoder
           /\ dec_codetab = StartTable
           /\ dec_restart = 0 /\ dec_codep = NULL
           /\ dec_bitsleft = 0
           /\ code = 0
           /\ misread = FALSE

LzwInit(strips) == /\ CodecInit
           /\ LzwIdle
           /\ stream = <<>>
           /\ \/ foreign = FALSE /\ data \in strips /\ pc = "encode"
              \/ foreign = TRUE /\ data = <<>> /\ pc = "predecode"

(***************************************************************************)
(* The encoder.                                                            *)
(***************************************************************************)
\* PutNextCode: one whole byte, or two, go to the buffer.
Put(e) ==
  LET bits == e.nextbits + e.nbits
  IN  [e EXCEPT !.nextbits = bits % 8, !.op = @ + (bits \div 8),
                !.outcount = @ + e.nbits, !.outbits = @ + e.nbits]
Written(e, c) == [code |-> c, width |-> e.nbits]

\* A code and a Clear code must find room before the buffer is flushed again.
\* mutant: it is flushed when it is full
RoomForNone(e) == IF e.op > RawSize - 1 THEN [e EXCEPT !.op = 0] ELSE e
Room(e) == IF e.op > RawSize - 1 - 4 THEN [e EXCEPT !.op = 0] ELSE e

\* cl_hash and what goes with it; the Clear code is put at the width so far.
Cleared(e) == [Put([e EXCEPT !.outcount = 0]) EXCEPT
                 !.ratio = 0, !.incount = 0, !.free_ent = CODE_FIRST, !.nbits = BITS_MIN]

Encode(e, h, codes) ==
  /\ given' = given + 1
  /\ enc' = e
  /\ hash' = h
  /\ stream' = stream \o codes
  /\ UNCHANGED <<stripVars, pc, clientVars, decoderVars>>

Byte == data[given + 1]
Encoding == pc = "encode" /\ given < Len(data)

FirstByte ==
  /\ Encoding
  /\ enc.oldcode = NoCode
  /\ Encode([Put(enc) EXCEPT !.oldcode = Byte, !.incount = @ + 1],
            hash, <<Written(enc, CODE_CLEAR)>>)

Known == <<enc.oldcode, Byte>> \in DOMAIN hash
KnownString ==
  /\ Encoding
  /\ enc.oldcode # NoCode
  /\ Known
  /\ Encode([enc EXCEPT !.oldcode = hash[<<enc.oldcode, Byte>>], !.incount = @ + 1], hash, <<>>)

\* The code of the longest known string is put, and one for a longer string
\* enters the table: it fills the table, or needs a wider code, or it is time to
\* see whether the table is still of use.
\* mutants: the table is left to fill up; a code is widened one entry late
FullNever(e) == FALSE
Full(e) == e.free_ent = CODE_MAX - 1
TooBigLate(e) == e.free_ent > MAXCODE(e.nbits) + 1
TooBig(e) == e.free_ent > MAXCODE(e.nbits)
Ratio(e) == (e.incount * 256) \div e.outcount

NewString ==
  /\ Encoding
  /\ enc.oldcode # NoCode
  /\ ~Known
  /\ LET room == [Room(enc) EXCEPT !.incount = @ + 1]
         put == [Put(room) EXCEPT !.oldcode = Byte, !.free_ent = @ + 1]
         due == put.incount >= put.checkpoint
         checked == [put EXCEPT !.checkpoint = put.incount + CHECK_GAP]
         string == Written(enc, enc.oldcode)
         longer == [s \in DOMAIN hash \cup {<<enc.oldcode, Byte>>} |->
                      IF s \in DOMAIN hash THEN hash[s] ELSE enc.free_ent]
     IN  \/ /\ Full(put)
            /\ Encode(Cleared(put), <<>>, <<string, Written(put, CODE_CLEAR)>>)
         \/ /\ ~Full(put) /\ TooBig(put)
            /\ Encode([put EXCEPT !.nbits = @ + 1], longer, <<string>>)
         \/ /\ ~Full(put) /\ ~TooBig(put) /\ due /\ Ratio(put) <= put.ratio
            /\ Encode(Cleared(checked), <<>>, <<string, Written(put, CODE_CLEAR)>>)
         \/ /\ ~Full(put) /\ ~TooBig(put) /\ due /\ Ratio(put) > put.ratio
            /\ Encode([checked EXCEPT !.ratio = Ratio(put)], longer, <<string>>)
         \/ /\ ~Full(put) /\ ~TooBig(put) /\ ~due
            /\ Encode(put, longer, <<string>>)

\* The last string and the end of the information, at the width so far; the
\* bits that are left are put in a byte of their own.
LZWPostEncode ==
  /\ pc = "encode"
  /\ given = Len(data)
  /\ LET last == Put(Room(enc))
         eoi == Put(last)
     IN  /\ enc' = [eoi EXCEPT !.oldcode = NoCode,
                               !.op = @ + (IF eoi.nextbits > 0 THEN 1 ELSE 0)]
         /\ stream' = stream \o <<Written(enc, enc.oldcode), Written(last, CODE_EOI)>>
  /\ pc' = "predecode"
  /\ UNCHANGED <<stripVars, given, clientVars, hash, decoderVars>>

(***************************************************************************)
(* The decoder.                                                            *)
(***************************************************************************)
LZWPreDecode ==
  /\ pc = "predecode"
  /\ pc' = "idle"
  /\ sp' = StartDecoder
  /\ dec_codetab' = StartTable
  /\ dec_restart' = 0
  /\ dec_bitsleft' = IF foreign THEN ForeignBits ELSE ((enc.outbits + 7) \div 8) * 8
  /\ UNCHANGED <<stripVars, given, stream, clientVars, encoderVars, loc, dec_codep, code, misread>>

LzwAsk == Ask(Requests) /\ UNCHANGED lzwVars

\* The last entries, n at most, of the string that ends with an entry, and the last
\* n bytes of it: the loops over next put them in backwards.  The chain of an
\* entry may go in a circle.
Chain(table, c, n) ==
  LET chain[k \in 0..n] ==
        [p \in {NULL} \cup (0..(CSIZE - 1)) |->
           IF p = NULL \/ k = 0 THEN <<>> ELSE Append(chain[k - 1][table[p].next], p)]
  IN  chain[n][c]
Back(table, path, n) ==
  [i \in 1..n |-> IF i + Len(path) > n THEN table[path[i + Len(path) - n]].value ELSE -1]

\* The rest of a string that did not fit into the buffer of the call before.
\* mutant: dec_restart is not moved on when the rest does not fit either
RestartKept == dec_restart
RestartMoved == dec_restart + asked
Resume ==
  LET residue == dec_codetab[dec_codep].length - dec_restart
      path == Chain(dec_codetab, dec_codep, residue)
      before == SubSeq(path, 1, Len(path) - (residue - asked))
  IN  /\ pc = "call"
      /\ dec_restart > 0
      /\ astray' = (astray \/ residue < 1)
      /\ IF residue > asked
         THEN /\ Return(Back(dec_codetab, before, asked))
              /\ dec_restart' = RestartMoved
              /\ UNCHANGED loc
         ELSE /\ buf' = Back(dec_codetab, path, residue)
              /\ dec_restart' = 0
              /\ loc' = sp
              /\ pc' = "decode"
              /\ UNCHANGED <<taken, ret, failed>>
      /\ UNCHANGED <<stripVars, given, stream, asked, encoderVars, sp, dec_codetab, dec_codep,
                     dec_bitsleft, code, misread>>

Start == /\ pc = "call"
         /\ dec_restart = 0
         /\ loc' = sp
         /\ pc' = "decode"
         /\ UNCHANGED <<stripVars, given, stream, clientVars, encoderVars, sp, dec_codetab,
                        dec_restart, dec_codep, dec_bitsleft, code, misread>>

\* NextCode.  What another program has written is decided when it is first read.
AnyCode == 0..MAXCODE(loc.nbits)
ForeignCodes == AnyCode \cap {0, CODE_CLEAR, CODE_EOI, CODE_FIRST, loc.free, loc.free + 1}

NextCode ==
  /\ pc = "cleared" \/ (pc = "decode" /\ occ > 0)
  /\ IF dec_bitsleft < loc.nbits
     THEN code' = CODE_EOI /\ UNCHANGED <<stream, loc, dec_bitsleft, misread>>
     ELSE /\ IF loc.at = Len(stream) /\ foreign
             THEN /\ code' \in ForeignCodes
                  /\ stream' = Append(stream, [code |-> code', width |-> loc.nbits])
                  /\ UNCHANGED misread
             ELSE /\ UNCHANGED stream
                  /\ IF loc.at < Len(stream) /\ stream[loc.at + 1].width = loc.nbits
                     THEN code' = stream[loc.at + 1].code /\ UNCHANGED misread
                     ELSE code' \in AnyCode /\ misread' = TRUE
          /\ loc' = [loc EXCEPT !.at = @ + 1]
          /\ dec_bitsleft' = dec_bitsleft - loc.nbits
  /\ pc' = IF pc = "cleared" THEN "first" ELSE "code"
  /\ UNCHANGED <<stripVars, given, clientVars, encoderVars, sp, dec_codetab, dec_restart,
                 dec_codep>>

\* The call ends with the local variables stored, or at an error without.
Leave(l, bytes) == sp' = l /\ loc' = l /\ Return(bytes)
Fail == Return(buf) /\ UNCHANGED <<sp, loc>>
Go(l, bytes) == /\ buf' = buf \o bytes
                /\ loc' = l
                /\ pc' = "decode"
                /\ UNCHANGED <<taken, ret, failed, sp>>

Decoding == UNCHANGED <<stripVars, given, stream, asked, astray, encoderVars, dec_bitsleft,
                        code, misread>>

\* mutant: the strings of the old table are not blanked
TableKept == dec_codetab
ClearTable == StartTable
Clear == /\ pc \in {"code", "first"}
         /\ code = CODE_CLEAR
         /\ dec_codetab' = ClearTable
         /\ loc' = [loc EXCEPT !.free = CODE_FIRST, !.nbits = BITS_MIN]
         /\ pc' = "cleared"
         /\ UNCHANGED <<buf, taken, ret, failed, sp, dec_restart, dec_codep>>
         /\ Decoding

EndOfInformation == /\ pc \in {"code", "first"}
                    /\ code = CODE_EOI
                    /\ Leave(loc, buf)
                    /\ UNCHANGED <<dec_codetab, dec_restart, dec_codep>>
                    /\ Decoding

Satisfied == /\ pc = "decode"
             /\ occ = 0
             /\ Leave(loc, buf)
             /\ UNCHANGED <<dec_codetab, dec_restart, dec_codep>>
             /\ Decoding

FirstString == /\ pc = "first"
               /\ code \notin {CODE_CLEAR, CODE_EOI}
               /\ IF code > CODE_CLEAR THEN Fail
                                       ELSE Go([loc EXCEPT !.old = code], <<code>>)
               /\ UNCHANGED <<dec_codetab, dec_restart, dec_codep>>
               /\ Decoding

\* mutant: a code that is used before it is in the table is taken for an old one
BeforeOrAt(c) == c <= loc.free
InTable(c) == c < loc.free
NewEntry ==
  LET first == dec_codetab[loc.old].firstchar
  IN  [next |-> loc.old, length |-> dec_codetab[loc.old].length + 1, firstchar |-> first,
       value |-> IF InTable(code) THEN dec_codetab[code].firstchar ELSE first]
\* mutant: the decoder widens its codes when the encoder does
WidenAt(n) == MAXCODE(n)
WidenBefore(n) == MAXCODE(n) - 1
Entered == [loc EXCEPT !.free = @ + 1, !.old = code,
                       !.nbits = IF loc.free + 1 > WidenBefore(@) /\ @ < BITS_MAX
                                 THEN @ + 1 ELSE @]

Other == pc = "code" /\ code \notin {CODE_CLEAR, CODE_EOI}
Corrupted == loc.free >= CSIZE \/ loc.old = Before

CorruptedTable == /\ Other
                  /\ Corrupted
                  /\ Fail
                  /\ UNCHANGED <<dec_codetab, dec_restart, dec_codep>>
                  /\ Decoding

EnterString == Other /\ ~Corrupted /\ dec_codetab' = [dec_codetab EXCEPT ![loc.free] = NewEntry]

Literal == /\ EnterString
           /\ code < CODE_CLEAR
           /\ Go(Entered, <<code>>)
           /\ UNCHANGED <<dec_restart, dec_codep>>
           /\ Decoding

StringOf(c) == dec_codetab'[c]
UnknownString == /\ EnterString
                 /\ code > CODE_EOI
                 /\ StringOf(code).length = 0
                 /\ Fail
                 /\ UNCHANGED <<dec_restart, dec_codep>>
                 /\ Decoding

\* A chain that does not end where the length says leaves the call short.
Continues(table, path) == table[path[1]].next # NULL
WholeString ==
  LET len == StringOf(code).length
      path == Chain(dec_codetab', code, len)
  IN  /\ EnterString
      /\ code > CODE_EOI
      /\ len \in 1..occ
      /\ IF Len(path) = len /\ Continues(dec_codetab', path)
         THEN Leave(Entered, buf)
         ELSE Go(Entered, Back(dec_codetab', path, len))
      /\ UNCHANGED <<dec_restart, dec_codep>>
      /\ Decoding

\* The nearest entry of a chain, before its last one, whose string fits in n bytes.
Fitting(table, c, n) ==
  LET path == Chain(table, c, CSIZE)
      fits == {k \in 1..(Len(path) - 1) : table[path[k]].length <= n}
  IN  IF fits = {} THEN NULL ELSE path[CHOOSE k \in fits : \A m \in fits : m <= k]

\* In a chain that goes in a circle of long strings the search would not end.
Endless(table, c, n) ==
  Len(Chain(table, c, CSIZE)) = CSIZE /\ Fitting(table, c, n) = NULL

StringTooLong ==
  LET fitting == Fitting(dec_codetab', code, occ)
      path == Chain(dec_codetab', fitting, occ)
  IN  /\ EnterString
      /\ code > CODE_EOI
      /\ StringOf(code).length > occ
      /\ ~Endless(dec_codetab', code, occ)
      /\ dec_codep' = code
      /\ dec_restart' = IF fitting = NULL THEN dec_restart ELSE occ
      /\ Leave(Entered, IF Len(path) < occ THEN buf
                                           ELSE buf \o Back(dec_codetab', path, occ))
      /\ Decoding

LzwEncode == FirstByte \/ KnownString \/ NewString \/ LZWPostEncode
LzwDecode == \/ Resume \/ Start \/ NextCode \/ Clear \/ EndOfInformation
             \/ Satisfied \/ FirstString \/ CorruptedTable \/ Literal
             \/ UnknownString \/ WholeString \/ StringTooLong
LzwNext == LzwEncode \/ LZWPreDecode \/ LzwAsk \/ LzwDecode

-----------------------------------------------------------------------------
LzwTypeOK ==
  /\ enc.nbits \in BITS_MIN..BITS_MAX
  /\ enc.free_ent \in CODE_FIRST..(CODE_MAX - 2)
  /\ \A s \in {sp, loc} : /\ s.nbits \in BITS_MIN..BITS_MAX
                          /\ s.free \in CODE_FIRST..CSIZE
                          /\ s.old \in Before..CODE_MAX
  /\ dec_restart \in 0..StripSize
  /\ code \in 0..CODE_MAX
=============================================================================
