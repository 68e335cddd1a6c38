------------------------------ MODULE PackBits ------------------------------
(***************************************************************************)
(* The PackBits codec (tif_packbits.c).  A byte with the sign of a header  *)
(* says how many bytes follow, or how often the next one is repeated.      *)
(***************************************************************************)
EXTENDS Codec

CONSTANT Limit         \* 128: the longest run and the longest literal

ASSUME PackBitsAssumption == Limit \in Nat /\ Limit > 2 /\ RawSize > Limit + 3

VARIABLES
  raw,                 \* tif_rawdata: what is not yet flushed
  lastliteral,         \* the index of a header in it, or 0
  state,               \* BASE, LITERAL, RUN or LITERAL_RUN
  run,                 \* n bytes b are to be encoded
  bp                   \* how far the decoder has come in the stream

packbitsVars == <<raw, lastliteral, state, run, bp>>

NoRun == [n |-> 0, b |-> 0]
Bytes == -Limit..(Limit - 1)
LongRun == -(Limit - 1)
NOP == -Limit

PackBitsIdle == raw = <<>> /\ lastliteral = 0 /\ state = "BASE" /\ run = NoRun /\ bp = 0

\* PackBitsPreEncode; or a strip of another program.
PackBitsInit(strips, streams) ==
  /\ CodecInit
  /\ PackBitsIdle
  /\ \/ foreign = FALSE /\ data \in strips /\ stream = <<>> /\ pc = "row"
     \/ foreign = TRUE /\ data = <<>> /\ stream \in streams /\ pc = "idle"

(***************************************************************************)
(* The encoder.                                                            *)
(***************************************************************************)
\* PackBitsEncodeChunk: no run spans two rows.
\* mutant: the chunk is encoded as one piece
EndOfStrip == Len(data)
EndOfRow == Smaller(((given \div RowSize) + 1) * RowSize, Len(data))

RunLength(end) ==
  CHOOSE n \in 1..(end - given) :
    /\ \A i \in 1..n : data[given + i] = data[given + 1]
    /\ given + n = end \/ data[given + n + 1] # data[given + 1]

StartRow == /\ pc = "row"
            /\ given < Len(data)
            /\ state' = "BASE"
            /\ lastliteral' = 0
            /\ pc' = "run"
            /\ UNCHANGED <<stripVars, given, stream, clientVars, raw, run, bp>>

FindRun == /\ pc = "run"
           /\ LET n == RunLength(EndOfRow)
              IN  /\ run' = [n |-> n, b |-> data[given + 1]]
                  /\ given' = given + n
           /\ pc' = "again"
           /\ UNCHANGED <<stripVars, stream, clientVars, raw, lastliteral, state, bp>>

\* The last literal, which may still grow, stays in the buffer.
Slop == IF state \in {"LITERAL", "LITERAL_RUN"} THEN Len(raw) - lastliteral + 1 ELSE 0

Flush == /\ pc = "again"
         /\ IF Len(raw) + 2 >= RawSize
            THEN /\ stream' = stream \o SubSeq(raw, 1, Len(raw) - Slop)
                 /\ raw' = SubSeq(raw, Len(raw) - Slop + 1, Len(raw))
                 /\ lastliteral' = IF Slop > 0 THEN 1 ELSE lastliteral
            ELSE UNCHANGED <<stream, raw, lastliteral>>
         /\ pc' = "put"
         /\ UNCHANGED <<stripVars, given, clientVars, state, run, bp>>

AfterRun == IF given % RowSize = 0 \/ given = Len(data) THEN "row" ELSE "run"

PutRun == /\ pc = "put"
          /\ state \in {"BASE", "LITERAL", "RUN"}
          /\ run.n > 1
          /\ state' = IF state = "LITERAL" THEN "LITERAL_RUN" ELSE "RUN"
          /\ IF run.n > Limit
             THEN /\ raw' = raw \o <<LongRun, run.b>>
                  /\ run' = [run EXCEPT !.n = @ - Limit]
                  /\ pc' = "again"
             ELSE /\ raw' = raw \o <<-(run.n - 1), run.b>>
                  /\ run' = NoRun
                  /\ pc' = AfterRun
          /\ UNCHANGED <<stripVars, given, stream, clientVars, lastliteral, bp>>

StartLiteral == /\ pc = "put"
                /\ state \in {"BASE", "RUN"}
                /\ run.n = 1
                /\ lastliteral' = Len(raw) + 1
                /\ raw' = raw \o <<0, run.b>>
                /\ state' = "LITERAL"
                /\ run' = NoRun
                /\ pc' = AfterRun
                /\ UNCHANGED <<stripVars, given, stream, clientVars, bp>>

AsByte(n) == IF n < Limit THEN n ELSE n - 2 * Limit
LiteralFull(header) == header = Limit - 1
ExtendLiteral ==
  /\ pc = "put"
  /\ state = "LITERAL"
  /\ run.n = 1
  /\ raw' = Append([raw EXCEPT ![lastliteral] = AsByte(@ + 1)], run.b)
  /\ state' = IF LiteralFull(raw'[lastliteral]) THEN "BASE" ELSE "LITERAL"
  /\ run' = NoRun
  /\ pc' = AfterRun
  /\ UNCHANGED <<stripVars, given, stream, clientVars, lastliteral, bp>>

\* A run of two between two literals becomes part of one literal.
\* mutant: a literal with room for one more byte is extended by two
RoomForOne(header) == header < Limit - 1
RoomForRun(header) == header < Limit - 2
MergeLiterals ==
  /\ pc = "put"
  /\ state = "LITERAL_RUN"
  /\ IF run.n = 1 /\ raw[Len(raw) - 1] = -1 /\ RoomForRun(raw[lastliteral])
     THEN /\ raw' = [raw EXCEPT ![lastliteral] = AsByte(@ + 2), ![Len(raw) - 1] = raw[Len(raw)]]
          /\ state' = IF LiteralFull(raw'[lastliteral]) THEN "BASE" ELSE "LITERAL"
     ELSE state' = "RUN" /\ UNCHANGED raw
  /\ pc' = "again"
  /\ UNCHANGED <<stripVars, given, stream, clientVars, lastliteral, run, bp>>

\* The strip is complete: what is left in the buffer goes to the file.
PackBitsPostEncode == /\ pc = "row"
                      /\ given = Len(data)
                      /\ stream' = stream \o raw
                      /\ raw' = <<>>
                      /\ pc' = "idle"
                      /\ UNCHANGED <<stripVars, given, clientVars, lastliteral, state, run, bp>>

(***************************************************************************)
(* The decoder.  cc counts the bytes left; a run cut off by the end of the *)
(* data repeats whatever follows it in memory.                             *)
(***************************************************************************)
cc == Len(stream) - bp
ByteAt(i) == IF i <= Len(stream) THEN {stream[i]} ELSE Values

PackBitsAsk == /\ Ask(IF foreign THEN 1..StripSize
                      ELSE {n \in 1..StripSize : n % RowSize = 0 \/ n = StripSize})
               /\ UNCHANGED packbitsVars

More == pc = "call" /\ cc > 0 /\ occ > 0
Header == stream[bp + 1]
Decoded(bytes, n) ==
  /\ buf' = buf \o bytes
  /\ bp' = bp + n
  /\ UNCHANGED <<stripVars, given, stream, pc, asked, taken, ret, failed,
                 raw, lastliteral, state, run>>

\* mutant: a header that means nothing is looked at again
NopStays == 0
NopConsumed == 1
Skip == More /\ Header = NOP /\ Decoded(<<>>, NopConsumed) /\ UNCHANGED astray

\* mutant: the run is not cut to what is wanted
Uncut(n) == n
Cut(n) == IF occ < n THEN occ ELSE n
Repeat == /\ More
          /\ Header \in LongRun..-1
          /\ \E b \in ByteAt(bp + 2) :
               Decoded([i \in 1..Cut(1 - Header) |-> b], 2)
          /\ astray' = (astray \/ Len(buf') > asked)

Copy == /\ More
        /\ Header >= 0
        /\ LET n == Cut(Header + 1)
           IN  n < cc /\ Decoded(SubSeq(stream, bp + 2, bp + 1 + n), 1 + n)
        /\ astray' = (astray \/ Len(buf') > asked)

\* The call returns at the end of the data or of the request, or within a
\* literal that is cut off.
PackBitsReturn ==
  LET cutOff == More /\ Header >= 0 /\ Cut(Header + 1) >= cc
  IN  /\ pc = "call"
      /\ ~More \/ cutOff
      /\ Return(buf)
      /\ bp' = IF cutOff THEN bp + 1 ELSE bp
      /\ UNCHANGED <<stripVars, given, stream, asked, astray,
                     raw, lastliteral, state, run>>

PackBitsEncode == StartRow \/ FindRun \/ Flush \/ PutRun \/ StartLiteral \/ ExtendLiteral
                    \/ MergeLiterals \/ PackBitsPostEncode
PackBitsDecode == Skip \/ Repeat \/ Copy \/ PackBitsReturn
PackBitsNext == PackBitsEncode \/ PackBitsAsk \/ PackBitsDecode

-----------------------------------------------------------------------------
PackBitsTypeOK ==
  /\ raw \in Seq(Bytes \cup Values)
  /\ stream \in Seq(Bytes \cup Values)
  /\ lastliteral \in 0..RawSize
  /\ state \in {"BASE", "LITERAL", "RUN", "LITERAL_RUN"}
  /\ run.n \in 0..Len(data)
  /\ bp \in 0..(Len(stream) + 1)
=============================================================================
