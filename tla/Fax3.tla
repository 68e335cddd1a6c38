-------------------------------- MODULE Fax3 --------------------------------
(***************************************************************************)
(* The fax codecs of libtiff (tif_fax3.c, tif_fax3.h): Modified Huffman    *)
(* rows (rle), Group 3 with one and with two dimensions (g3, g32d) and     *)
(* Group 4 (g4).  A row is coded by the lengths of its white and black     *)
(* runs, or by where they end compared with the row above.                 *)
(*                                                                         *)
(* The stream is a sequence of codes; how their bits are packed is left    *)
(* out.  Part of a stream can be damaged: from a wrong bit on codes are    *)
(* not read as they were written, until the decoder is by chance again at  *)
(* the beginning of one.                                                   *)
(***************************************************************************)
EXTENDS Codec, FiniteSets

CONSTANTS MakeUp,       \* 64: a run of that length or more takes a make-up code
          LongMakeUp,   \* 2560: the longest make-up code
          FaxRows,      \* bound: the rows of strips of three rows, of white and black
          Damage        \* bound: the number of codes of a damaged part

ASSUME FaxAssumption ==
  /\ MakeUp \in Nat \ {0} /\ LongMakeUp \in Nat /\ LongMakeUp % MakeUp = 0 /\ LongMakeUp > 0
  /\ FaxRows \subseteq [1..RowSize -> {0, 1}]
  /\ Damage \in Nat

VARIABLES
  enc3,       \* the encoder: tag, k, maxk and refline of Fax3CodecState, and
              \* a0 and the colour of the next span, or whether a row begins
  dec3,       \* the decoder's part of Fax3CodecState, and how many codes it has
              \* read; history: refno, the row that refruns is known to hold (or
              \* -1), and seen, the rows whose EOL it has begun with
  at,         \* the local variables of the row being decoded; history: no, the
              \* row it is known to be (or -1)
  damaged,    \* the codes that are not read as they were written
  whole       \* the stream has arrived as it was sent

faxVars == <<enc3, dec3, at, damaged, whole>>

FaxSchemes == {"rle", "g3", "g32d", "g4"}
White == 0
Black == 1
Reach == 3              \* the farthest that a vertical code goes
lastx == RowSize
Row(r) == SubSeq(data, (r - 1) * RowSize + 1, r * RowSize)

PassCode == [type |-> "pass"]
HorizCode == [type |-> "horiz"]
VertCode(n) == [type |-> "vert", n |-> n]
TermCode(c, n) == [type |-> "term", c |-> c, n |-> n]
MakeUpCode(c, n) == [type |-> "makeup", c |-> c, n |-> n]
ExtCode == [type |-> "ext"]
NullCode == [type |-> "null"]
EolCode(is1D, r) == [type |-> "eol", is1D |-> is1D, n |-> r]

\* The places of the row in which the codec puts its runs; the rest is zero.
Run(runs, i) == IF i < Len(runs) THEN runs[i + 1] ELSE 0
SetRun(runs, i, n) == IF i < Len(runs) THEN [runs EXCEPT ![i + 1] = n] ELSE Append(runs, n)
SumRuns(runs, i, j) ==
  LET sum[k \in i..j] == IF k = i THEN 0 ELSE sum[k - 1] + Run(runs, k - 1)
  IN  sum[j]

StartFaxRow == [a0 |-> 0, b1 |-> 0, RunLength |-> 0, pa |-> 0, pb |-> 0, runs |-> <<>>,
              left |-> 0, no |-> -1]
\* Fax3PreEncode.
StartFaxEncoder(k) == [tag |-> "1D", k |-> k - 1, maxk |-> k,
                     refline |-> [i \in 1..RowSize |-> White],
                     a0 |-> 0, color |-> White, first |-> TRUE]
\* Fax3SetupState, Fax3PreDecode: the reference line is white.
StartFaxDecoder == [EOLcnt |-> 0, line |-> 0, curruns |-> <<>>, refruns |-> <<lastx, 0>>,
                  bp |-> 0, refno |-> 0, seen |-> {}]

FaxIdle == /\ enc3 = StartFaxEncoder(2) /\ dec3 = StartFaxDecoder /\ at = StartFaxRow
           /\ damaged = {} /\ whole = TRUE

\* Bound: with g4 every pair of rows of which the first begins white, and with each
\* scheme a few strips of three rows.
Pairs == {s \in [1..(2 * RowSize) -> {White, Black}] : s[1] = White}
ShortStrips == {a \o b \o a : a \in FaxRows, b \in FaxRows}
FaxInit == /\ CodecInit
           /\ foreign = FALSE
           /\ data \in ShortStrips \cup (IF scheme = "g4" THEN Pairs ELSE {})
           /\ stream = <<>>
           /\ pc = "line"
           /\ \E k \in IF scheme = "g32d" THEN {2, 4} ELSE {2} : enc3 = StartFaxEncoder(k)
           /\ dec3 = StartFaxDecoder /\ at = StartFaxRow
           /\ damaged = {} /\ whole = TRUE

(***************************************************************************)
(* The encoder.                                                            *)
(***************************************************************************)
\* putspan: make-up codes, and a code for the rest.
PutSpan(span, c) ==
  LET long == IF span < LongMakeUp + MakeUp THEN 0 ELSE (span - MakeUp) \div LongMakeUp
      rest == span - long * LongMakeUp
  IN  [i \in 1..long |-> MakeUpCode(c, LongMakeUp)]
        \o (IF rest < MakeUp THEN <<>> ELSE <<MakeUpCode(c, rest - (rest % MakeUp))>>)
        \o <<TermCode(c, rest % MakeUp)>>

\* finddiff: where the color ends.
FindDiff(row, s, c) == Min({i \in s..lastx : i = lastx \/ row[i + 1] # c})
FindDiff2(row, s) == IF s < lastx THEN FindDiff(row, s, row[s + 1]) ELSE lastx

ThisRow == Row((given \div RowSize) + 1)
Coding2D == scheme = "g4" \/ (scheme = "g32d" /\ enc3.tag = "2D")
HasEol == scheme \in {"g3", "g32d"}

\* Fax3PutEOL, with the tag of the row.
StartLine ==
  /\ pc = "line"
  /\ given < Len(data)
  /\ stream' = IF HasEol
               THEN Append(stream, EolCode(enc3.tag = "1D", (given \div RowSize) + 1))
               ELSE stream
  /\ enc3' = [enc3 EXCEPT !.a0 = 0, !.color = White, !.first = TRUE]
  /\ pc' = IF Coding2D THEN "encode2D" ELSE "encode1D"
  /\ UNCHANGED <<stripVars, given, clientVars, dec3, at, damaged, whole>>

\* Fax3Encode, Fax4Encode at the end of a row: every maxk-th row of g32d has one
\* dimension, and the others are compared with the row above.
NextTag(e) ==
  LET k == IF e.tag = "2D" THEN e.k - 1 ELSE e.k
  IN  IF scheme = "g4" THEN [e EXCEPT !.refline = ThisRow]
      ELSE IF scheme # "g32d" THEN e
      ELSE IF k = 0 THEN [e EXCEPT !.tag = "1D", !.k = e.maxk - 1]
                    ELSE [e EXCEPT !.tag = "2D", !.k = k, !.refline = ThisRow]

PutCodes(codes, e) ==
  /\ stream' = stream \o codes
  /\ IF e.a0 = lastx
     THEN enc3' = NextTag(e) /\ given' = given + RowSize /\ pc' = "line"
     ELSE enc3' = e /\ UNCHANGED <<given, pc>>
  /\ UNCHANGED <<stripVars, clientVars, dec3, at, damaged, whole>>

Encode1DRow ==
  /\ pc = "encode1D"
  /\ LET end == FindDiff(ThisRow, enc3.a0, enc3.color)
     IN  PutCodes(PutSpan(end - enc3.a0, enc3.color),
                  [enc3 EXCEPT !.a0 = end, !.color = 1 - @])

\* The next change of this row, and the next change of the reference line to the
\* other color than that at a0.
\* mutant: any change of the reference line will do
A0Color == IF enc3.first THEN White ELSE ThisRow[enc3.a0 + 1]
A1 == FindDiff(ThisRow, enc3.a0, A0Color)
AnyB1 == FindDiff(enc3.refline, enc3.a0, A0Color)
B1 == IF enc3.first THEN FindDiff(enc3.refline, 0, White)
      ELSE FindDiff(enc3.refline, FindDiff(enc3.refline, enc3.a0, 1 - A0Color), A0Color)
B2 == FindDiff2(enc3.refline, B1)
A2 == FindDiff2(ThisRow, A1)

PassMode == /\ pc = "encode2D"
            /\ B2 < A1
            /\ PutCodes(<<PassCode>>, [enc3 EXCEPT !.a0 = B2, !.first = FALSE])

VerticalMode == /\ pc = "encode2D"
                /\ B2 >= A1
                /\ A1 - B1 \in -Reach..Reach
                /\ PutCodes(<<VertCode(A1 - B1)>>, [enc3 EXCEPT !.a0 = A1, !.first = FALSE])

HorizontalMode ==
  /\ pc = "encode2D"
  /\ B2 >= A1
  /\ A1 - B1 \notin -Reach..Reach
  /\ PutCodes(<<HorizCode>> \o PutSpan(A1 - enc3.a0, A0Color) \o PutSpan(A2 - A1, 1 - A0Color),
              [enc3 EXCEPT !.a0 = A2, !.first = FALSE])

\* Fax3PostEncode; Fax4PostEncode puts the end-of-block code, two EOLs.
Eofb == <<EolCode(FALSE, 0), EolCode(FALSE, 0)>>
FaxPostEncode ==
  /\ pc = "line"
  /\ given = Len(data)
  /\ stream' = IF scheme = "g4" THEN stream \o Eofb ELSE stream
  /\ enc3' = StartFaxEncoder(2)
  /\ pc' = "sent"
  /\ UNCHANGED <<stripVars, given, clientVars, dec3, at, damaged, whole>>

\* What becomes of the stream until it is read: nothing, or some codes of it are
\* damaged, or it is cut off, perhaps within a code.
Arrive ==
  /\ pc = "sent"
  /\ \/ UNCHANGED <<stream, damaged, whole>>
     \/ /\ data \in ShortStrips
        /\ \E i, j \in 1..Len(stream) : i <= j /\ j < i + Damage /\ damaged' = i..j
        /\ whole' = FALSE
        /\ UNCHANGED stream
     \/ /\ data \in ShortStrips
        /\ \E i \in 1..(Len(stream) - 1) : /\ stream' = SubSeq(stream, 1, i)
                                           /\ damaged' \in {{}, {i}}
        /\ whole' = FALSE
  /\ pc' = "idle"
  /\ UNCHANGED <<stripVars, given, clientVars, enc3, dec3, at>>

(***************************************************************************)
(* The decoder.  An action reads one code, or does what is done between    *)
(* two rows.                                                               *)
(***************************************************************************)
\* SETVALUE: a run is complete.
SetValue(a, x) == [a EXCEPT !.runs = SetRun(@, a.pa, a.RunLength + x), !.pa = @ + 1,
                            !.a0 = @ + x, !.RunLength = 0]

\* CHECK_b1: b1 is moved beyond a0, over two runs at a time.
CheckB1(a) ==
  LET b1(m) == a.b1 + SumRuns(dec3.refruns, a.pb, a.pb + 2 * m)
      n == Min({m \in 0..Len(dec3.refruns) : b1(m) > a.a0 \/ b1(m) >= lastx})
  IN  IF a.pa = 0 THEN a ELSE [a EXCEPT !.b1 = b1(n), !.pb = @ + 2 * n]
NextRef(a) == [a EXCEPT !.b1 = @ + Run(dec3.refruns, a.pb), !.pb = @ + 1]
PreviousRef(a) == [a EXCEPT !.b1 = @ - Run(dec3.refruns, a.pb - 1), !.pb = @ - 1]

FaxAsk == /\ Ask({RowSize, StripSize - taken} \ {0})
          /\ scheme \in FaxSchemes
          /\ UNCHANGED faxVars

IsEol(i) == i \notin damaged /\ stream[i].type = "eol"
AtEnd == dec3.bp = Len(stream)
NewRow(no) == [StartFaxRow EXCEPT !.b1 = Run(dec3.refruns, 0), !.pb = 1,
                                  !.runs = dec3.curruns, !.no = no]
NextNo == IF dec3.refno >= 0 THEN dec3.refno + 1 ELSE -1
FaxStep(newAt, dec) ==
  /\ at' = newAt
  /\ dec3' = dec
  /\ UNCHANGED <<stripVars, given, stream, clientVars, enc3, damaged, whole>>

BeginRow == /\ pc = "call" /\ occ > 0
            /\ ~HasEol
            /\ pc' = IF scheme = "rle" THEN "1D" ELSE "2D"
            /\ FaxStep(NewRow(NextNo), dec3)

\* SYNC_EOL: the row begins after the next EOL, or after the one that has ended the
\* last row.  A damaged code may look like one.
\* mutant: an EOL that has ended a row does not begin the next one
Candidates(eolcnt) ==
  IF eolcnt = 1 THEN {dec3.bp}
  ELSE {i \in (dec3.bp + 1)..Len(stream) :
          /\ IsEol(i) \/ i \in damaged
          /\ \A j \in (dec3.bp + 1)..(i - 1) : ~IsEol(j)}
NextEol == Candidates(0)
EolToUse == Candidates(dec3.EOLcnt)
Tags(i) == IF scheme = "g3" THEN {TRUE} ELSE IF IsEol(i) THEN {stream[i].is1D} ELSE BOOLEAN
Sync ==
  /\ pc = "call" /\ occ > 0
  /\ HasEol
  /\ \E i \in EolToUse : \E is1D \in Tags(i) :
       /\ pc' = IF is1D THEN "1D" ELSE "2D"
       /\ LET known == IsEol(i) /\ (is1D \/ stream[i].n = NextNo)
          IN  FaxStep(NewRow(IF known THEN stream[i].n ELSE -1),
                      [dec3 EXCEPT !.EOLcnt = 0, !.bp = i,
                                   !.seen = IF IsEol(i) THEN @ \cup {stream[i].n} ELSE @])

SyncFails ==
  /\ pc = "call" /\ occ > 0
  /\ HasEol
  /\ IF dec3.EOLcnt = 1 THEN AtEnd /\ dec3.bp \in damaged
     ELSE \A i \in (dec3.bp + 1)..Len(stream) : ~IsEol(i)
  /\ pc' = "eof"
  /\ FaxStep(NewRow(-1), [dec3 EXCEPT !.bp = Len(stream)])

\* LOOKUP8, LOOKUP16: a damaged code can be anything.  Bound: a code of another table
\* has no meaning.
Lengths == {n \in 0..lastx : n < MakeUp}
MakeUps == {n \in 1..LongMakeUp : n % MakeUp = 0}
SpanTable == [c \in {White, Black} |-> {TermCode(c, n) : n \in Lengths}
                \cup {MakeUpCode(c, n) : n \in MakeUps} \cup {EolCode(TRUE, 0), NullCode}]
MainTable == {PassCode, HorizCode, ExtCode, EolCode(TRUE, 0)}
               \cup {VertCode(n) : n \in -Reach..Reach}
IsOf(table, i) == i \notin damaged /\ stream[i] \in table
Readings(table) ==
  LET i == dec3.bp + 1
  IN  IF i \in damaged THEN table
      ELSE IF stream[i] \in table \/ IsEol(i) THEN {stream[i]}
      ELSE {IF pc = "2D" THEN ExtCode ELSE NullCode}
Lookup(table) ==
  IF AtEnd THEN {}
  ELSE {[code |-> code, at |-> IF IsOf(table, dec3.bp + 1) THEN at ELSE [at EXCEPT !.no = -1]] :
          code \in Readings(table)}
Consumed(code) == [dec3 EXCEPT !.bp = IF code = NullCode THEN @ ELSE @ + 1]

\* Runs are white and black in turn: the next one is black if pa is odd.
Color(a) == a.pa % 2
MakeUpRead(code, a) ==
  /\ code.type = "makeup"
  /\ UNCHANGED pc
  /\ FaxStep([a EXCEPT !.a0 = @ + code.n, !.RunLength = @ + code.n], Consumed(code))
RowDone(a, dec) == pc' = "done" /\ FaxStep(a, dec)

\* EXPAND1D.  Two runs of no length are left out.
WithoutEmpty(a) ==
  IF a.pa % 2 = 0 /\ a.runs[a.pa] = 0 /\ a.runs[a.pa - 1] = 0
  THEN [a EXCEPT !.pa = @ - 2] ELSE a
Expand1D(code, a) ==
  \/ MakeUpRead(code, a)
  \/ /\ code.type = "term"
     /\ \E b \in {SetValue(a, code.n)} :
          IF b.a0 >= lastx THEN RowDone(b, Consumed(code))
          ELSE UNCHANGED pc /\ FaxStep(WithoutEmpty(b), Consumed(code))
  \/ code.type = "eol" /\ RowDone(a, [Consumed(code) EXCEPT !.EOLcnt = 1])
  \/ code.type = "null" /\ RowDone(a, dec3)
Span1D == pc = "1D" /\ \E l \in Lookup(SpanTable[Color(at)]) : Expand1D(l.code, l.at)

\* EXPAND2D.
Next2D(a, dec) == pc' = (IF a.a0 < lastx THEN "2D" ELSE "done") /\ FaxStep(a, dec)
Pass(a) == [a EXCEPT !.RunLength = @ + a.b1 - a.a0, !.a0 = a.b1]
Change(a, n) == SetValue(a, a.b1 - a.a0 + n)
\* A run must not be negative, and only the first may be empty.
BadVL(a, n) == a.b1 + n < a.a0 \/ (a.b1 + n = a.a0 /\ a.pa # 0)
Vertical(code, a) ==
  \/ code.n >= 0 /\ Next2D(NextRef(Change(a, code.n)), Consumed(code))
  \/ code.n < 0 /\ ~BadVL(a, code.n) /\ Next2D(PreviousRef(Change(a, code.n)), Consumed(code))
  \/ code.n < 0 /\ BadVL(a, code.n) /\ RowDone(a, Consumed(code))
\* At an EOL the rest of the row is a run; the data may end within that EOL.
Rest(a) == [a EXCEPT !.runs = SetRun(@, a.pa, lastx - a.a0), !.pa = @ + 1]
Expand2D(code, a) ==
  \/ /\ code.type = "pass"
     /\ \E b \in {NextRef(CheckB1(a))} : Next2D(NextRef(Pass(b)), Consumed(code))
  \/ code.type = "horiz" /\ pc' = "horiz" /\ FaxStep([a EXCEPT !.left = 2], Consumed(code))
  \/ code.type = "vert" /\ \E b \in {CheckB1(a)} : Vertical(code, b)
  \/ /\ code.type \in {"ext", "eol"}
     /\ RowDone(Rest(a), [Consumed(code) EXCEPT !.EOLcnt = IF code.type = "eol" THEN 1 ELSE @])
  \/ /\ code.type = "eol" /\ dec3.bp + 1 = Len(stream) /\ Len(stream) \in damaged
     /\ pc' = "eof" /\ FaxStep(Rest(a), Consumed(code))
Code2D == pc = "2D" /\ \E l \in Lookup(MainTable) : Expand2D(l.code, l.at)

\* The two runs of horizontal mode; an EOL here ends the row, but is forgotten.
ExpandHoriz(code, a) ==
  \/ MakeUpRead(code, a)
  \/ /\ code.type = "term"
     /\ \E b \in {[SetValue(a, code.n) EXCEPT !.left = @ - 1]} :
          IF b.left > 0 THEN UNCHANGED pc /\ FaxStep(b, Consumed(code))
                        ELSE Next2D(CheckB1(b), Consumed(code))
  \/ code.type \in {"eol", "null"} /\ RowDone(a, Consumed(code))
SpanHoriz == pc = "horiz" /\ \E l \in Lookup(SpanTable[Color(at)]) : ExpandHoriz(l.code, l.at)

\* prematureEOF: the data end within a row.
DataEnd == /\ pc \in {"1D", "2D", "horiz"}
           /\ AtEnd
           /\ pc' = "eof"
           /\ FaxStep([at EXCEPT !.no = -1], dec3)

\* CLEANUP_RUNS: runs that go beyond the row are dropped, and what is left of it is
\* white.
\* mutant: a row that is too short is left so
Ended(a) == IF a.RunLength > 0 THEN SetValue(a, 0) ELSE a
Dropped(a) ==
  LET end(i) == a.a0 - SumRuns(a.runs, i, a.pa)
      pa == Max({0} \cup {i \in 0..a.pa : end(i) <= lastx})
  IN  [a EXCEPT !.a0 = end(pa), !.pa = pa]
NotFilled(a) == a
Filled(a) == SetValue(IF a.pa % 2 = 1 THEN SetValue(a, 0) ELSE a, lastx - a.a0)
OnlyRun(a) == SetValue(SetValue(a, lastx), 0)
CleanUp ==
  /\ pc \in {"done", "eof"}
  /\ pc' = IF pc = "done" THEN "fill" ELSE "fillLast"
  /\ \E b \in {Ended(at)} : \E d \in {Dropped(b)} :
       FaxStep(IF d.a0 < lastx THEN Filled(d)
               ELSE IF d.a0 > lastx THEN OnlyRun(d)
               ELSE d, dec3)

\* _TIFFFax3fillruns: the runs are cut to the row, and its pixels are set.
EndOfRun(a, i) == Smaller(SumRuns(a.runs, 0, i), lastx)
FillRuns(a) ==
  LET runs == IF a.pa % 2 = 1 THEN SetRun(a.runs, a.pa, 0) ELSE a.runs
  IN  [i \in 1..Len(runs) |-> IF i > a.pa THEN runs[i]
                              ELSE EndOfRun(a, i) - EndOfRun(a, i - 1)]
RunAt(a, x) == CHOOSE i \in 1..a.pa : EndOfRun(a, i - 1) < x /\ x <= EndOfRun(a, i)
Pixels(a) == [x \in 1..lastx |-> IF x > EndOfRun(a, a.pa) THEN -1 ELSE (RunAt(a, x) + 1) % 2]

\* A row of two dimensions is the next one's reference line, and that gets a
\* change that is not there at its end.
EndMark(a) == SetRun(FillRuns(a), a.pa, 0)
EndsBlock == scheme = "g4" /\ dec3.EOLcnt = 1
FillRow ==
  /\ pc = "fill"
  /\ ~EndsBlock
  /\ buf' = buf \o Pixels(at)
  /\ LET next == [dec3 EXCEPT !.line = @ + 1, !.refno = at.no]
     IN  dec3' = IF scheme \in {"rle", "g3"} THEN [next EXCEPT !.curruns = FillRuns(at)]
                 ELSE [next EXCEPT !.curruns = dec3.refruns, !.refruns = EndMark(at)]
  /\ at' = StartFaxRow
  /\ pc' = "call"
  /\ UNCHANGED <<stripVars, given, stream, asked, taken, ret, failed, astray,
                 enc3, damaged, whole>>

\* The data have come to their end: the call returns with the row at hand, and with
\* g4 that is an error only in the first row.
FillLastRow ==
  /\ pc = "fillLast" \/ (pc = "fill" /\ EndsBlock)
  /\ Finish(buf \o Pixels(at), scheme = "g4" /\ dec3.line > 0)
  /\ dec3' = [dec3 EXCEPT !.curruns = FillRuns(at), !.refno = -1,
                          !.bp = IF scheme = "g4" THEN Len(stream) ELSE @]
  /\ at' = StartFaxRow
  /\ UNCHANGED <<stripVars, given, stream, asked, astray, enc3, damaged, whole>>

FaxReturn == /\ pc = "call" /\ occ = 0
             /\ Finish(buf, TRUE)
             /\ UNCHANGED <<stripVars, given, stream, asked, astray, faxVars>>

FaxEncode == StartLine \/ Encode1DRow \/ PassMode \/ VerticalMode \/ HorizontalMode
               \/ FaxPostEncode \/ Arrive
FaxDecode == BeginRow \/ Sync \/ SyncFails \/ Span1D \/ Code2D \/ SpanHoriz
               \/ DataEnd \/ CleanUp \/ FillRow \/ FillLastRow \/ FaxReturn
FaxNext == FaxEncode \/ FaxAsk \/ FaxDecode

-----------------------------------------------------------------------------
FaxTypeOK == /\ enc3.tag \in {"1D", "2D"} /\ enc3.k \in 1..3 /\ enc3.a0 \in 0..lastx
             /\ dec3.EOLcnt \in {0, 1} /\ dec3.bp \in 0..Len(stream)
             /\ at.runs \in Seq(Nat) /\ at.RunLength \in Nat /\ at.pa \in 0..Len(at.runs)
             /\ at.a0 \in Nat /\ at.pb \in 0..(Len(dec3.refruns) + 2)
             /\ at.b1 \in Nat

\* However its codes came out, a row that is filled has runs for all its pixels,
\* as the assertion of the fill routine says (tif_fax3.c:493, tif_fax3.h:297-318).
FillsTheRow == pc \in {"fill", "fillLast"} => SumRuns(FillRuns(at), 0, at.pa) = lastx

\* A row whose codes are read as they were written, after an EOL or a row of which
\* that is true, is right, whatever came before: nothing of a damaged row is left in
\* the runs, the reference line or the count of EOLs (tif_fax3.c:245-362,
\* 1383-1428, tif_fax3.h:259-534).
RowsRight == pc = "fill" /\ at.no > 0 => Pixels(at) = Row(at.no)

\* With one dimension no row is lost whose EOL is not: that a row was ended by an
\* EOL is remembered until the next row (tif_fax3.h:259-290, 344-346).
NoRowSkipped ==
  scheme = "g3" =>
    \A i \in 1..dec3.bp :
      IsEol(i) /\ ~(i = dec3.bp /\ dec3.EOLcnt = 1) => stream[i].n \in dec3.seen
=============================================================================
