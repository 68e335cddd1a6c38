--------------------------- MODULE RoundTrip_proofs ---------------------------
(***************************************************************************)
(* Proofs that what has been encoded is decoded again, for strips of any   *)
(* length, whatever they hold and however they are decoded.  For the fax   *)
(* schemes the argument is in Fax3_proofs; here it is made for PackBits    *)
(* and LZW.                                                                *)
(*                                                                         *)
(* LZW: at every moment the codes of the stream spell a beginning of the   *)
(* strip.  Code i stands for the bytes off[i]+1 .. off[i+1] of the strip;  *)
(* seg[i] is the place of the last Clear code before it, so that the table *)
(* has one entry for each code from seg[i]+1 on; bits[i] is the number of  *)
(* bits before it.  The encoder's table and the decoder's have the same    *)
(* strings, the decoder's one code later, and both widen their codes at    *)
(* the same one.                                                           *)
(*                                                                         *)
(* PackBits: the stream and the raw buffer together are packets, whose     *)
(* boundaries are also those of bytes of the strip, and no packet goes     *)
(* over the end of a row.  The decoder stands at such a boundary.          *)
(***************************************************************************)
EXTENDS Codecs_proofs

-----------------------------------------------------------------------------
(***************************************************************************)
(* What a stream of LZW codes stands for.                                  *)
(***************************************************************************)
\* The width at which code number f is written.
WidthIs(w, f) == w \in Widths /\ f <= MAXCODE(w) /\ (w = BITS_MIN \/ f > MAXCODE(w - 1))

\* Code c has the string d[from + 1], ..., d[to]: it is a byte, or one of the k
\* strings entered since the Clear code at s.  Each is the string of a code and
\* the byte that follows.
Spells(d, off, s, k, c, from, to) ==
  \/ c \in Values /\ to = from + 1 /\ d[to] = c
  \/ \E j \in 1..k : /\ c = CODE_FIRST - 1 + j
                     /\ to - from = off[s + j + 1] - off[s + j] + 1
                     /\ \A x \in 1..(to - from) : d[from + x] = d[off[s + j] + x]

ClearAt(st, i, off, seg) == st[i].code = CODE_CLEAR /\ off[i + 1] = off[i] /\ seg[i + 1] = i
StringAt(d, st, i, off, seg) ==
  /\ seg[i] > 0 /\ seg[i + 1] = seg[i] /\ off[i] < off[i + 1]
  /\ CODE_FIRST + (i - seg[i]) < CODE_MAX
  /\ Spells(d, off, seg[i], i - seg[i] - 1, st[i].code, off[i], off[i + 1])
CodeAt(d, st, i, off, seg, bits) ==
  /\ WidthIs(st[i].width, CODE_FIRST + (i - seg[i]) - 1)
  /\ bits[i + 1] = bits[i] + st[i].width
  /\ ClearAt(st, i, off, seg) \/ StringAt(d, st, i, off, seg)

\* The first n codes of a stream spell the first off[n + 1] bytes of the strip.
Before2(n, off, seg, bits) ==
  /\ n \in Nat
  /\ off \in [1..(n + 1) -> Nat] /\ seg \in [1..(n + 1) -> Nat] /\ bits \in [1..(n + 1) -> Nat]
  /\ off[1] = 0 /\ seg[1] = 0 /\ bits[1] = 0
Segments(n, off, seg, bits) ==
  \A i \in 1..(n + 1) : /\ seg[i] < i /\ off[i] <= off[n + 1] /\ bits[i] <= bits[n + 1]
                        /\ \A j \in (seg[i] + 1)..i : seg[j] = seg[i]
Parsed(d, st, n, off, seg, bits) ==
  /\ Before2(n, off, seg, bits) /\ Segments(n, off, seg, bits)
  /\ \A i \in 1..n : CodeAt(d, st, i, off, seg, bits)

-----------------------------------------------------------------------------
(***************************************************************************)
(* Widths.                                                                 *)
(***************************************************************************)
LEMMA MaxCodesAre ==
  /\ MAXCODE(9) \in Nat /\ MAXCODE(10) \in Nat /\ MAXCODE(11) \in Nat /\ MAXCODE(12) \in Nat
  /\ MAXCODE(9) > CODE_FIRST /\ MAXCODE(10) > MAXCODE(9) /\ MAXCODE(11) > MAXCODE(10)
  /\ MAXCODE(12) > MAXCODE(11) + 2 /\ CODE_MAX = MAXCODE(12)
  /\ CODE_FIRST \in Nat
<1>1. Widths = 9..12 /\ BITS_MIN = 9 /\ BITS_MAX = 12 /\ CODE_MAX = MAXCODE(12) /\ CODE_FIRST \in Nat
  BY CodesAre
<1>2. \A n \in 9..12 : MAXCODE(n) \in Nat
  BY <1>1, CodesAre
<1>3. \A n \in 10..12 : MAXCODE(n) > MAXCODE(n - 1)
  <2>1. \A n \in (BITS_MIN + 1)..BITS_MAX : MAXCODE(n) > MAXCODE(n - 1)
    BY LzwAssumption
  <2> QED BY <1>1, <2>1
<1>4. MAXCODE(9) > CODE_FIRST /\ MAXCODE(12) > MAXCODE(11) + 2
  <2>1. MAXCODE(BITS_MIN) > CODE_FIRST /\ CODE_MAX > MAXCODE(BITS_MAX - 1) + 2
    BY LzwAssumption
  <2>2. BITS_MAX - 1 = 11
    BY <1>1
  <2> QED BY <1>1, <2>1, <2>2
<1>5. MAXCODE(10) > MAXCODE(9) /\ MAXCODE(11) > MAXCODE(10)
  <2>1. MAXCODE(10) > MAXCODE(10 - 1) /\ MAXCODE(11) > MAXCODE(11 - 1)
    BY <1>3
  <2>2. 10 - 1 = 9 /\ 11 - 1 = 10
    OBVIOUS
  <2> QED BY <2>1, <2>2
<1> QED BY <1>1, <1>2, <1>4, <1>5

LEMMA WidthCases ==
  ASSUME NEW w, NEW f \in Int
  PROVE  WidthIs(w, f) <=>
           \/ w = 9 /\ f <= MAXCODE(9)
           \/ w = 10 /\ f <= MAXCODE(10) /\ f > MAXCODE(9)
           \/ w = 11 /\ f <= MAXCODE(11) /\ f > MAXCODE(10)
           \/ w = 12 /\ f <= MAXCODE(12) /\ f > MAXCODE(11)
<1>1. Widths = 9..12 /\ BITS_MIN = 9
  BY CodesAre
<1>2. 10 - 1 = 9 /\ 11 - 1 = 10 /\ 12 - 1 = 11
  OBVIOUS
<1>3. w \in 9..12 <=> (w = 9 \/ w = 10 \/ w = 11 \/ w = 12)
  OBVIOUS
<1>4. CASE w = 9
  BY <1>1, <1>3, <1>4 DEF WidthIs
<1>5. CASE w = 10
  BY <1>1, <1>2, <1>3, <1>5 DEF WidthIs
<1>6. CASE w = 11
  BY <1>1, <1>2, <1>3, <1>6 DEF WidthIs
<1>7. CASE w = 12
  BY <1>1, <1>2, <1>3, <1>7 DEF WidthIs
<1> QED BY <1>1, <1>3, <1>4, <1>5, <1>6, <1>7 DEF WidthIs

\* A code number has one width only.
LEMMA OneWidth ==
  ASSUME NEW f \in Int, NEW v, NEW w, WidthIs(v, f), WidthIs(w, f)
  PROVE  v = w /\ v \in Widths /\ v \in Nat
<1>1. v \in Widths /\ Widths = 9..12
  BY CodesAre DEF WidthIs
<1> HIDE DEF MAXCODE, WidthIs, CODE_MAX, CODE_FIRST
<1> QED BY <1>1, WidthCases, MaxCodesAre

\* The next number's.
LEMMA NextWidth ==
  ASSUME NEW f \in Int, NEW w, WidthIs(w, f)
  PROVE  /\ f + 1 <= MAXCODE(w) => WidthIs(w, f + 1)
         /\ f + 1 > MAXCODE(w) /\ f + 1 < CODE_MAX => w < 12 /\ WidthIs(w + 1, f + 1)
         /\ f + 2 = CODE_MAX \/ f + 1 = CODE_MAX => w = 12
         /\ w \in Nat
<1>1. w \in Widths /\ Widths = 9..12
  BY CodesAre DEF WidthIs
<1> HIDE DEF MAXCODE, WidthIs, CODE_MAX, CODE_FIRST
<1>2. f + 1 \in Int
  OBVIOUS
<1>3. \A v : WidthIs(v, f + 1) <=>
           \/ v = 9 /\ f + 1 <= MAXCODE(9)
           \/ v = 10 /\ f + 1 <= MAXCODE(10) /\ f + 1 > MAXCODE(9)
           \/ v = 11 /\ f + 1 <= MAXCODE(11) /\ f + 1 > MAXCODE(10)
           \/ v = 12 /\ f + 1 <= MAXCODE(12) /\ f + 1 > MAXCODE(11)
  BY <1>2, WidthCases
<1>4. /\ WidthIs(w, f + 1) <=>
           \/ w = 9 /\ f + 1 <= MAXCODE(9)
           \/ w = 10 /\ f + 1 <= MAXCODE(10) /\ f + 1 > MAXCODE(9)
           \/ w = 11 /\ f + 1 <= MAXCODE(11) /\ f + 1 > MAXCODE(10)
           \/ w = 12 /\ f + 1 <= MAXCODE(12) /\ f + 1 > MAXCODE(11)
      /\ WidthIs(w + 1, f + 1) <=>
           \/ w + 1 = 9 /\ f + 1 <= MAXCODE(9)
           \/ w + 1 = 10 /\ f + 1 <= MAXCODE(10) /\ f + 1 > MAXCODE(9)
           \/ w + 1 = 11 /\ f + 1 <= MAXCODE(11) /\ f + 1 > MAXCODE(10)
           \/ w + 1 = 12 /\ f + 1 <= MAXCODE(12) /\ f + 1 > MAXCODE(11)
  BY <1>3
<1>5. \/ w = 9 /\ f <= MAXCODE(9)
      \/ w = 10 /\ f <= MAXCODE(10) /\ f > MAXCODE(9)
      \/ w = 11 /\ f <= MAXCODE(11) /\ f > MAXCODE(10)
      \/ w = 12 /\ f <= MAXCODE(12) /\ f > MAXCODE(11)
  BY WidthCases
<1> QED BY <1>1, <1>4, <1>5, MaxCodesAre

LEMMA FirstWidth ==
  ASSUME NEW f \in Int, f <= CODE_FIRST + 1
  PROVE  WidthIs(9, f)
<1> HIDE DEF MAXCODE, WidthIs, CODE_MAX, CODE_FIRST
<1> QED BY WidthCases, MaxCodesAre

-----------------------------------------------------------------------------
(***************************************************************************)
(* Strings.                                                                *)
(***************************************************************************)
ByteString(d, c, from, to) == c \in Values /\ to = from + 1 /\ d[to] = c
EnteredString(d, off, s, j, c, from, to) ==
  /\ c = CODE_FIRST - 1 + j
  /\ to - from = off[s + j + 1] - off[s + j] + 1
  /\ \A x \in 1..(to - from) : d[from + x] = d[off[s + j] + x]

LEMMA SpellsCases ==
  ASSUME NEW d, NEW off, NEW s, NEW k, NEW c, NEW from, NEW to
  PROVE  Spells(d, off, s, k, c, from, to) <=>
           \/ ByteString(d, c, from, to)
           \/ \E j \in 1..k : EnteredString(d, off, s, j, c, from, to)
BY DEF Spells, ByteString, EnteredString

\* A byte is no string of the table, and a string is not a byte.
LEMMA CodeOfString ==
  ASSUME NEW c, NEW j \in Nat, j > 0, c = CODE_FIRST - 1 + j
  PROVE  c \notin Values /\ c # CODE_CLEAR /\ c # CODE_EOI /\ c > CODE_EOI /\ c >= CODE_FIRST
BY CodesAre

LEMMA CodeOfByte ==
  ASSUME NEW c \in Values
  PROVE  c \in Nat /\ c < CODE_CLEAR /\ c # CODE_CLEAR /\ c # CODE_EOI /\ c < CODE_FIRST
BY CodesAre

LEMMA NeitherClearNorEnd ==
  ASSUME NEW d, NEW off, NEW s, NEW k \in Int, NEW c, NEW from, NEW to,
         Spells(d, off, s, k, c, from, to)
  PROVE  c # CODE_CLEAR /\ c # CODE_EOI /\ (c > CODE_EOI <=> c \notin Values) /\ c \in Nat
<1>1. CASE ByteString(d, c, from, to)
  BY <1>1, CodesAre DEF ByteString
<1>2. ASSUME NEW j \in 1..k, EnteredString(d, off, s, j, c, from, to)
      PROVE  c # CODE_CLEAR /\ c # CODE_EOI /\ (c > CODE_EOI <=> c \notin Values) /\ c \in Nat
  BY <1>2, CodesAre DEF EnteredString
<1> QED BY <1>1, <1>2, SpellsCases

\* The same code has the same string wherever it stands.
LEMMA OneString ==
  ASSUME NEW d, NEW off, NEW s, NEW k \in Int, NEW m \in Int, NEW c,
         NEW a \in Int, NEW b \in Int, NEW u \in Int, NEW v \in Int,
         Spells(d, off, s, k, c, a, b), Spells(d, off, s, m, c, u, v)
  PROVE  b - a = v - u /\ \A x \in 1..(b - a) : d[a + x] = d[u + x]
<1>1. CASE c \in Values
  <2>1. \A j \in Nat : j > 0 => c # CODE_FIRST - 1 + j
    BY <1>1, CodeOfString
  <2>2. ByteString(d, c, a, b) /\ ByteString(d, c, u, v)
    BY <2>1, SpellsCases DEF EnteredString
  <2> QED BY <2>2 DEF ByteString
<1>2. CASE c \notin Values
  <2>1. PICK j \in 1..k : EnteredString(d, off, s, j, c, a, b)
    BY <1>2, SpellsCases DEF ByteString
  <2>2. PICK i \in 1..m : EnteredString(d, off, s, i, c, u, v)
    BY <1>2, SpellsCases DEF ByteString
  <2>3. i = j
    <3>1. c = CODE_FIRST - 1 + j /\ c = CODE_FIRST - 1 + i /\ CODE_FIRST \in Nat
      BY <2>1, <2>2, CodesAre DEF EnteredString
    <3> HIDE DEF CODE_FIRST
    <3> QED BY <3>1
  <2> HIDE DEF CODE_FIRST
  <2> QED BY <2>1, <2>2, <2>3 DEF EnteredString
<1> QED BY <1>1, <1>2

\* A code stands for the same bytes at another place.
LEMMA MovedString ==
  ASSUME NEW d, NEW off, NEW s, NEW k \in Int, NEW c,
         NEW a \in Int, NEW b \in Int, NEW u \in Int,
         Spells(d, off, s, k, c, a, b), \A x \in 1..(b - a) : d[u + x] = d[a + x]
  PROVE  Spells(d, off, s, k, c, u, u + (b - a))
<1> DEFINE v == u + (b - a)
<1>1. v - u = b - a /\ v \in Int
  OBVIOUS
<1>2. CASE ByteString(d, c, a, b)
  <2>1. b = a + 1 /\ d[b] = c /\ c \in Values
    BY <1>2 DEF ByteString
  <2>2. d[u + 1] = d[a + 1] /\ v = u + 1
    BY <2>1
  <2> HIDE DEF v
  <2>3. ByteString(d, c, u, v)
    BY <2>1, <2>2 DEF ByteString
  <2> QED BY <2>3, SpellsCases DEF v
<1>3. ASSUME NEW j \in 1..k, EnteredString(d, off, s, j, c, a, b)
      PROVE  EnteredString(d, off, s, j, c, u, v)
  <2> HIDE DEF v, CODE_FIRST
  <2>1. \A x \in 1..(v - u) : d[u + x] = d[off[s + j] + x]
    BY <1>1, <1>3 DEF EnteredString
  <2> QED BY <1>1, <1>3, <2>1 DEF EnteredString
<1> QED BY <1>2, <1>3, SpellsCases

LEMMA MoreStrings ==
  ASSUME NEW d, NEW off, NEW s, NEW k \in Int, NEW m \in Int, k <= m, NEW c, NEW from, NEW to,
         Spells(d, off, s, k, c, from, to)
  PROVE  Spells(d, off, s, m, c, from, to)
<1>1. \A j \in 1..k : j \in 1..m
  OBVIOUS
<1> QED BY <1>1 DEF Spells

LEMMA StringOfByte ==
  ASSUME NEW d, NEW off, NEW s, NEW k \in Int, NEW c, NEW from, NEW to,
         Spells(d, off, s, k, c, from, to)
  PROVE  c \in Values => d[from + 1] = c /\ to = from + 1
<1> SUFFICES ASSUME c \in Values PROVE d[from + 1] = c /\ to = from + 1
  OBVIOUS
<1>1. \A j \in Nat : j > 0 => c # CODE_FIRST - 1 + j
  BY CodeOfString
<1>2. ByteString(d, c, from, to)
  BY <1>1, SpellsCases DEF EnteredString
<1> QED BY <1>2 DEF ByteString

LEMMA SameStrings ==
  ASSUME NEW d, NEW off, NEW off2, NEW s \in Nat, NEW k \in Int, NEW c, NEW from, NEW to,
         \A i \in 1..(s + k + 1) : off2[i] = off[i],
         Spells(d, off, s, k, c, from, to)
  PROVE  Spells(d, off2, s, k, c, from, to)
<1>1. \A j \in 1..k : off2[s + j] = off[s + j] /\ off2[s + j + 1] = off[s + j + 1]
  <2> TAKE j \in 1..k
  <2>1. s + j \in 1..(s + k + 1) /\ s + j + 1 \in 1..(s + k + 1)
    OBVIOUS
  <2> QED BY <2>1
<1> QED BY <1>1 DEF Spells

-----------------------------------------------------------------------------
(***************************************************************************)
(* Streams.                                                                *)
(***************************************************************************)
LEMMA ParsedIs ==
  ASSUME NEW d, NEW st, NEW n, NEW off, NEW seg, NEW bits, Parsed(d, st, n, off, seg, bits)
  PROVE  /\ n \in Nat /\ off[1] = 0 /\ seg[1] = 0 /\ bits[1] = 0
         /\ \A i \in 1..(n + 1) : /\ off[i] \in Nat /\ seg[i] \in Nat /\ bits[i] \in Nat
                                  /\ seg[i] < i /\ off[i] <= off[n + 1] /\ bits[i] <= bits[n + 1]
                                  /\ \A j \in (seg[i] + 1)..i : seg[j] = seg[i]
         /\ \A i \in 1..n : CodeAt(d, st, i, off, seg, bits)
BY DEF Parsed, Before2, Segments

LEMMA ParsedWith ==
  ASSUME NEW d, NEW st, NEW st2, NEW n, NEW off, NEW seg, NEW bits,
         Parsed(d, st, n, off, seg, bits), \A i \in 1..n : st2[i] = st[i]
  PROVE  Parsed(d, st2, n, off, seg, bits)
<1>1. \A i \in 1..n : CodeAt(d, st2, i, off, seg, bits)
  BY DEF Parsed, CodeAt, ClearAt, StringAt
<1> QED BY <1>1 DEF Parsed

Grow(f, n, x) == [i \in 1..(n + 2) |-> IF i = n + 2 THEN x ELSE f[i]]

\* One more code: a Clear code, or that of a string.
LEMMA OneCodeMore ==
  ASSUME NEW d, NEW st, NEW n, NEW off, NEW seg, NEW bits, Parsed(d, st, n, off, seg, bits),
         NEW o \in Nat, NEW s \in Nat, st[n + 1].width \in Nat,
         WidthIs(st[n + 1].width, CODE_FIRST + (n - seg[n + 1])),
         \/ st[n + 1].code = CODE_CLEAR /\ o = off[n + 1] /\ s = n + 1
         \/ /\ s = seg[n + 1] /\ s > 0 /\ off[n + 1] < o
            /\ CODE_FIRST + (n + 1 - s) < CODE_MAX
            /\ Spells(d, off, s, n - s, st[n + 1].code, off[n + 1], o)
  PROVE  Parsed(d, st, n + 1, Grow(off, n, o), Grow(seg, n, s),
                Grow(bits, n, bits[n + 1] + st[n + 1].width))
<1> DEFINE b == bits[n + 1] + st[n + 1].width
           off2 == Grow(off, n, o)
           seg2 == Grow(seg, n, s)
           bits2 == Grow(bits, n, b)
<1>1. /\ n \in Nat /\ off[1] = 0 /\ seg[1] = 0 /\ bits[1] = 0
      /\ \A i \in 1..(n + 1) : /\ off[i] \in Nat /\ seg[i] \in Nat /\ bits[i] \in Nat
                               /\ seg[i] < i /\ off[i] <= off[n + 1] /\ bits[i] <= bits[n + 1]
                               /\ \A j \in (seg[i] + 1)..i : seg[j] = seg[i]
      /\ \A i \in 1..n : CodeAt(d, st, i, off, seg, bits)
  BY ParsedIs
<1>2. /\ off \in [1..(n + 1) -> Nat] /\ seg \in [1..(n + 1) -> Nat] /\ bits \in [1..(n + 1) -> Nat]
  BY DEF Parsed, Before2
<1>3. n + 1 \in 1..(n + 1) /\ 1 \in 1..(n + 1)
  BY <1>1
<1>4. b \in Nat /\ bits[n + 1] <= b /\ off[n + 1] <= o /\ o \in Nat /\ s \in Nat /\ off[n + 1] \in Nat
      /\ bits[n + 1] \in Nat /\ s <= n + 1
  <2>1. bits[n + 1] \in Nat /\ off[n + 1] \in Nat /\ seg[n + 1] < n + 1 /\ seg[n + 1] \in Nat
    BY <1>1, <1>3
  <2> QED BY <1>1, <2>1
<1> HIDE DEF b
<1>5. /\ off2 \in [1..(n + 2) -> Nat] /\ off2[n + 2] = o
      /\ \A i \in 1..(n + 1) : off2[i] = off[i]
  <2>1. n \in Nat /\ off \in [1..(n + 1) -> Nat] /\ o \in Nat
    BY <1>1, <1>2, <1>4
  <2>2. /\ Grow(off, n, o) \in [1..(n + 2) -> Nat] /\ Grow(off, n, o)[n + 2] = o
        /\ \A i \in 1..(n + 1) : Grow(off, n, o)[i] = off[i]
    BY <2>1 DEF Grow
  <2> QED BY <2>2
<1>6. /\ seg2 \in [1..(n + 2) -> Nat] /\ seg2[n + 2] = s
      /\ \A i \in 1..(n + 1) : seg2[i] = seg[i]
  <2>1. n \in Nat /\ seg \in [1..(n + 1) -> Nat] /\ s \in Nat
    BY <1>1, <1>2, <1>4
  <2>2. /\ Grow(seg, n, s) \in [1..(n + 2) -> Nat] /\ Grow(seg, n, s)[n + 2] = s
        /\ \A i \in 1..(n + 1) : Grow(seg, n, s)[i] = seg[i]
    BY <2>1 DEF Grow
  <2> QED BY <2>2
<1>7. /\ bits2 \in [1..(n + 2) -> Nat] /\ bits2[n + 2] = b
      /\ \A i \in 1..(n + 1) : bits2[i] = bits[i]
  <2>1. n \in Nat /\ bits \in [1..(n + 1) -> Nat] /\ b \in Nat
    BY <1>1, <1>2, <1>4
  <2>2. /\ Grow(bits, n, b) \in [1..(n + 2) -> Nat] /\ Grow(bits, n, b)[n + 2] = b
        /\ \A i \in 1..(n + 1) : Grow(bits, n, b)[i] = bits[i]
    BY <2>1 DEF Grow
  <2> QED BY <2>2
<1> HIDE DEF off2, seg2, bits2
<1>8. (n + 1) + 1 = n + 2 /\ n + 1 \in Nat
  BY <1>1
<1>9. Before2(n + 1, off2, seg2, bits2)
  BY <1>1, <1>3, <1>5, <1>6, <1>7, <1>8 DEF Before2
<1>10. Segments(n + 1, off2, seg2, bits2)
  <2> SUFFICES ASSUME NEW i \in 1..(n + 2)
               PROVE  /\ seg2[i] < i /\ off2[i] <= off2[n + 2] /\ bits2[i] <= bits2[n + 2]
                      /\ \A j \in (seg2[i] + 1)..i : seg2[j] = seg2[i]
    BY <1>8 DEF Segments
  <2>1. CASE i = n + 2
    <3>1. seg2[i] = s /\ off2[i] = o /\ bits2[i] = b
      BY <1>5, <1>6, <1>7, <2>1
    <3>2. ASSUME NEW j \in (s + 1)..(n + 2) PROVE seg2[j] = s
      <4>1. CASE j = n + 2
        BY <1>6, <4>1
      <4>2. CASE j # n + 2
        <5>1. s = seg[n + 1] /\ j \in (seg[n + 1] + 1)..(n + 1)
          BY <1>1, <1>4, <4>2
        <5>2. seg[j] = seg[n + 1]
          BY <1>1, <1>3, <5>1
        <5>3. j \in 1..(n + 1)
          BY <1>1, <1>4, <5>1
        <5> QED BY <1>6, <5>1, <5>2, <5>3
      <4> QED BY <4>1, <4>2
    <3> QED BY <1>1, <1>4, <1>5, <1>7, <2>1, <3>1, <3>2
  <2>2. CASE i # n + 2
    <3>1. i \in 1..(n + 1)
      BY <1>1, <2>2
    <3>2. /\ seg[i] < i /\ off[i] <= off[n + 1] /\ bits[i] <= bits[n + 1]
          /\ off[i] \in Nat /\ bits[i] \in Nat /\ seg[i] \in Nat
          /\ \A j \in (seg[i] + 1)..i : seg[j] = seg[i]
      BY <1>1, <3>1
    <3>3. seg2[i] = seg[i] /\ off2[i] = off[i] /\ bits2[i] = bits[i]
      BY <1>5, <1>6, <1>7, <3>1
    <3>4. \A j \in (seg[i] + 1)..i : j \in 1..(n + 1)
      BY <1>1, <3>1, <3>2
    <3>5. \A j \in (seg2[i] + 1)..i : seg2[j] = seg2[i]
      BY <1>6, <3>2, <3>3, <3>4
    <3>6. off[i] <= o /\ bits[i] <= b
      BY <1>4, <3>2
    <3> QED BY <1>5, <1>7, <3>2, <3>3, <3>5, <3>6
  <2> QED BY <2>1, <2>2
<1>11. ASSUME NEW i \in 1..(n + 1) PROVE CodeAt(d, st, i, off2, seg2, bits2)
  <2>1. /\ seg2[i] = seg[i] /\ off2[i] = off[i] /\ bits2[i] = bits[i]
        /\ seg[i] \in Nat /\ off[i] \in Nat /\ bits[i] \in Nat /\ seg[i] < i
    BY <1>1, <1>5, <1>6, <1>7
  <2>2. i - seg[i] - 1 \in Int /\ \A j \in 1..(seg[i] + (i - seg[i] - 1) + 1) : off2[j] = off[j]
    <3>1. seg[i] + (i - seg[i] - 1) + 1 = i /\ i - seg[i] - 1 \in Int
      BY <2>1
    <3>2. \A j \in 1..i : j \in 1..(n + 1)
      BY <1>1
    <3> QED BY <1>5, <3>1, <3>2
  <2>3. \A c, from, to : Spells(d, off, seg[i], i - seg[i] - 1, c, from, to)
                           => Spells(d, off2, seg[i], i - seg[i] - 1, c, from, to)
    BY <2>1, <2>2, SameStrings
  <2>4. CASE i = n + 1
    <3>1. off2[i + 1] = o /\ seg2[i + 1] = s /\ bits2[i + 1] = bits[i] + st[i].width
      BY <1>5, <1>6, <1>7, <1>8, <2>4 DEF b
    <3>2. WidthIs(st[i].width, CODE_FIRST + (i - seg[i]) - 1)
      <4>1. CODE_FIRST + (i - seg[i]) - 1 = CODE_FIRST + (n - seg[n + 1])
        <5>1. i - 1 = n /\ seg[i] = seg[n + 1] /\ CODE_FIRST \in Nat
          BY <1>1, <2>4, CodesAre
        <5> HIDE DEF CODE_FIRST
        <5> QED BY <1>1, <2>1, <5>1
      <4> QED BY <2>4, <4>1
    <3>3. CASE st[n + 1].code = CODE_CLEAR /\ o = off[n + 1] /\ s = n + 1
      BY <2>1, <2>4, <3>1, <3>2, <3>3 DEF CodeAt, ClearAt
    <3>4. CASE /\ s = seg[n + 1] /\ s > 0 /\ off[n + 1] < o
               /\ CODE_FIRST + (n + 1 - s) < CODE_MAX
               /\ Spells(d, off, s, n - s, st[n + 1].code, off[n + 1], o)
      <4>1. i - seg[i] - 1 = n - s
        BY <1>1, <1>4, <2>1, <2>4, <3>4
      <4>2. Spells(d, off2, seg[i], i - seg[i] - 1, st[i].code, off[i], o)
        BY <2>3, <2>4, <3>4, <4>1
      <4>3. seg[i] = s /\ off[i] < o /\ CODE_FIRST + (i - seg[i]) < CODE_MAX
        <5>1. i - s = n + 1 - s
          BY <1>1, <2>4
        <5> QED BY <2>4, <3>4, <5>1
      <4>4. StringAt(d, st, i, off2, seg2)
        BY <2>1, <3>1, <3>4, <4>2, <4>3 DEF StringAt
      <4> QED BY <2>1, <3>1, <3>2, <4>4 DEF CodeAt
    <3> QED BY <3>3, <3>4
  <2>5. CASE i # n + 1
    <3>1. i \in 1..n /\ i + 1 \in 1..(n + 1)
      BY <1>1, <2>5
    <3>2. seg2[i + 1] = seg[i + 1] /\ off2[i + 1] = off[i + 1] /\ bits2[i + 1] = bits[i + 1]
      BY <1>5, <1>6, <1>7, <3>1
    <3>3. CodeAt(d, st, i, off, seg, bits)
      BY <1>1, <3>1
    <3>4. StringAt(d, st, i, off, seg) => StringAt(d, st, i, off2, seg2)
      BY <2>1, <2>3, <3>2 DEF StringAt
    <3>5. ClearAt(st, i, off, seg) => ClearAt(st, i, off2, seg2)
      BY <2>1, <3>2 DEF ClearAt
    <3> QED BY <2>1, <3>2, <3>3, <3>4, <3>5 DEF CodeAt
  <2> QED BY <2>4, <2>5
<1>12. Parsed(d, st, n + 1, off2, seg2, bits2)
  BY <1>9, <1>10, <1>11 DEF Parsed
<1> QED BY <1>12 DEF off2, seg2, bits2, b

\* Behind the first code there has been a Clear code.
LEMMA ClearedBefore ==
  ASSUME NEW d, NEW st, NEW n, NEW off, NEW seg, NEW bits, Parsed(d, st, n, off, seg, bits),
         NEW m \in 1..n
  PROVE  seg[m + 1] > 0
<1>1. CodeAt(d, st, m, off, seg, bits)
  BY ParsedIs
<1> QED BY <1>1 DEF CodeAt, ClearAt, StringAt

-----------------------------------------------------------------------------
(***************************************************************************)
(* The encoder.  Its table has the strings that have been entered since    *)
(* the last Clear code, and oldcode that of the bytes not yet written.     *)
(***************************************************************************)
HashOK(h, d, st, n, off, seg) ==
  \A q \in DOMAIN h : \E j \in 1..(n - seg[n + 1]) :
    /\ h[q] = CODE_FIRST - 1 + j
    /\ q = <<st[seg[n + 1] + j].code, d[off[seg[n + 1] + j + 1] + 1]>>

EncOK(e, d, g, n, off, seg, bits) ==
  /\ n = 0 => e = StartEncoder /\ g = 0
  /\ n > 0 => /\ e.free_ent = CODE_FIRST + (n - seg[n + 1])
              /\ WidthIs(e.nbits, e.free_ent)
              /\ e.outbits = bits[n + 1]
              /\ off[n + 1] < g
              /\ e.oldcode # NoCode
              /\ Spells(d, off, seg[n + 1], n - seg[n + 1], e.oldcode, off[n + 1], g)

Writing(n, off, seg, bits) ==
  /\ n = Len(stream) /\ Parsed(data, stream, n, off, seg, bits)
  /\ HashOK(hash, data, stream, n, off, seg)
  /\ EncOK(enc, data, given, n, off, seg, bits)

LEMMA WritingIs ==
  ASSUME LzwSafe, pc = "encode", NEW n, NEW off, NEW seg, NEW bits, Writing(n, off, seg, bits)
  PROVE  /\ n \in Nat /\ n = Len(stream) /\ Parsed(data, stream, n, off, seg, bits)
         /\ HashOK(hash, data, stream, n, off, seg)
         /\ EncOK(enc, data, given, n, off, seg, bits)
         /\ off[n + 1] \in Nat /\ seg[n + 1] \in Nat /\ bits[n + 1] \in Nat /\ seg[n + 1] <= n
         /\ n > 0 => seg[n + 1] > 0
         /\ enc.oldcode = NoCode <=> n = 0
         /\ given \in Nat /\ stream \in Seq(Codewords)
         /\ enc.nbits \in Nat /\ enc.free_ent \in Nat /\ enc.free_ent <= CODE_MAX - 2
<1>1. /\ n = Len(stream) /\ Parsed(data, stream, n, off, seg, bits)
      /\ HashOK(hash, data, stream, n, off, seg)
      /\ EncOK(enc, data, given, n, off, seg, bits)
  BY DEF Writing
<1>2. n \in Nat
  BY <1>1, ParsedIs
<1>3. n + 1 \in 1..(n + 1)
  BY <1>2
<1>4. off[n + 1] \in Nat /\ seg[n + 1] \in Nat /\ bits[n + 1] \in Nat /\ seg[n + 1] < n + 1
  BY <1>1, <1>3, ParsedIs
<1>5. n > 0 => seg[n + 1] > 0
  <2>1. n > 0 => n \in 1..n
    BY <1>2
  <2> QED BY <1>1, <2>1, ClearedBefore
<1>6. StartEncoder.oldcode = NoCode
  BY DEF StartEncoder
<1>7. /\ given \in Nat /\ stream \in Seq(Codewords) /\ enc.nbits \in Widths
      /\ enc.free_ent \in CODE_FIRST..(CODE_MAX - 2)
  BY EncodingIs
<1>8. enc.nbits \in Nat /\ enc.free_ent \in Nat /\ enc.free_ent <= CODE_MAX - 2
  <2>1. Widths = 9..12 /\ CODE_FIRST \in Nat /\ CODE_MAX \in Nat
    BY CodesAre
  <2> HIDE DEF Widths, CODE_FIRST
  <2>2. enc.nbits \in Nat
    BY <1>7, <2>1
  <2>3. enc.free_ent \in Nat /\ enc.free_ent <= CODE_MAX - 2
    BY <1>7, <2>1
  <2> QED BY <2>2, <2>3
<1>9. enc.oldcode = NoCode <=> n = 0
  BY <1>1, <1>2, <1>6 DEF EncOK
<1> QED BY <1>1, <1>2, <1>4, <1>5, <1>7, <1>8, <1>9

\* The code of the bytes not yet written is put.
LEMMA StringPut ==
  ASSUME LzwSafe, pc = "encode", NEW n, NEW off, NEW seg, NEW bits, Writing(n, off, seg, bits),
         n > 0, NEW st, \A i \in 1..n : st[i] = stream[i],
         st[n + 1] = Written(enc, enc.oldcode)
  PROVE  Parsed(data, st, n + 1, Grow(off, n, given), Grow(seg, n, seg[n + 1]),
                Grow(bits, n, bits[n + 1] + enc.nbits))
<1>1. /\ n \in Nat /\ Parsed(data, stream, n, off, seg, bits)
      /\ EncOK(enc, data, given, n, off, seg, bits)
      /\ off[n + 1] \in Nat /\ seg[n + 1] \in Nat /\ bits[n + 1] \in Nat /\ seg[n + 1] <= n
      /\ seg[n + 1] > 0 /\ given \in Nat
      /\ enc.nbits \in Nat /\ enc.free_ent \in Nat /\ enc.free_ent <= CODE_MAX - 2
  BY WritingIs
<1>2. Parsed(data, st, n, off, seg, bits)
  BY <1>1, ParsedWith
<1>3. st[n + 1].width = enc.nbits /\ st[n + 1].code = enc.oldcode
  BY DEF Written
<1>4. /\ enc.free_ent = CODE_FIRST + (n - seg[n + 1]) /\ WidthIs(enc.nbits, enc.free_ent)
      /\ off[n + 1] < given
      /\ Spells(data, off, seg[n + 1], n - seg[n + 1], enc.oldcode, off[n + 1], given)
  BY <1>1 DEF EncOK
<1>5. CODE_FIRST + (n + 1 - seg[n + 1]) < CODE_MAX
  <2>1. CODE_FIRST \in Nat /\ CODE_MAX \in Nat
    BY CodesAre
  <2> HIDE DEF CODE_FIRST, CODE_MAX
  <2> QED BY <1>1, <1>4, <2>1
<1> DEFINE s == seg[n + 1]
<1>6. /\ s = seg[n + 1] /\ s > 0 /\ off[n + 1] < given
      /\ CODE_FIRST + (n + 1 - s) < CODE_MAX
      /\ Spells(data, off, s, n - s, st[n + 1].code, off[n + 1], given)
  BY <1>1, <1>3, <1>4, <1>5
<1>7. st[n + 1].width \in Nat /\ WidthIs(st[n + 1].width, CODE_FIRST + (n - seg[n + 1])) /\ s \in Nat
  BY <1>1, <1>3, <1>4
<1>8. Parsed(data, st, n + 1, Grow(off, n, given), Grow(seg, n, s),
             Grow(bits, n, bits[n + 1] + st[n + 1].width))
  <2> HIDE DEF s
  <2> QED BY <1>1, <1>2, <1>6, <1>7, OneCodeMore
<1> QED BY <1>3, <1>8

LEMMA BitsPut ==
  ASSUME NEW e \in EncoderRecords
  PROVE  Put(e).outbits = e.outbits + e.nbits
<1> DEFINE b == e.nextbits + e.nbits
           x == b % 8
           y == b \div 8
<1>1. Put(e) = [e EXCEPT !.nextbits = x, !.op = @ + y,
                         !.outcount = @ + e.nbits, !.outbits = @ + e.nbits]
  BY DEF Put
<1> HIDE DEF x, y, b
<1> QED BY <1>1 DEF EncoderRecords

LEMMA AfterCleared ==
  ASSUME NEW e \in EncoderRecords
  PROVE  /\ Cleared(e).nbits = 9 /\ Cleared(e).free_ent = CODE_FIRST
         /\ Cleared(e).oldcode = e.oldcode /\ Cleared(e).outbits = e.outbits + e.nbits
<1> DEFINE x == [e EXCEPT !.outcount = 0]
           y == Put(x)
<1>1. x \in EncoderRecords /\ x.oldcode = e.oldcode /\ x.outbits = e.outbits /\ x.nbits = e.nbits
  BY DEF EncoderRecords
<1> HIDE DEF x
<1>2. y \in EncoderRecords /\ y.oldcode = e.oldcode /\ y.outbits = e.outbits + e.nbits
  BY <1>1, PutIs, BitsPut
<1>3. Cleared(e) = [y EXCEPT !.ratio = 0, !.incount = 0, !.free_ent = CODE_FIRST, !.nbits = BITS_MIN]
  BY DEF Cleared, x
<1> HIDE DEF y
<1>4. BITS_MIN = 9
  BY CodesAre
<1> HIDE DEF CODE_FIRST, BITS_MIN
<1> QED BY <1>2, <1>3, <1>4 DEF EncoderRecords

LEMMA WritesOn ==
  ASSUME NEW n, NEW off, NEW seg, NEW bits, n = Len(stream'), data' = data,
         Parsed(data, stream', n, off, seg, bits),
         HashOK(hash', data, stream', n, off, seg),
         EncOK(enc', data, given', n, off, seg, bits)
  PROVE  \E n2, off2, seg2, bits2 : Writing(n2, off2, seg2, bits2)'
<1>1. Writing(n, off, seg, bits)'
  BY DEF Writing
<1> QED BY <1>1

LEMMA EncodeIs ==
  ASSUME NEW e, NEW h, NEW codes, Encode(e, h, codes)
  PROVE  /\ given' = given + 1 /\ enc' = e /\ hash' = h /\ stream' = stream \o codes /\ data' = data
BY DEF Encode, stripVars

LEMMA FirstByteWrites ==
  ASSUME LzwSafe, FirstByte, NEW n, NEW off, NEW seg, NEW bits, Writing(n, off, seg, bits)
  PROVE  \E n2, off2, seg2, bits2 : Writing(n2, off2, seg2, bits2)'
<1> DEFINE y == Put(enc)
           e == [y EXCEPT !.oldcode = Byte, !.incount = @ + 1]
           w == Written(enc, CODE_CLEAR)
<1>1. pc = "encode" /\ given < Len(data) /\ enc.oldcode = NoCode /\ Encode(e, hash, <<w>>)
  BY DEF FirstByte, Encoding
<1>2. /\ n = 0 /\ n = Len(stream) /\ Parsed(data, stream, n, off, seg, bits)
      /\ HashOK(hash, data, stream, n, off, seg)
      /\ EncOK(enc, data, given, n, off, seg, bits) /\ stream \in Seq(Codewords)
  BY <1>1, WritingIs
<1>3. off[1] = 0 /\ seg[1] = 0 /\ bits[1] = 0
  BY <1>2, ParsedIs
<1>4. enc = StartEncoder /\ given = 0 /\ enc \in EncoderRecords
  BY <1>1, <1>2, EncodingIs DEF EncOK
<1>5. enc.nbits = 9 /\ enc.free_ent = CODE_FIRST /\ enc.outbits = 0
  BY <1>4, CodesAre DEF StartEncoder
<1>6. y \in EncoderRecords /\ y.free_ent = CODE_FIRST /\ y.nbits = 9 /\ y.outbits = 9
  BY <1>4, <1>5, PutIs, BitsPut
<1> HIDE DEF y
<1>7. Byte \in NoCode..CODE_MAX /\ Byte # NoCode /\ Byte \in Values /\ Byte = data[given + 1]
  <2>1. Byte \in NoCode..CODE_MAX /\ Byte # NoCode
    BY <1>1, ByteEncoded
  <2>2. given + 1 \in 1..Len(data) /\ data \in Seq(Values)
    BY <1>1, EncodingIs DEF LzwSafe, StripOK
  <2>3. data[given + 1] \in Values
    BY <2>2, ElementIs
  <2> QED BY <2>1, <2>3 DEF Byte
<1>8. e.free_ent = CODE_FIRST /\ e.nbits = 9 /\ e.outbits = 9 /\ e.oldcode = Byte
  BY <1>6 DEF EncoderRecords
<1>9. w = [code |-> CODE_CLEAR, width |-> 9]
  BY <1>5 DEF Written
<1>10. w \in Codewords
  <2>1. CODE_CLEAR \in 0..CODE_MAX
    BY CodesAre
  <2> QED BY <1>4, <2>1, WrittenIs
<1> HIDE DEF e, w
<1>11. given' = 1 /\ enc' = e /\ hash' = hash /\ stream' = stream \o <<w>> /\ data' = data
  BY <1>1, <1>4, EncodeIs, SMTT(30)
<1>12. Len(stream') = 1 /\ stream'[1] = w
  <2>1. <<w>> \in Seq(Codewords) /\ Len(<<w>>) = 1 /\ <<w>>[1] = w
    BY <1>10
  <2>2. Len(stream \o <<w>>) = Len(stream) + 1 /\ (stream \o <<w>>)[Len(stream) + 1] = w
    BY <1>2, <2>1, JoinedParts
  <2> QED BY <1>2, <1>11, <2>2
<1> DEFINE off2 == Grow(off, 0, 0)
           seg2 == Grow(seg, 0, 1)
           bits2 == Grow(bits, 0, 9)
<1>13. off2[2] = 0 /\ seg2[2] = 1 /\ bits2[2] = 9
  BY DEF Grow
<1> HIDE DEF off2, seg2, bits2
<1>14. Parsed(data, stream', 1, off2, seg2, bits2)
  <2>1. Parsed(data, stream', 0, off, seg, bits)
    BY <1>2, ParsedWith
  <2>2. WidthIs(9, CODE_FIRST + 0)
    <3>1. CODE_FIRST + 0 \in Int /\ CODE_FIRST + 0 <= CODE_FIRST + 1
      BY CodesAre
    <3> QED BY <3>1, FirstWidth
  <2>3. /\ stream'[0 + 1].width = 9 /\ stream'[0 + 1].code = CODE_CLEAR
    BY <1>9, <1>12
  <2>4. WidthIs(stream'[0 + 1].width, CODE_FIRST + (0 - seg[0 + 1]))
    BY <1>3, <2>2, <2>3
  <2>5. Parsed(data, stream', 0 + 1, Grow(off, 0, 0), Grow(seg, 0, 1),
               Grow(bits, 0, bits[0 + 1] + stream'[0 + 1].width))
    BY <1>3, <2>1, <2>3, <2>4, OneCodeMore
  <2> QED BY <1>3, <2>3, <2>5 DEF off2, seg2, bits2
<1>15. HashOK(hash', data, stream', 1, off2, seg2)
  BY <1>2, <1>3, <1>11 DEF HashOK
<1>16. EncOK(enc', data, given', 1, off2, seg2, bits2)
  <2>1. Spells(data, off2, 1, 0, Byte, 0, 1)
    BY <1>4, <1>7 DEF Spells
  <2>2. WidthIs(9, CODE_FIRST)
    BY CodesAre, FirstWidth
  <2>3. CODE_FIRST + (1 - 1) = CODE_FIRST
    BY CodesAre
  <2> QED BY <1>7, <1>8, <1>11, <1>13, <2>1, <2>2, <2>3 DEF EncOK
<1> QED BY <1>11, <1>12, <1>14, <1>15, <1>16, WritesOn

\* The bytes not yet written and the next one are a string of the table.
LEMMA KnownStringWrites ==
  ASSUME LzwSafe, KnownString, NEW n, NEW off, NEW seg, NEW bits, Writing(n, off, seg, bits)
  PROVE  \E n2, off2, seg2, bits2 : Writing(n2, off2, seg2, bits2)'
<1> DEFINE q == <<enc.oldcode, Byte>>
           c == hash[q]
           e == [enc EXCEPT !.oldcode = c, !.incount = @ + 1]
           s == seg[n + 1]
           from == off[n + 1]
<1>1. /\ pc = "encode" /\ given < Len(data) /\ enc.oldcode # NoCode /\ q \in DOMAIN hash
      /\ Encode(e, hash, <<>>)
  BY DEF KnownString, Encoding, Known
<1>2. /\ n \in Nat /\ n # 0 /\ n = Len(stream) /\ Parsed(data, stream, n, off, seg, bits)
      /\ HashOK(hash, data, stream, n, off, seg)
      /\ EncOK(enc, data, given, n, off, seg, bits) /\ stream \in Seq(Codewords)
      /\ from \in Nat /\ s \in Nat /\ s <= n /\ given \in Nat
  BY <1>1, WritingIs
<1>3. n > 0
  BY <1>2
<1>4. /\ enc.free_ent = CODE_FIRST + (n - s) /\ WidthIs(enc.nbits, enc.free_ent)
      /\ enc.outbits = bits[n + 1] /\ from < given
      /\ Spells(data, off, s, n - s, enc.oldcode, from, given)
  BY <1>2, <1>3 DEF EncOK
<1>5. PICK j \in 1..(n - s) : c = CODE_FIRST - 1 + j
                              /\ q = <<stream[s + j].code, data[off[s + j + 1] + 1]>>
  BY <1>1, <1>2 DEF HashOK
<1> DEFINE a == off[s + j]
           b == off[s + j + 1]
<1>6. enc.oldcode = stream[s + j].code /\ Byte = data[b + 1] /\ data[given + 1] = data[b + 1]
  BY <1>5 DEF Byte
<1>7. a \in Nat /\ b \in Nat /\ Spells(data, off, s, j - 1, enc.oldcode, a, b) /\ a < b
  <2>1. s + j \in 1..n /\ s + j + 1 \in 1..(n + 1) /\ s + j \in 1..(n + 1) /\ n + 1 \in 1..(n + 1)
    BY <1>2, SMTT(30)
  <2>2. a \in Nat /\ b \in Nat /\ CodeAt(data, stream, s + j, off, seg, bits)
    BY <1>2, <2>1, ParsedIs, SMTT(30)
  <2>3. \A i \in (s + 1)..(n + 1) : seg[i] = s
    BY <1>2, <2>1, ParsedIs, SMTT(30)
  <2>4. seg[s + j] = s
    <3>1. s + j \in (s + 1)..(n + 1)
      BY <1>2, SMTT(30)
    <3> QED BY <2>3, <3>1
  <2>5. seg[s + j + 1] = s
    <3>1. s + j + 1 \in (s + 1)..(n + 1)
      BY <1>2
    <3> QED BY <2>3, <3>1
  <2>6. StringAt(data, stream, s + j, off, seg)
    <3>1. s # s + j
      BY <1>2
    <3> QED BY <2>2, <2>5, <3>1 DEF CodeAt, ClearAt
  <2>7. ASSUME NEW x, x = s PROVE (s + j) - x - 1 = j - 1
    BY <1>2, <2>7
  <2>8. /\ off[s + j] < off[s + j + 1]
        /\ Spells(data, off, seg[s + j], (s + j) - seg[s + j] - 1, stream[s + j].code,
                  off[s + j], off[s + j + 1])
    BY <2>6 DEF StringAt
  <2>9. (s + j) - seg[s + j] - 1 = j - 1
    BY <2>4, <2>7
  <2> QED BY <1>6, <2>2, <2>4, <2>8, <2>9
<1> HIDE DEF c
<1>8. Spells(data, off, s, n - s, c, from, given + 1)
  <2>1. n - s \in Int /\ j - 1 \in Int /\ j \in Nat
    BY <1>2
  <2> HIDE DEF a, b, s, from
  <2>2. given - from = b - a /\ \A x \in 1..(given - from) : data[from + x] = data[a + x]
    BY <1>2, <1>4, <1>7, <2>1, OneString
  <2>3. (given + 1) - from = b - a + 1
    BY <1>2, <1>7, <2>2
  <2>4. ASSUME NEW x \in 1..((given + 1) - from) PROVE data[from + x] = data[a + x]
    <3>1. CASE x = (given + 1) - from
      <4>1. from + x = given + 1 /\ a + x = b + 1
        BY <1>2, <1>7, <2>3, <3>1
      <4> QED BY <1>6, <4>1 DEF b
    <3>2. CASE x # (given + 1) - from
      <4>1. x \in 1..(given - from)
        BY <1>2, <3>2
      <4> QED BY <2>2, <4>1
    <3> QED BY <3>1, <3>2
  <2>5. EnteredString(data, off, s, j, c, from, given + 1)
    BY <1>5, <2>3, <2>4 DEF EnteredString, a, b
  <2> QED BY <2>5, SpellsCases
<1>9. /\ enc \in EncoderRecords /\ enc.incount + 1 \in Nat
  BY <1>1, EncodingIs
<1>10. e.free_ent = enc.free_ent /\ e.nbits = enc.nbits /\ e.outbits = enc.outbits /\ e.oldcode = c
  BY <1>9 DEF EncoderRecords
<1>11. c # NoCode
  BY <1>5, CodesAre
<1> HIDE DEF e
<1>12. given' = given + 1 /\ enc' = e /\ hash' = hash /\ stream' = stream \o <<>> /\ data' = data
  BY <1>1, EncodeIs
<1>13. stream' = stream
  BY <1>2, <1>12
<1>14. EncOK(enc', data, given', n, off, seg, bits)
  BY <1>2, <1>3, <1>4, <1>8, <1>10, <1>11, <1>12 DEF EncOK
<1> QED BY <1>2, <1>12, <1>13, <1>14, WritesOn

LEMMA StringWrites ==
  ASSUME LzwSafe, pc = "encode", given < Len(data), NEW n, NEW off, NEW seg, NEW bits,
         Writing(n, off, seg, bits), n > 0,
         given' = given + 1, data' = data,
         stream' = stream \o <<Written(enc, enc.oldcode)>>,
         hash' = [s \in DOMAIN hash \cup {<<enc.oldcode, Byte>>} |->
                    IF s \in DOMAIN hash THEN hash[s] ELSE enc.free_ent],
         enc'.free_ent = enc.free_ent + 1, enc'.oldcode = Byte,
         enc'.outbits = enc.outbits + enc.nbits, WidthIs(enc'.nbits, enc'.free_ent)
  PROVE  \E n2, off2, seg2, bits2 : Writing(n2, off2, seg2, bits2)'
<1> DEFINE w == Written(enc, enc.oldcode)
           s == seg[n + 1]
           off2 == Grow(off, n, given)
           seg2 == Grow(seg, n, s)
           bits2 == Grow(bits, n, bits[n + 1] + enc.nbits)
           m == n + 1
<1>1. /\ n \in Nat /\ n = Len(stream) /\ Parsed(data, stream, n, off, seg, bits)
      /\ HashOK(hash, data, stream, n, off, seg)
      /\ EncOK(enc, data, given, n, off, seg, bits) /\ stream \in Seq(Codewords)
      /\ off[n + 1] \in Nat /\ s \in Nat /\ bits[n + 1] \in Nat /\ s <= n /\ s > 0
      /\ given \in Nat /\ enc.nbits \in Nat
  BY WritingIs
<1>2. /\ enc.free_ent = CODE_FIRST + (n - s) /\ enc.outbits = bits[n + 1]
      /\ enc.oldcode # NoCode
  BY <1>1 DEF EncOK
<1>3. w \in Codewords /\ w.code = enc.oldcode
  <2>1. enc.oldcode \in 0..CODE_MAX /\ enc \in EncoderRecords
    BY <1>2, EncodingIs
  <2> QED BY <2>1, WrittenIs DEF Written
<1> HIDE DEF w
<1>4. /\ Len(stream') = m /\ \A i \in 1..n : stream'[i] = stream[i]
      /\ stream'[m] = w
  <2>1. <<w>> \in Seq(Codewords) /\ Len(<<w>>) = 1 /\ <<w>>[1] = w
    BY <1>3
  <2>2. /\ Len(stream \o <<w>>) = Len(stream) + 1
        /\ \A i \in 1..Len(stream) : (stream \o <<w>>)[i] = stream[i]
        /\ (stream \o <<w>>)[Len(stream) + 1] = w
    BY <1>1, <2>1, JoinedParts
  <2> QED BY <1>1, <2>2 DEF w
<1>5. Parsed(data, stream', m, off2, seg2, bits2)
  BY <1>1, <1>4, StringPut DEF w
<1>6. /\ off2[m + 1] = given /\ seg2[m + 1] = s /\ bits2[m + 1] = bits[n + 1] + enc.nbits
      /\ \A i \in 1..(n + 1) : off2[i] = off[i]
  BY <1>1 DEF Grow
<1> HIDE DEF off2, seg2, bits2
<1>7. Byte \in Values /\ Byte # NoCode /\ Byte = data[given + 1]
  <2>1. Byte # NoCode
    BY ByteEncoded
  <2>2. given + 1 \in 1..Len(data) /\ data \in Seq(Values)
    BY EncodingIs, SMTT(30) DEF LzwSafe, StripOK
  <2>3. data[given + 1] \in Values
    BY <2>2, ElementIs
  <2> QED BY <2>1, <2>3 DEF Byte
<1>8. EncOK(enc', data, given', m, off2, seg2, bits2)
  <2>1. Spells(data, off2, s, m - s, Byte, given, given + 1)
    BY <1>7 DEF Spells
  <2>2. enc'.free_ent = CODE_FIRST + (m - s)
    <3>1. CODE_FIRST \in Nat
      BY CodesAre
    <3> HIDE DEF CODE_FIRST, s
    <3> QED BY <1>1, <1>2, <3>1
  <2>3. m > 0 /\ given < given + 1
    BY <1>1
  <2> HIDE DEF m, s
  <2> QED BY <1>2, <1>6, <1>7, <2>1, <2>2, <2>3 DEF EncOK
<1>9. HashOK(hash', data, stream', m, off2, seg2)
  <2> SUFFICES ASSUME NEW q \in DOMAIN hash'
               PROVE  \E j \in 1..(m - s) :
                        /\ hash'[q] = CODE_FIRST - 1 + j
                        /\ q = <<stream'[s + j].code, data[off2[s + j + 1] + 1]>>
    <3> HIDE DEF m, s
    <3> QED BY <1>6, ZenonT(40) DEF HashOK
  <2>1. CASE q \in DOMAIN hash
    <3>1. PICK j \in 1..(n - s) : /\ hash[q] = CODE_FIRST - 1 + j
                                  /\ q = <<stream[s + j].code, data[off[s + j + 1] + 1]>>
      BY <1>1, <2>1 DEF HashOK
    <3>2. j \in 1..(m - s) /\ s + j \in 1..n /\ s + j + 1 \in 1..(n + 1)
      BY <1>1, SMTT(30)
    <3>3. hash'[q] = hash[q]
      BY <2>1
    <3>4. stream'[s + j] = stream[s + j] /\ off2[s + j + 1] = off[s + j + 1]
      BY <1>4, <1>6, <3>2
    <3> HIDE DEF s, m
    <3> QED BY <3>1, <3>2, <3>3, <3>4
  <2>2. CASE q \notin DOMAIN hash
    <3>1. q = <<enc.oldcode, Byte>> /\ hash'[q] = enc.free_ent
      BY <2>2
    <3> DEFINE j == m - s
    <3>2. j \in 1..(m - s) /\ s + j = m
      BY <1>1
    <3>3. enc.free_ent = CODE_FIRST - 1 + j
      <4>1. CODE_FIRST \in Nat
        BY CodesAre
      <4> HIDE DEF CODE_FIRST, s
      <4> QED BY <1>1, <1>2, <4>1
    <3> HIDE DEF j, s, m
    <3>4. q = <<stream'[s + j].code, data[off2[s + j + 1] + 1]>>
      BY <1>3, <1>4, <1>6, <1>7, <3>1, <3>2
    <3> QED BY <3>1, <3>2, <3>3, <3>4
  <2> QED BY <2>1, <2>2
<1> HIDE DEF m
<1> QED BY <1>4, <1>5, <1>8, <1>9, WritesOn

\* The same with a Clear code, at the width so far.
LEMMA ClearWrites ==
  ASSUME LzwSafe, pc = "encode", given < Len(data), NEW n, NEW off, NEW seg, NEW bits,
         Writing(n, off, seg, bits), n > 0,
         given' = given + 1, data' = data, hash' = <<>>,
         NEW v, v = [code |-> CODE_CLEAR, width |-> enc.nbits],
         stream' = stream \o <<Written(enc, enc.oldcode), v>>,
         WidthIs(enc.nbits, enc.free_ent + 1),
         enc'.free_ent = CODE_FIRST, enc'.oldcode = Byte, enc'.nbits = 9,
         enc'.outbits = enc.outbits + enc.nbits + enc.nbits
  PROVE  \E n2, off2, seg2, bits2 : Writing(n2, off2, seg2, bits2)'
<1> DEFINE w == Written(enc, enc.oldcode)
           s == seg[n + 1]
           m == n + 1
           b == bits[n + 1] + enc.nbits
           off1 == Grow(off, n, given)
           seg1 == Grow(seg, n, s)
           bits1 == Grow(bits, n, b)
           off2 == Grow(off1, m, given)
           seg2 == Grow(seg1, m, m + 1)
           bits2 == Grow(bits1, m, b + enc.nbits)
<1>1. /\ n \in Nat /\ n = Len(stream) /\ Parsed(data, stream, n, off, seg, bits)
      /\ EncOK(enc, data, given, n, off, seg, bits) /\ stream \in Seq(Codewords)
      /\ off[n + 1] \in Nat /\ s \in Nat /\ bits[n + 1] \in Nat /\ s <= n /\ s > 0
      /\ given \in Nat /\ enc.nbits \in Nat
  BY WritingIs
<1>2. /\ enc.free_ent = CODE_FIRST + (n - s) /\ enc.outbits = bits[n + 1]
      /\ enc.oldcode # NoCode
  BY <1>1 DEF EncOK
<1>3. w \in Codewords /\ v \in Codewords
  <2>1. enc.oldcode \in 0..CODE_MAX /\ enc \in EncoderRecords /\ enc.nbits \in Widths
    BY <1>2, EncodingIs
  <2>2. CODE_CLEAR \in 0..CODE_MAX
    BY CodesAre
  <2> QED BY <2>1, <2>2, WrittenIs DEF Codewords
<1> HIDE DEF w
<1>4. /\ Len(stream') = m + 1 /\ \A i \in 1..n : stream'[i] = stream[i]
      /\ stream'[m] = w /\ stream'[m + 1] = v
  <2> DEFINE t == <<w, v>>
  <2>1. t \in Seq(Codewords) /\ Len(t) = 2 /\ t[1] = w /\ t[2] = v
    BY <1>3
  <2> HIDE DEF t
  <2>2. /\ Len(stream \o t) = Len(stream) + 2
        /\ \A i \in 1..Len(stream) : (stream \o t)[i] = stream[i]
        /\ (stream \o t)[Len(stream) + 1] = w /\ (stream \o t)[Len(stream) + 2] = v
    <3>1. 1 \in 1..Len(t) /\ 2 \in 1..Len(t)
      BY <2>1
    <3>2. /\ Len(stream \o t) = Len(stream) + Len(t)
          /\ \A i \in 1..Len(stream) : (stream \o t)[i] = stream[i]
          /\ \A i \in 1..Len(t) : (stream \o t)[Len(stream) + i] = t[i]
      <4>1. stream \in Seq(Codewords) /\ t \in Seq(Codewords)
        BY <1>1, <2>1
      <4> QED BY <4>1, JoinedParts
    <3> QED BY <2>1, <3>1, <3>2
  <2>3. stream' = stream \o t
    BY DEF t, w
  <2> QED BY <1>1, <2>2, <2>3
<1>5. Parsed(data, stream', m, off1, seg1, bits1)
  BY <1>1, <1>4, StringPut DEF w
<1>6. off1[m + 1] = given /\ seg1[m + 1] = s /\ bits1[m + 1] = b
  BY <1>1 DEF Grow
<1> HIDE DEF off1, seg1, bits1
<1>7. Parsed(data, stream', m + 1, off2, seg2, bits2)
  <2>1. enc.free_ent + 1 = CODE_FIRST + (m - s)
    <3>1. CODE_FIRST \in Nat
      BY CodesAre
    <3> HIDE DEF CODE_FIRST, s
    <3> QED BY <1>1, <1>2, <3>1
  <2>2. /\ stream'[m + 1].code = CODE_CLEAR /\ stream'[m + 1].width = enc.nbits
    BY <1>4
  <2>3. m + 1 \in Nat
    BY <1>1
  <2> HIDE DEF m, s, b
  <2>4. WidthIs(stream'[m + 1].width, CODE_FIRST + (m - seg1[m + 1]))
    BY <1>6, <2>1, <2>2
  <2>5. Parsed(data, stream', m + 1, Grow(off1, m, given), Grow(seg1, m, m + 1),
               Grow(bits1, m, bits1[m + 1] + stream'[m + 1].width))
    BY <1>1, <1>5, <1>6, <2>2, <2>3, <2>4, OneCodeMore
  <2> QED BY <1>6, <2>2, <2>5
<1>8. /\ off2[m + 1 + 1] = given /\ seg2[m + 1 + 1] = m + 1 /\ bits2[m + 1 + 1] = b + enc.nbits
  BY <1>1 DEF Grow
<1> HIDE DEF off2, seg2, bits2
<1>9. Byte \in Values /\ Byte # NoCode /\ Byte = data[given + 1]
  <2>1. Byte # NoCode
    BY ByteEncoded
  <2>2. given + 1 \in 1..Len(data) /\ data \in Seq(Values)
    BY EncodingIs DEF LzwSafe, StripOK
  <2>3. data[given + 1] \in Values
    BY <2>2, ElementIs
  <2> QED BY <2>1, <2>3 DEF Byte
<1>10. EncOK(enc', data, given', m + 1, off2, seg2, bits2)
  <2> DEFINE n2 == m + 1
  <2>1. Spells(data, off2, n2, n2 - n2, Byte, given, given + 1)
    BY <1>9 DEF Spells
  <2>2. enc'.free_ent = CODE_FIRST + (n2 - n2) /\ WidthIs(enc'.nbits, enc'.free_ent)
    <3>1. CODE_FIRST \in Nat /\ WidthIs(9, CODE_FIRST)
      BY CodesAre, FirstWidth
    <3>2. n2 - n2 = 0
      BY <1>1
    <3> HIDE DEF CODE_FIRST, n2
    <3> QED BY <3>1, <3>2
  <2>3. n2 > 0 /\ given < given + 1
    BY <1>1
  <2>4. enc'.outbits = b + enc.nbits
    BY <1>2
  <2>5. off2[n2 + 1] = given /\ seg2[n2 + 1] = n2 /\ bits2[n2 + 1] = b + enc.nbits
    BY <1>8
  <2> HIDE DEF n2, b
  <2>6. EncOK(enc', data, given', n2, off2, seg2, bits2)
    BY <1>9, <2>1, <2>2, <2>3, <2>4, <2>5 DEF EncOK
  <2> QED BY <2>6 DEF n2
<1>11. HashOK(hash', data, stream', m + 1, off2, seg2)
  <2>1. DOMAIN hash' = {}
    OBVIOUS
  <2> QED BY <2>1 DEF HashOK
<1>12. \E n2, off3, seg3, bits3 : Writing(n2, off3, seg3, bits3)'
  <2> DEFINE n2 == m + 1
  <2>1. /\ n2 = Len(stream') /\ Parsed(data, stream', n2, off2, seg2, bits2)
        /\ EncOK(enc', data, given', n2, off2, seg2, bits2)
        /\ HashOK(hash', data, stream', n2, off2, seg2)
    BY <1>4, <1>7, <1>10, <1>11
  <2> HIDE DEF n2
  <2> QED BY <2>1, WritesOn
<1> QED BY <1>12

LEMMA NewStringWrites ==
  ASSUME LzwSafe, NewString, NEW n, NEW off, NEW seg, NEW bits, Writing(n, off, seg, bits)
  PROVE  \E n2, off2, seg2, bits2 : Writing(n2, off2, seg2, bits2)'
<1> DEFINE r == Room(enc)
           room == [r EXCEPT !.incount = @ + 1]
           x == Put(room)
           put == [x EXCEPT !.oldcode = Byte, !.free_ent = @ + 1]
           due == put.incount >= put.checkpoint
           later == put.incount + CHECK_GAP
           checked == [put EXCEPT !.checkpoint = later]
           string == Written(enc, enc.oldcode)
           clear == Written(put, CODE_CLEAR)
           longer == [s \in DOMAIN hash \cup {<<enc.oldcode, Byte>>} |->
                        IF s \in DOMAIN hash THEN hash[s] ELSE enc.free_ent]
           wider == [put EXCEPT !.nbits = @ + 1]
           ratio == Ratio(put)
           rated == [checked EXCEPT !.ratio = ratio]
<1>1. /\ pc = "encode" /\ given < Len(data) /\ enc.oldcode # NoCode
      /\ \/ /\ Full(put)
            /\ Encode(Cleared(put), <<>>, <<string, clear>>)
         \/ /\ ~Full(put) /\ TooBig(put)
            /\ Encode(wider, longer, <<string>>)
         \/ /\ ~Full(put) /\ ~TooBig(put) /\ due /\ Ratio(put) <= put.ratio
            /\ Encode(Cleared(checked), <<>>, <<string, clear>>)
         \/ /\ ~Full(put) /\ ~TooBig(put) /\ due /\ Ratio(put) > put.ratio
            /\ Encode(rated, longer, <<string>>)
         \/ /\ ~Full(put) /\ ~TooBig(put) /\ ~due
            /\ Encode(put, longer, <<string>>)
  BY DEF NewString, Encoding
<1>2. /\ n \in Nat /\ n > 0 /\ EncOK(enc, data, given, n, off, seg, bits)
      /\ enc.free_ent \in Nat /\ enc.free_ent <= CODE_MAX - 2 /\ enc.nbits \in Nat
  <2>1. n \in Nat /\ n # 0
    BY <1>1, WritingIs
  <2> QED BY <1>1, <2>1, WritingIs
<1>3. WidthIs(enc.nbits, enc.free_ent)
  BY <1>2 DEF EncOK
<1>4. enc \in EncoderRecords /\ enc.incount \in Nat /\ enc.outbits \in Nat
  BY <1>1, EncodingIs DEF EncoderRecords
<1>5. /\ r \in EncoderRecords /\ r.nbits = enc.nbits /\ r.free_ent = enc.free_ent
      /\ r.outbits = enc.outbits
  BY <1>4, RoomIs DEF Room
<1> HIDE DEF r
<1>6. /\ room \in EncoderRecords /\ room.nbits = enc.nbits /\ room.free_ent = enc.free_ent
      /\ room.outbits = enc.outbits
  BY <1>5 DEF EncoderRecords
<1> HIDE DEF room
<1>7. /\ x \in EncoderRecords /\ x.nbits = enc.nbits /\ x.free_ent = enc.free_ent
      /\ x.outbits = enc.outbits + enc.nbits
  BY <1>6, PutIs, BitsPut
<1> HIDE DEF x
<1>8. Byte \in NoCode..CODE_MAX /\ x.free_ent + 1 \in Nat
  BY <1>1, <1>2, <1>7, ByteEncoded
<1>9. /\ put \in EncoderRecords /\ put.nbits = enc.nbits /\ put.free_ent = enc.free_ent + 1
      /\ put.outbits = enc.outbits + enc.nbits /\ put.oldcode = Byte
      /\ put.incount \in Nat
  BY <1>7, <1>8 DEF EncoderRecords
<1> HIDE DEF put
<1>10. later \in Nat
  <2>1. CHECK_GAP \in Nat
    BY CodesAre
  <2> QED BY <1>9, <2>1
<1> HIDE DEF later
<1>11. /\ checked \in EncoderRecords /\ checked.nbits = enc.nbits
       /\ checked.free_ent = enc.free_ent + 1
       /\ checked.outbits = enc.outbits + enc.nbits /\ checked.oldcode = Byte
  BY <1>9, <1>10 DEF EncoderRecords
<1>12. clear = [code |-> CODE_CLEAR, width |-> enc.nbits]
  BY <1>9 DEF Written
<1> HIDE DEF checked, clear, string, ratio
<1>13. /\ enc.free_ent + 1 <= MAXCODE(enc.nbits) => WidthIs(enc.nbits, enc.free_ent + 1)
       /\ enc.free_ent + 1 > MAXCODE(enc.nbits) /\ enc.free_ent + 1 < CODE_MAX
            => WidthIs(enc.nbits + 1, enc.free_ent + 1)
       /\ enc.free_ent + 2 = CODE_MAX => enc.nbits = 12
  BY <1>2, <1>3, NextWidth
<1>14. MAXCODE(enc.nbits) \in Nat /\ CODE_MAX \in Nat /\ MAXCODE(12) = CODE_MAX
  <2>1. enc.nbits \in Widths
    BY <1>4 DEF EncoderRecords
  <2> QED BY <2>1, CodesAre
<1> HIDE DEF MAXCODE, CODE_MAX, CODE_FIRST
<1>15. CASE /\ Full(put)
            /\ Encode(Cleared(put), <<>>, <<string, clear>>)
  <2>1. enc.free_ent + 1 = CODE_MAX - 1
    BY <1>9, <1>15 DEF Full
  <2>2. WidthIs(enc.nbits, enc.free_ent + 1)
    BY <1>2, <1>13, <1>14, <2>1
  <2>3. /\ given' = given + 1 /\ enc' = Cleared(put) /\ hash' = <<>>
        /\ stream' = stream \o <<string, clear>> /\ data' = data
    BY <1>15, EncodeIs
  <2>4. /\ enc'.nbits = 9 /\ enc'.free_ent = CODE_FIRST /\ enc'.oldcode = Byte
        /\ enc'.outbits = enc.outbits + enc.nbits + enc.nbits
    BY <1>9, <2>3, AfterCleared
  <2> QED BY <1>1, <1>2, <1>12, <2>2, <2>3, <2>4, ClearWrites DEF string
<1>16. CASE /\ ~Full(put) /\ TooBig(put)
            /\ Encode(wider, longer, <<string>>)
  <2>1. enc.free_ent + 1 < CODE_MAX /\ enc.free_ent + 1 > MAXCODE(enc.nbits)
    BY <1>2, <1>9, <1>14, <1>16 DEF TooBig
  <2>2. WidthIs(enc.nbits + 1, enc.free_ent + 1)
    BY <1>13, <2>1
  <2>3. wider.nbits = enc.nbits + 1 /\ wider.free_ent = enc.free_ent + 1 /\ wider.oldcode = Byte
        /\ wider.outbits = enc.outbits + enc.nbits
    BY <1>9 DEF EncoderRecords
  <2> HIDE DEF wider
  <2>4. /\ given' = given + 1 /\ enc' = wider /\ hash' = longer
        /\ stream' = stream \o <<string>> /\ data' = data
    BY <1>16, EncodeIs
  <2> QED BY <1>1, <1>2, <2>2, <2>3, <2>4, StringWrites DEF string
<1>17. CASE /\ ~Full(put) /\ ~TooBig(put) /\ due /\ Ratio(put) <= put.ratio
            /\ Encode(Cleared(checked), <<>>, <<string, clear>>)
  <2>1. enc.free_ent + 1 <= MAXCODE(enc.nbits)
    BY <1>2, <1>9, <1>14, <1>17 DEF TooBig
  <2>2. WidthIs(enc.nbits, enc.free_ent + 1)
    BY <1>13, <2>1
  <2>3. /\ given' = given + 1 /\ enc' = Cleared(checked) /\ hash' = <<>>
        /\ stream' = stream \o <<string, clear>> /\ data' = data
    BY <1>17, EncodeIs
  <2>4. /\ enc'.nbits = 9 /\ enc'.free_ent = CODE_FIRST /\ enc'.oldcode = Byte
        /\ enc'.outbits = enc.outbits + enc.nbits + enc.nbits
    BY <1>11, <2>3, AfterCleared
  <2> QED BY <1>1, <1>2, <1>12, <2>2, <2>3, <2>4, ClearWrites DEF string
<1>18. ASSUME ~TooBig(put), NEW e, Encode(e, longer, <<string>>),
              e.nbits = enc.nbits, e.free_ent = enc.free_ent + 1, e.oldcode = Byte,
              e.outbits = enc.outbits + enc.nbits
       PROVE  \E n2, off2, seg2, bits2 : Writing(n2, off2, seg2, bits2)'
  <2>1. enc.free_ent + 1 <= MAXCODE(enc.nbits)
    BY <1>2, <1>9, <1>14, <1>18 DEF TooBig
  <2>2. WidthIs(enc.nbits, enc.free_ent + 1)
    BY <1>13, <2>1
  <2>3. /\ given' = given + 1 /\ enc' = e /\ hash' = longer
        /\ stream' = stream \o <<string>> /\ data' = data
    BY <1>18, EncodeIs
  <2> QED BY <1>1, <1>2, <1>18, <2>2, <2>3, StringWrites DEF string
<1>19. CASE /\ ~Full(put) /\ ~TooBig(put) /\ due /\ Ratio(put) > put.ratio
            /\ Encode(rated, longer, <<string>>)
  <2>1. rated.nbits = enc.nbits /\ rated.free_ent = enc.free_ent + 1 /\ rated.oldcode = Byte
        /\ rated.outbits = enc.outbits + enc.nbits
    BY <1>11 DEF EncoderRecords
  <2> HIDE DEF rated
  <2> QED BY <1>18, <1>19, <2>1
<1>20. CASE /\ ~Full(put) /\ ~TooBig(put) /\ ~due
            /\ Encode(put, longer, <<string>>)
  BY <1>9, <1>18, <1>20
<1> QED BY <1>1, <1>15, <1>16, <1>17, <1>19, <1>20

-----------------------------------------------------------------------------
(***************************************************************************)
(* The strings since a Clear code, and the entries the decoder has made of *)
(* them: one fewer, since an entry ends with the first byte of the code    *)
(* that follows.                                                           *)
(***************************************************************************)
Strings(d, st, s, k, off) ==
  \A j \in 1..k : /\ off[s + j] \in Nat /\ off[s + j + 1] \in Nat /\ off[s + j] < off[s + j + 1]
                  /\ Spells(d, off, s, j - 1, st[s + j].code, off[s + j], off[s + j + 1])

EntryOf(d, st, s, j, off) ==
  [next |-> st[s + j].code, length |-> off[s + j + 1] - off[s + j] + 1,
   value |-> d[off[s + j + 1] + 1], firstchar |-> d[off[s + j] + 1]]
Recorded(d, st, s, k, off, table) ==
  /\ \A v \in Values : table[v] = [next |-> NULL, length |-> 1, value |-> v, firstchar |-> v]
  /\ \A j \in 1..k : table[CODE_FIRST - 1 + j] = EntryOf(d, st, s, j, off)

LEMMA SegmentStrings ==
  ASSUME NEW d, NEW st, NEW n, NEW off, NEW seg, NEW bits, Parsed(d, st, n, off, seg, bits),
         NEW m \in 0..n
  PROVE  /\ seg[m + 1] \in Nat /\ seg[m + 1] <= m /\ (m > 0 => seg[m + 1] > 0)
         /\ Strings(d, st, seg[m + 1], m - seg[m + 1], off)
<1> DEFINE s == seg[m + 1]
<1>1. n \in Nat /\ m + 1 \in 1..(n + 1)
  BY ParsedIs
<1>2. s \in Nat /\ s < m + 1 /\ \A i \in (s + 1)..(m + 1) : seg[i] = s
  BY <1>1, ParsedIs
<1>3. m > 0 => s > 0
  <2>1. m > 0 => m \in 1..n
    BY <1>1
  <2> QED BY <2>1, ClearedBefore
<1>4. ASSUME NEW j \in 1..(m - s)
      PROVE  /\ off[s + j] \in Nat /\ off[s + j + 1] \in Nat /\ off[s + j] < off[s + j + 1]
             /\ Spells(d, off, s, j - 1, st[s + j].code, off[s + j], off[s + j + 1])
  <2> DEFINE i == s + j
  <2>1. /\ i \in 1..n /\ i + 1 \in 1..(n + 1) /\ i \in 1..(n + 1) /\ s # i /\ i - s - 1 = j - 1
        /\ i \in (s + 1)..(m + 1) /\ i + 1 \in (s + 1)..(m + 1)
    BY <1>1, <1>2
  <2> HIDE DEF i, s
  <2>2. seg[i] = s /\ seg[i + 1] = s
    BY <1>2, <2>1
  <2>3. off[i] \in Nat /\ off[i + 1] \in Nat /\ CodeAt(d, st, i, off, seg, bits)
    BY <2>1, ParsedIs
  <2>4. StringAt(d, st, i, off, seg)
    BY <2>1, <2>2, <2>3 DEF CodeAt, ClearAt
  <2>5. off[i] < off[i + 1] /\ Spells(d, off, s, i - s - 1, st[i].code, off[i], off[i + 1])
    BY <2>2, <2>4 DEF StringAt
  <2> QED BY <2>1, <2>3, <2>5 DEF i
<1>5. Strings(d, st, s, m - s, off)
  BY <1>4 DEF Strings
<1> QED BY <1>1, <1>2, <1>3, <1>5

\* What the next code is.
LEMMA NextCodeIs ==
  ASSUME NEW d, NEW st, NEW n, NEW off, NEW seg, NEW bits, Parsed(d, st, n, off, seg, bits),
         NEW m \in 0..(n - 1)
  PROVE  /\ WidthIs(st[m + 1].width, CODE_FIRST + (m - seg[m + 1]))
         /\ bits[m + 2] = bits[m + 1] + st[m + 1].width
         /\ off[m + 1] \in Nat /\ off[m + 2] \in Nat /\ bits[m + 1] \in Nat /\ bits[m + 2] \in Nat
         /\ bits[m + 2] <= bits[n + 1] /\ bits[n + 1] \in Nat
         /\ st[m + 1].code = CODE_CLEAR => off[m + 2] = off[m + 1] /\ seg[m + 2] = m + 1
         /\ st[m + 1].code # CODE_CLEAR =>
              /\ seg[m + 1] > 0 /\ seg[m + 2] = seg[m + 1] /\ off[m + 1] < off[m + 2] /\ m > 0
              /\ CODE_FIRST + (m - seg[m + 1]) + 1 < CODE_MAX
              /\ Spells(d, off, seg[m + 1], m - seg[m + 1], st[m + 1].code, off[m + 1], off[m + 2])
<1> DEFINE i == m + 1
           s == seg[i]
<1>1. n \in Nat /\ i \in 1..n /\ i \in 1..(n + 1) /\ i + 1 \in 1..(n + 1) /\ i + 1 = m + 2
      /\ n + 1 \in 1..(n + 1)
  BY ParsedIs
<1>2. /\ off[i] \in Nat /\ bits[i] \in Nat /\ off[i + 1] \in Nat /\ bits[i + 1] \in Nat
      /\ bits[i + 1] <= bits[n + 1] /\ s \in Nat /\ s < i /\ bits[n + 1] \in Nat
  <2> HIDE DEF i
  <2> QED BY <1>1, ParsedIs
<1>3. CodeAt(d, st, i, off, seg, bits)
  <2> HIDE DEF i
  <2> QED BY <1>1, ParsedIs
<1>4. /\ CODE_FIRST + (i - s) - 1 = CODE_FIRST + (m - s) /\ i - s - 1 = m - s
      /\ CODE_FIRST + (i - s) = CODE_FIRST + (m - s) + 1
  <2>1. CODE_FIRST \in Nat
    BY CodesAre
  <2> HIDE DEF CODE_FIRST, s
  <2> QED BY <1>1, <1>2, <2>1
<1>5. WidthIs(st[i].width, CODE_FIRST + (i - s) - 1) /\ bits[i + 1] = bits[i] + st[i].width
  BY <1>3 DEF CodeAt
<1>6. ASSUME st[i].code = CODE_CLEAR
      PROVE  off[i + 1] = off[i] /\ seg[i + 1] = i
  <2>1. ~StringAt(d, st, i, off, seg)
    <3> SUFFICES ASSUME StringAt(d, st, i, off, seg) PROVE FALSE
      OBVIOUS
    <3>1. Spells(d, off, s, i - s - 1, st[i].code, off[i], off[i + 1])
      BY DEF StringAt
    <3>2. i - s - 1 \in Int
      BY <1>1, <1>2
    <3> HIDE DEF i, s
    <3> QED BY <1>6, <3>1, <3>2, NeitherClearNorEnd
  <2> QED BY <1>3, <2>1 DEF CodeAt, ClearAt
<1>7. ASSUME st[i].code # CODE_CLEAR
      PROVE  /\ s > 0 /\ seg[i + 1] = s /\ off[i] < off[i + 1]
             /\ CODE_FIRST + (i - s) < CODE_MAX
             /\ Spells(d, off, s, i - s - 1, st[i].code, off[i], off[i + 1])
  BY <1>3, <1>7 DEF CodeAt, ClearAt, StringAt
<1>8. s > 0 => m > 0
  BY <1>1, <1>2
<1> HIDE DEF s, CODE_FIRST
<1>9. i = m + 1 /\ s = seg[m + 1]
  BY DEF s
<1> HIDE DEF i
<1> QED BY <1>1, <1>2, <1>4, <1>5, <1>6, <1>7, <1>8, <1>9

LEMMA EntryOfString ==
  ASSUME NEW d, NEW st, NEW s \in Nat, NEW k \in Int, NEW off, NEW table,
         Strings(d, st, s, k, off), Recorded(d, st, s, k, off, table),
         NEW c, NEW from \in Int, NEW to \in Int, Spells(d, off, s, k, c, from, to)
  PROVE  table[c].length = to - from /\ table[c].firstchar = d[from + 1] /\ table[c].value = d[to]
         /\ to - from > 0
<1>1. CASE ByteString(d, c, from, to)
  <2>1. c \in Values /\ to = from + 1 /\ d[to] = c
    BY <1>1 DEF ByteString
  <2>2. table[c] = [next |-> NULL, length |-> 1, value |-> c, firstchar |-> c]
    BY <2>1 DEF Recorded
  <2> QED BY <2>1, <2>2
<1>2. ASSUME NEW j \in 1..k, EnteredString(d, off, s, j, c, from, to)
      PROVE  table[c].length = to - from /\ table[c].firstchar = d[from + 1] /\ table[c].value = d[to]
             /\ to - from > 0
  <2> DEFINE a == off[s + j]
             b == off[s + j + 1]
  <2>1. /\ c = CODE_FIRST - 1 + j /\ to - from = b - a + 1
        /\ \A x \in 1..(to - from) : d[from + x] = d[a + x]
    BY <1>2 DEF EnteredString
  <2>2. a \in Nat /\ b \in Nat /\ a < b
    BY DEF Strings
  <2>3. table[c] = [next |-> st[s + j].code, length |-> b - a + 1,
                    value |-> d[b + 1], firstchar |-> d[a + 1]]
    BY <2>1 DEF Recorded, EntryOf
  <2> HIDE DEF a, b
  <2>4. 1 \in 1..(to - from) /\ to - from \in 1..(to - from)
    BY <2>1, <2>2
  <2>5. d[from + 1] = d[a + 1] /\ d[from + (to - from)] = d[a + (to - from)]
    BY <2>1, <2>4
  <2>6. from + (to - from) = to /\ a + (to - from) = b + 1
    BY <2>1, <2>2
  <2> QED BY <2>1, <2>2, <2>3, <2>5, <2>6
<1> QED BY <1>1, <1>2, SpellsCases

HasStrings(table, d, st, s, k, off) ==
  /\ table \in Tables /\ s \in Nat /\ k \in Int /\ CODE_FIRST - 1 + k < CSIZE
  /\ Strings(d, st, s, k, off) /\ Recorded(d, st, s, k, off, table)

\* The last r entries of the chain of a code with the string d[from + 1], ..., d[to].
SpellsUp(path, d, off, s, k, from, to, r) ==
  /\ Len(path) = r
  /\ \A i \in 1..r : Spells(d, off, s, k, path[i], from, to - r + i)

\* The chain of a code: its i-th entry has the first i bytes of the string, or, when
\* the chain is cut off at n entries, as many as the string has before them and i more.
LEMMA ChainSpells ==
  ASSUME NEW table, NEW n \in Nat, NEW f, IsChain(f, table, n),
         NEW d, NEW st, NEW s, NEW k, NEW off, HasStrings(table, d, st, s, k, off),
         NEW z \in 0..n, NEW c, NEW from \in Int, NEW to \in Int,
         Spells(d, off, s, k, c, from, to)
  PROVE  SpellsUp(f[z][c], d, off, s, k, from, to, Smaller(z, to - from))
<1>0. /\ table \in Tables /\ s \in Nat /\ k \in Int /\ CODE_FIRST - 1 + k < CSIZE
      /\ Strings(d, st, s, k, off) /\ Recorded(d, st, s, k, off, table)
  BY DEF HasStrings
<1>types. table \in Tables
  BY <1>0
<1> DEFINE Right(x, q, a, b) == SpellsUp(f[x][q], d, off, s, k, a, b, Smaller(x, b - a))
           P(x) == \A q : \A a \in Int, b \in Int : Spells(d, off, s, k, q, a, b) => Right(x, q, a, b)
           S == {x \in 0..n : ~P(x)}
<1>1. SUFFICES ASSUME S # {} PROVE FALSE
  <2>1. P(z)
    BY <1>1
  <2> HIDE DEF P
  <2>2. P(z) => Right(z, c, from, to)
    BY DEF P
  <2> QED BY <2>1, <2>2
<1>2. PICK x \in S : \A y \in S : x <= y
  <2>1. S \in SUBSET Nat
    OBVIOUS
  <2> HIDE DEF S
  <2> QED BY <1>1, <2>1, LeastOf
<1>3. x \in 0..n /\ ~P(x) /\ \A y \in 0..n : y < x => P(y)
  BY <1>2
<1> HIDE DEF S, P, Right
<1>4. PICK q : \E a \in Int, b \in Int : Spells(d, off, s, k, q, a, b) /\ ~Right(x, q, a, b)
  BY <1>3 DEF P
<1>5. PICK a \in Int, b \in Int : Spells(d, off, s, k, q, a, b) /\ ~Right(x, q, a, b)
  BY <1>4
<1>6. /\ table[q].length = b - a /\ b - a > 0 /\ q \in Nat
  BY <1>0, <1>5, EntryOfString, NeitherClearNorEnd
<1>7. q \in 0..(CSIZE - 1) /\ q \in Links
  <2>1. CASE ByteString(d, q, a, b)
    BY <1>0, <2>1, CodesAre DEF ByteString, Links
  <2>2. ASSUME NEW j \in 1..k, EnteredString(d, off, s, j, q, a, b)
        PROVE  q \in 0..(CSIZE - 1) /\ q \in Links
    <3>1. q = CODE_FIRST - 1 + j /\ CODE_FIRST \in Nat /\ CSIZE \in Nat
      BY <1>0, <2>2, CodesAre DEF EnteredString
    <3> HIDE DEF CODE_FIRST
    <3> QED BY <1>0, <1>6, <3>1 DEF Links
  <2> QED BY <1>0, <1>5, <2>1, <2>2, SpellsCases
<1>8. x # 0
  <2> SUFFICES ASSUME x = 0 PROVE FALSE
    OBVIOUS
  <2>1. f[0][q] = <<>>
    BY <1>types, <1>7, ChainStart
  <2>2. Smaller(0, b - a) = 0
    BY <1>6 DEF Smaller
  <2> QED BY <1>5, <2>1, <2>2 DEF Right, SpellsUp
<1>9. x \in 1..n /\ x - 1 \in 0..n /\ x - 1 < x
  BY <1>3, <1>8
<1> DEFINE next == table[q].next
<1>10. f[x][q] = Append(f[x - 1][next], q) /\ next \in Links
  <2>1. \A p \in 0..(CSIZE - 1), y \in 1..n :
          /\ f[y][p] = Append(f[y - 1][table[p].next], p)
          /\ table[p].next \in Links /\ y - 1 \in 0..n
    BY <1>types, ChainStep
  <2> QED BY <1>7, <1>9, <2>1
<1>11. f[x - 1][next] \in ChainSeq
  BY <1>types, <1>9, <1>10, ChainType
<1> DEFINE g == f[x - 1][next]
           len == Len(g)
<1>12. /\ len \in Nat /\ Len(f[x][q]) = len + 1 /\ f[x][q][len + 1] = q
       /\ \A i \in 1..len : f[x][q][i] = g[i]
  <2> HIDE DEF next
  <2>1. g \in Seq(0..(CSIZE - 1))
    BY <1>11 DEF ChainSeq
  <2> HIDE DEF g
  <2> QED BY <1>7, <1>10, <2>1 DEF g
<1> HIDE DEF g
<1>13. SUFFICES ASSUME TRUE
                PROVE  /\ len = Smaller(x - 1, b - a - 1)
                       /\ \A i \in 1..len : Spells(d, off, s, k, g[i], a, b - (len + 1) + i)
  <2>1. Smaller(x, b - a) = Smaller(x - 1, b - a - 1) + 1
    BY <1>6, <1>9 DEF Smaller
  <2>2. ASSUME len = Smaller(x - 1, b - a - 1),
               \A i \in 1..len : Spells(d, off, s, k, g[i], a, b - (len + 1) + i)
        PROVE  Right(x, q, a, b)
    <3>1. Len(f[x][q]) = Smaller(x, b - a) /\ Smaller(x, b - a) = len + 1
      BY <1>12, <2>1, <2>2
    <3>2. ASSUME NEW i \in 1..(len + 1)
          PROVE  Spells(d, off, s, k, f[x][q][i], a, b - (len + 1) + i)
      <4>1. CASE i = len + 1
        <5>1. b - (len + 1) + i = b
          BY <1>12, <4>1
        <5> QED BY <1>5, <1>12, <4>1, <5>1
      <4>2. CASE i # len + 1
        <5>1. i \in 1..len
          BY <1>12, <4>2
        <5> HIDE DEF len
        <5> QED BY <1>12, <2>2, <5>1
      <4> QED BY <4>1, <4>2
    <3> HIDE DEF len
    <3> QED BY <3>1, <3>2 DEF Right, SpellsUp
  <2> QED BY <1>5, <1>13, <2>2
<1>14. CASE ByteString(d, q, a, b)
  <2>1. q \in Values /\ b = a + 1
    BY <1>14 DEF ByteString
  <2>2. next = NULL
    <3>1. table[q] = [next |-> NULL, length |-> 1, value |-> q, firstchar |-> q]
      BY <1>0, <2>1 DEF Recorded
    <3> QED BY <3>1
  <2> HIDE DEF next
  <2>3. g = <<>>
    <3>1. f[x - 1][NULL] = <<>>
      BY <1>types, <1>9, ChainStep
    <3> QED BY <2>2, <3>1 DEF g
  <2>4. len = 0
    BY <2>3
  <2>5. Smaller(x - 1, b - a - 1) = 0
    BY <1>9, <2>1 DEF Smaller
  <2> QED BY <2>4, <2>5
<1>15. ASSUME NEW j \in 1..k, EnteredString(d, off, s, j, q, a, b)
       PROVE  /\ len = Smaller(x - 1, b - a - 1)
              /\ \A i \in 1..len : Spells(d, off, s, k, g[i], a, b - (len + 1) + i)
  <2> DEFINE u == off[s + j]
             v == off[s + j + 1]
  <2>1. /\ q = CODE_FIRST - 1 + j /\ b - a = v - u + 1
        /\ \A y \in 1..(b - a) : d[a + y] = d[u + y]
    BY <1>15 DEF EnteredString
  <2>2. u \in Nat /\ v \in Nat /\ u < v /\ Spells(d, off, s, j - 1, st[s + j].code, u, v)
    BY <1>0 DEF Strings
  <2>3. next = st[s + j].code
    <3>1. table[q] = EntryOf(d, st, s, j, off)
      BY <1>0, <2>1 DEF Recorded
    <3> QED BY <3>1 DEF EntryOf
  <2> HIDE DEF u, v, next
  <2>4. Spells(d, off, s, k, next, u, v)
    <3>1. j - 1 \in Int /\ j - 1 <= k
      BY <1>0
    <3> QED BY <1>0, <2>2, <2>3, <3>1, MoreStrings
  <2>5. Right(x - 1, next, u, v)
    BY <1>3, <1>9, <2>2, <2>4 DEF P
  <2>6. len = Smaller(x - 1, v - u) /\ \A i \in 1..len : Spells(d, off, s, k, g[i], u, v - len + i)
    BY <2>5 DEF Right, SpellsUp, g
  <2>7. b - a - 1 = v - u
    BY <2>1, <2>2
  <2>8. len \in Nat /\ len <= v - u
    BY <1>9, <2>2, <2>6 DEF Smaller
  <2>9. ASSUME NEW i \in 1..len
        PROVE  Spells(d, off, s, k, g[i], a, b - (len + 1) + i)
    <3> DEFINE w == v - len + i
    <3>1. w \in Int /\ w - u <= v - u /\ a + (w - u) = b - (len + 1) + i
      <4> HIDE DEF len
      <4> QED BY <2>2, <2>7, <2>8
    <3>2. Spells(d, off, s, k, g[i], u, w)
      BY <2>6
    <3> HIDE DEF w
    <3>3. \A y \in 1..(w - u) : d[a + y] = d[u + y]
      <4>1. \A y \in 1..(w - u) : y \in 1..(b - a)
        BY <2>1, <2>2, <3>1
      <4> QED BY <2>1, <4>1
    <3>4. Spells(d, off, s, k, g[i], a, a + (w - u))
      <4>1. u \in Int /\ w \in Int /\ a \in Int
        BY <2>2, <3>1
      <4> QED BY <1>0, <3>2, <3>3, <4>1, MovedString
    <3> QED BY <3>1, <3>4
  <2> QED BY <2>6, <2>7, <2>9
<1> QED BY <1>0, <1>5, <1>14, <1>15, SpellsCases

\* What the loops over next put into the buffer.
LEMMA ChainBytes ==
  ASSUME NEW table, NEW d, NEW st, NEW s, NEW k, NEW off, HasStrings(table, d, st, s, k, off),
         NEW c, NEW from \in Int, NEW to \in Int, Spells(d, off, s, k, c, from, to),
         NEW z \in Nat, z <= to - from
  PROVE  /\ Len(Chain(table, c, z)) = z
         /\ \A i \in 1..z : /\ Spells(d, off, s, k, Chain(table, c, z)[i], from, to - z + i)
                            /\ table[Chain(table, c, z)[i]].value = d[to - z + i]
<1>0. /\ table \in Tables /\ s \in Nat /\ k \in Int /\ CODE_FIRST - 1 + k < CSIZE
      /\ Strings(d, st, s, k, off) /\ Recorded(d, st, s, k, off, table)
  BY DEF HasStrings
<1> DEFINE path == Chain(table, c, z)
<1>1. PICK f : IsChain(f, table, z) /\ path = f[z][c]
  BY <1>0, ChainOf
<1>2. Smaller(z, to - from) = z /\ z \in 0..z
  BY DEF Smaller
<1>3. Len(path) = z /\ \A i \in 1..z : Spells(d, off, s, k, path[i], from, to - z + i)
  <2>1. SpellsUp(f[z][c], d, off, s, k, from, to, Smaller(z, to - from))
    BY <1>1, <1>2, ChainSpells
  <2> QED BY <1>1, <1>2, <2>1 DEF SpellsUp
<1> HIDE DEF path
<1>4. ASSUME NEW i \in 1..z PROVE table[path[i]].value = d[to - z + i]
  <2>1. to - z + i \in Int /\ Spells(d, off, s, k, path[i], from, to - z + i)
    BY <1>3
  <2> DEFINE v == to - z + i
  <2> HIDE DEF v
  <2>2. v \in Int /\ Spells(d, off, s, k, path[i], from, v)
    BY <2>1 DEF v
  <2>3. table[path[i]].value = d[v]
    BY <1>0, <2>2, EntryOfString
  <2> QED BY <2>3 DEF v
<1> QED BY <1>3, <1>4 DEF path

\* A whole string goes back to a byte.
LEMMA WholeChain ==
  ASSUME NEW table, NEW d, NEW st, NEW s, NEW k, NEW off, HasStrings(table, d, st, s, k, off),
         NEW c, NEW from \in Int, NEW to \in Int, Spells(d, off, s, k, c, from, to),
         to - from > 0
  PROVE  ~Continues(table, Chain(table, c, to - from))
<1>0. /\ table \in Tables /\ s \in Nat /\ k \in Int /\ CODE_FIRST - 1 + k < CSIZE
      /\ Strings(d, st, s, k, off) /\ Recorded(d, st, s, k, off, table)
  BY DEF HasStrings
<1> DEFINE z == to - from
           p == Chain(table, c, z)[1]
<1>1. z \in Nat /\ z <= to - from /\ 1 \in 1..z /\ to - z + 1 = from + 1
  OBVIOUS
<1> HIDE DEF z
<1>2. Spells(d, off, s, k, p, from, from + 1)
  <2>1. Spells(d, off, s, k, p, from, to - z + 1)
    BY <1>1, ChainBytes
  <2> QED BY <1>1, <2>1
<1> HIDE DEF p
<1>3. ASSUME NEW j \in 1..k, EnteredString(d, off, s, j, p, from, from + 1) PROVE FALSE
  <2>1. (from + 1) - from = off[s + j + 1] - off[s + j] + 1
    BY <1>3 DEF EnteredString
  <2>2. off[s + j] \in Nat /\ off[s + j + 1] \in Nat /\ off[s + j] < off[s + j + 1]
    BY <1>0 DEF Strings
  <2> QED BY <2>1, <2>2
<1>4. p \in Values
  BY <1>0, <1>2, <1>3, SpellsCases DEF ByteString
<1>5. table[p] = [next |-> NULL, length |-> 1, value |-> p, firstchar |-> p]
  BY <1>0, <1>4 DEF Recorded
<1>6. table[p].next = NULL
  BY <1>5
<1> QED BY <1>6 DEF Continues, p, z

\* The entry whose string fits is that of the first n bytes.
LEMMA FittingIs ==
  ASSUME NEW table, NEW d, NEW st, NEW s, NEW k, NEW off, HasStrings(table, d, st, s, k, off),
         NEW c, NEW from \in Int, NEW to \in Int, Spells(d, off, s, k, c, from, to),
         to - from <= CSIZE, NEW n \in Nat, 0 < n, n < to - from
  PROVE  /\ Spells(d, off, s, k, Fitting(table, c, n), from, from + n)
         /\ Fitting(table, c, n) # NULL
<1>0. /\ table \in Tables /\ s \in Nat /\ k \in Int /\ CODE_FIRST - 1 + k < CSIZE
      /\ Strings(d, st, s, k, off) /\ Recorded(d, st, s, k, off, table)
  BY DEF HasStrings
<1> DEFINE path == Chain(table, c, CSIZE)
           len == to - from
           fits == {m \in 1..(Len(path) - 1) : table[path[m]].length <= n}
<1>1. CSIZE \in Nat /\ CSIZE \in 0..CSIZE /\ len \in Nat /\ Smaller(CSIZE, len) = len
  BY CodesAre DEF Smaller
<1>2. PICK f : IsChain(f, table, CSIZE) /\ path = f[CSIZE][c]
  BY <1>0, <1>1, ChainOf
<1>3. Len(path) = len /\ \A i \in 1..len : Spells(d, off, s, k, path[i], from, to - len + i)
  <2>1. SpellsUp(f[CSIZE][c], d, off, s, k, from, to, Smaller(CSIZE, to - from))
    BY <1>1, <1>2, ChainSpells
  <2> QED BY <1>1, <1>2, <2>1 DEF SpellsUp
<1> HIDE DEF path
<1>4. ASSUME NEW i \in 1..len
      PROVE  Spells(d, off, s, k, path[i], from, from + i) /\ table[path[i]].length = i
  <2>1. to - len + i = from + i /\ from + i \in Int
    OBVIOUS
  <2>2. Spells(d, off, s, k, path[i], from, from + i)
    BY <1>3, <2>1
  <2> DEFINE v == from + i
  <2>3. v \in Int /\ v - from = i
    OBVIOUS
  <2> HIDE DEF v
  <2>4. table[path[i]].length = v - from
    BY <1>0, <2>2, <2>3, EntryOfString DEF v
  <2> QED BY <2>2, <2>3, <2>4
<1>5. \A m : m \in fits <=> m \in 1..n
  <2> HIDE DEF len
  <2>1. n < len
    BY DEF len
  <2> QED BY <1>1, <1>3, <1>4, <2>1, SMTT(30)
<1> HIDE DEF fits
<1>6. (CHOOSE m \in fits : \A i \in fits : i <= m) = n
  <2>1. n \in fits /\ \A i \in fits : i <= n
    BY <1>5
  <2>2. \A m \in fits : (\A i \in fits : i <= m) => m = n
    BY <1>5, <2>1
  <2> QED BY <2>1, <2>2
<1>7. Fitting(table, c, n) = path[n]
  <2>1. fits # {}
    BY <1>5
  <2>2. Fitting(table, c, n) =
          IF fits = {} THEN NULL ELSE path[CHOOSE m \in fits : \A i \in fits : i <= m]
    BY DEF Fitting, fits, path
  <2> QED BY <1>6, <2>1, <2>2
<1>8. Spells(d, off, s, k, path[n], from, from + n)
  <2>1. n \in 1..len
    OBVIOUS
  <2> QED BY <1>4, <2>1
<1>9. path[n] # NULL
  <2>1. path[n] \in Nat /\ NULL = -2
    BY <1>0, <1>8, NeitherClearNorEnd, CodesAre
  <2> QED BY <2>1
<1> QED BY <1>7, <1>8, <1>9

-----------------------------------------------------------------------------
(***************************************************************************)
(* The decoder.  When it has read m codes it has put the bytes they stand  *)
(* for, or is to go on with the last one's string.                         *)
(***************************************************************************)
\* All that was encoded is in the stream, and the end of the information behind it.
Spelled(n, off, seg, bits) ==
  /\ Parsed(data, stream, n, off, seg, bits) /\ Len(stream) = n + 1 /\ off[n + 1] = Len(data)

\* The local variables and the table, behind m codes.
PlaceOK(d, st, m, off, seg, l, table) ==
  LET s == seg[m + 1]
      k == m - s
  IN  /\ Recorded(d, st, s, k - 1, off, table)
      /\ l.free = IF k = 0 THEN CODE_FIRST ELSE CODE_FIRST + k - 1
      /\ WidthIs(l.nbits, CODE_FIRST + k)
      /\ k > 0 => l.old = st[m].code

Processed == IF pc \in {"code", "first"} THEN loc.at - 1 ELSE loc.at

\* The bytes of a call that has not returned, and the string it goes on with.
BytesOK(m, off, seg) ==
  /\ pc # "idle" => \A x \in 1..Len(buf) : buf[x] = data[taken + x]
  /\ dec_restart = 0 => off[m + 1] = taken + (IF pc = "idle" THEN 0 ELSE Len(buf))
  /\ dec_restart > 0 => /\ m - seg[m + 1] > 0 /\ dec_codep = stream[m].code
                        /\ taken = off[m] + dec_restart
                        /\ dec_restart < off[m + 1] - off[m]

ReadingAt(m, n, off, seg, bits) ==
  /\ m \in 0..n /\ loc.at \in 0..n
  /\ dec_bitsleft \in Nat /\ dec_bitsleft + bits[loc.at + 1] >= bits[n + 1]
  /\ PlaceOK(data, stream, m, off, seg, loc, dec_codetab)
  /\ pc \in {"code", "first"} => code = stream[m + 1].code
  /\ pc \in {"cleared", "first"} => m = seg[m + 1]
  /\ pc \notin {"cleared", "first"} /\ m = seg[m + 1] => m = 0
  /\ BytesOK(m, off, seg)

\* What the client has been given by a call that returned.
Given == ret = 1 /\ (taken > 0 => buf = SubSeq(data, taken - asked + 1, taken))

LzwTrip(n, off, seg, bits) ==
  /\ ~misread /\ ~failed
  /\ pc = "encode" => Writing(n, off, seg, bits)
  /\ pc # "encode" => Spelled(n, off, seg, bits)
  /\ pc \in EncodePcs => taken = 0 /\ buf = <<>> /\ ret = 1
  /\ pc = "predecode" => enc.outbits >= bits[n + 1]
  /\ pc \notin EncodePcs => ReadingAt(Processed, n, off, seg, bits)
  /\ pc = "idle" => Given

LzwTrips == ~foreign => \E n, off, seg, bits : LzwTrip(n, off, seg, bits)

LEMMA LZWPostEncodeTrips ==
  ASSUME LzwSafe, LZWPostEncode, NEW n, NEW off, NEW seg, NEW bits, LzwTrip(n, off, seg, bits)
  PROVE  \E n2, off2, seg2, bits2 : LzwTrip(n2, off2, seg2, bits2)'
<1> DEFINE r == Room(enc)
           last == Put(r)
           eoi == Put(last)
           w == Written(enc, enc.oldcode)
           v == Written(last, CODE_EOI)
           m == n + 1
           b == bits[n + 1] + enc.nbits
           off2 == Grow(off, n, given)
           seg2 == Grow(seg, n, seg[n + 1])
           bits2 == Grow(bits, n, b)
<1>1. /\ pc = "encode" /\ given = Len(data) /\ pc' = "predecode"
      /\ stream' = stream \o <<w, v>>
      /\ enc' = [eoi EXCEPT !.oldcode = NoCode,
                            !.op = @ + (IF eoi.nextbits > 0 THEN 1 ELSE 0)]
      /\ UNCHANGED <<data, taken, buf, ret, failed, misread>>
  BY DEF LZWPostEncode, stripVars, clientVars, decoderVars
<1>2. Writing(n, off, seg, bits)
  BY <1>1 DEF LzwTrip
<1>3. /\ n \in Nat /\ n = Len(stream) /\ Parsed(data, stream, n, off, seg, bits)
      /\ EncOK(enc, data, given, n, off, seg, bits) /\ stream \in Seq(Codewords)
      /\ off[n + 1] \in Nat /\ bits[n + 1] \in Nat /\ given \in Nat /\ enc.nbits \in Nat
  BY <1>1, <1>2, WritingIs
<1>4. n > 0
  <2>1. Len(data) > 0
    BY <1>1, EncodingIs
  <2> QED BY <1>1, <1>3, <2>1 DEF EncOK
<1>5. enc.outbits = bits[n + 1] /\ enc.oldcode # NoCode
  BY <1>3, <1>4 DEF EncOK
<1>6. /\ enc \in EncoderRecords /\ enc.oldcode \in 0..CODE_MAX
  BY <1>1, <1>5, EncodingIs
<1>7. r \in EncoderRecords /\ r.nbits = enc.nbits /\ r.outbits = enc.outbits
  BY <1>6, RoomIs DEF Room
<1> HIDE DEF r
<1>8. last \in EncoderRecords /\ last.nbits = enc.nbits /\ last.outbits = b
  BY <1>5, <1>7, PutIs, BitsPut
<1> HIDE DEF last
<1>9. eoi \in EncoderRecords /\ eoi.outbits = b + enc.nbits
  BY <1>8, PutIs, BitsPut
<1> HIDE DEF eoi
<1>10. w \in Codewords /\ v \in Codewords
  <2>1. CODE_EOI \in 0..CODE_MAX
    BY CodesAre
  <2> QED BY <1>6, <1>8, <2>1, WrittenIs
<1> HIDE DEF w, v
<1>11. /\ Len(stream') = m + 1 /\ \A i \in 1..n : stream'[i] = stream[i]
       /\ stream'[m] = w
  <2> DEFINE t == <<w, v>>
  <2>1. t \in Seq(Codewords) /\ Len(t) = 2 /\ t[1] = w
    BY <1>10
  <2>2. stream' = stream \o t
    BY <1>1
  <2> HIDE DEF t
  <2>3. /\ Len(stream \o t) = Len(stream) + Len(t)
        /\ \A i \in 1..Len(stream) : (stream \o t)[i] = stream[i]
        /\ \A i \in 1..Len(t) : (stream \o t)[Len(stream) + i] = t[i]
    <3>1. stream \in Seq(Codewords) /\ t \in Seq(Codewords)
      BY <1>3, <2>1
    <3> QED BY <3>1, JoinedParts
  <2>4. 1 \in 1..Len(t)
    BY <2>1
  <2> QED BY <1>3, <2>1, <2>2, <2>3, <2>4
<1>12. Parsed(data, stream', m, off2, seg2, bits2)
  BY <1>1, <1>2, <1>4, <1>11, StringPut DEF w
<1>13. off2[m + 1] = given /\ bits2[m + 1] = b
  BY <1>3 DEF Grow
<1>14. enc'.outbits = b + enc.nbits
  BY <1>1, <1>9 DEF EncoderRecords
<1>15. b + enc.nbits >= b
  BY <1>3
<1> HIDE DEF m, off2, seg2, bits2, b
<1>16. PICK n3, off3, seg3, bits3 : n3 = m /\ off3 = off2 /\ seg3 = seg2 /\ bits3 = bits2
  OBVIOUS
<1>17. Spelled(n3, off3, seg3, bits3)'
  BY <1>1, <1>11, <1>12, <1>13, <1>16 DEF Spelled
<1>18. (taken = 0 /\ buf = <<>> /\ ret = 1 /\ ~misread /\ ~failed)'
  BY <1>1 DEF LzwTrip, EncodePcs
<1>19. (enc.outbits >= bits3[n3 + 1])'
  BY <1>13, <1>14, <1>15, <1>16
<1>20. LzwTrip(n3, off3, seg3, bits3)'
  BY <1>1, <1>17, <1>18, <1>19 DEF LzwTrip, EncodePcs
<1> QED BY <1>20

\* The other steps of the encoder.
LEMMA EncodeTrips ==
  ASSUME LzwSafe, FirstByte \/ KnownString \/ NewString, NEW n, NEW off, NEW seg, NEW bits,
         LzwTrip(n, off, seg, bits)
  PROVE  \E n2, off2, seg2, bits2 : LzwTrip(n2, off2, seg2, bits2)'
<1>1. /\ pc = "encode" /\ pc' = pc /\ UNCHANGED <<taken, buf, ret, failed, misread>>
  BY DEF FirstByte, KnownString, NewString, Encoding, Encode, clientVars, decoderVars
<1>2. Writing(n, off, seg, bits)
  BY <1>1 DEF LzwTrip
<1>3. \E n2, off2, seg2, bits2 : Writing(n2, off2, seg2, bits2)'
  BY <1>2, FirstByteWrites, KnownStringWrites, NewStringWrites
<1>4. PICK n2, off2, seg2, bits2 : Writing(n2, off2, seg2, bits2)'
  BY <1>3
<1>5. (taken = 0 /\ buf = <<>> /\ ret = 1 /\ ~misread /\ ~failed)'
  BY <1>1 DEF LzwTrip, EncodePcs
<1>6. LzwTrip(n2, off2, seg2, bits2)'
  BY <1>1, <1>4, <1>5 DEF LzwTrip, EncodePcs
<1> QED BY <1>6

LEMMA LZWPreDecodeTrips ==
  ASSUME LzwSafe, LZWPreDecode, ~foreign, NEW n, NEW off, NEW seg, NEW bits, LzwTrip(n, off, seg, bits)
  PROVE  LzwTrip(n, off, seg, bits)'
<1>1. /\ pc = "predecode" /\ pc' = "idle" /\ sp' = StartDecoder /\ dec_codetab' = StartTable
      /\ dec_restart' = 0 /\ dec_bitsleft' = ((enc.outbits + 7) \div 8) * 8
      /\ UNCHANGED <<data, stream, taken, buf, ret, failed, misread, loc, code, enc>>
  BY DEF LZWPreDecode, stripVars, clientVars, encoderVars
<1>2. loc = StartDecoder /\ enc \in EncoderRecords
  BY <1>1 DEF LzwSafe, DecoderOK, EncoderOK, EncodePcs
<1>3. Spelled(n, off, seg, bits) /\ Parsed(data, stream, n, off, seg, bits)
      /\ enc.outbits >= bits[n + 1] /\ taken = 0 /\ buf = <<>> /\ ret = 1 /\ ~misread /\ ~failed
  BY <1>1 DEF LzwTrip, EncodePcs, Spelled
<1>4. off[1] = 0 /\ seg[1] = 0 /\ bits[1] = 0 /\ n \in Nat /\ bits[n + 1] \in Nat
  <2>1. off[1] = 0 /\ seg[1] = 0 /\ bits[1] = 0 /\ n \in Nat
    BY <1>3, ParsedIs
  <2>2. n + 1 \in 1..(n + 1)
    BY <2>1
  <2> QED BY <1>3, <2>1, <2>2, ParsedIs
<1>5. dec_bitsleft' \in Nat /\ dec_bitsleft' >= bits[n + 1]
  <2> DEFINE o == enc.outbits
             q == (o + 7) \div 8
  <2>1. o \in Nat
    BY <1>2 DEF EncoderRecords
  <2> HIDE DEF o
  <2>2. q \in Nat /\ q * 8 >= o
    BY <2>1
  <2>3. dec_bitsleft' = q * 8
    BY <1>1 DEF o
  <2> HIDE DEF q
  <2> QED BY <1>3, <1>4, <2>1, <2>2, <2>3 DEF o
<1>6. PlaceOK(data, stream, 0, off, seg, StartDecoder, StartTable)
  <2>1. Recorded(data, stream, 0, -1, off, StartTable)
    <3>1. \A x \in Values : x \in 0..(CSIZE - 1)
      BY CodesAre
    <3>2. \A x \in Values : StartTable[x] = [next |-> NULL, length |-> 1, value |-> x, firstchar |-> x]
      BY <3>1 DEF StartTable
    <3> QED BY <3>2 DEF Recorded
  <2>2. WidthIs(9, CODE_FIRST + 0) /\ CODE_FIRST + 0 = CODE_FIRST
    BY CodesAre, FirstWidth
  <2>3. StartDecoder.free = CODE_FIRST /\ StartDecoder.nbits = 9
    BY CodesAre DEF StartDecoder
  <2>4. seg[0 + 1] = 0 /\ 0 - 0 = 0 /\ 0 - 1 = -1
    BY <1>4
  <2> QED BY <2>1, <2>2, <2>3, <2>4 DEF PlaceOK
<1>7. BytesOK(0, off, seg)'
  BY <1>1, <1>3, <1>4 DEF BytesOK
<1>8. StartDecoder.at = 0
  BY DEF StartDecoder
<1>9. ReadingAt(0, n, off, seg, bits)'
  BY <1>1, <1>2, <1>4, <1>5, <1>6, <1>7, <1>8 DEF ReadingAt
<1>10. Processed' = 0
  BY <1>1, <1>2, <1>8 DEF Processed
<1>11. ReadingAt(Processed, n, off, seg, bits)'
  BY <1>9, <1>10 DEF ReadingAt, BytesOK
<1>12. Given'
  BY <1>1, <1>3 DEF Given
<1>13. Spelled(n, off, seg, bits)'
  BY <1>1, <1>3 DEF Spelled
<1> QED BY <1>1, <1>3, <1>11, <1>12, <1>13 DEF LzwTrip, EncodePcs

LEMMA ReadsOn ==
  ASSUME NEW n, NEW off, NEW seg, NEW bits, LzwTrip(n, off, seg, bits),
         pc \notin EncodePcs, pc' \notin EncodePcs, UNCHANGED <<data, stream, misread>>, ~failed',
         NEW m, Processed' = m, ReadingAt(m, n, off, seg, bits)', pc' = "idle" => Given'
  PROVE  LzwTrip(n, off, seg, bits)'
<1>1. pc # "encode" /\ pc' # "encode" /\ pc' # "predecode"
  BY DEF EncodePcs
<1>2. Spelled(n, off, seg, bits)'
  BY <1>1 DEF LzwTrip, Spelled
<1>3. ReadingAt(Processed, n, off, seg, bits)'
  BY DEF ReadingAt, BytesOK
<1>4. ~misread'
  BY DEF LzwTrip
<1> QED BY <1>1, <1>2, <1>3, <1>4 DEF LzwTrip

LEMMA ReadingIs ==
  ASSUME LzwSafe, ~foreign, pc \notin EncodePcs, NEW n, NEW off, NEW seg, NEW bits,
         LzwTrip(n, off, seg, bits), NEW m, m = Processed
  PROVE  /\ n \in Nat /\ Parsed(data, stream, n, off, seg, bits) /\ Len(stream) = n + 1
         /\ off[n + 1] = Len(data) /\ Len(data) \in Nat /\ data \in Seq(Values) /\ StripSize = Len(data)
         /\ ReadingAt(m, n, off, seg, bits) /\ ~misread /\ ~failed
         /\ m \in 0..n /\ off[m + 1] \in Nat /\ bits[m + 1] \in Nat /\ bits[n + 1] \in Nat
         /\ seg[m + 1] \in Nat /\ seg[m + 1] <= m
         /\ asked \in Nat /\ taken \in Nat /\ Len(buf) \in Nat /\ Len(buf) <= asked
         /\ pc # "idle" => taken + asked <= Len(data)
<1>1. pc # "encode" /\ pc # "predecode"
  BY DEF EncodePcs
<1>2. Spelled(n, off, seg, bits) /\ ReadingAt(m, n, off, seg, bits) /\ ~misread /\ ~failed
  BY <1>1 DEF LzwTrip
<1>3. /\ Parsed(data, stream, n, off, seg, bits) /\ Len(stream) = n + 1
      /\ off[n + 1] = Len(data) /\ m \in 0..n
  BY <1>2 DEF Spelled, ReadingAt
<1>4. StripOK /\ ClientOK
  BY DecodingIs
<1>5. Len(data) \in Nat /\ StripSize = Len(data) /\ data \in Seq(Values)
  BY <1>4, StripIs DEF StripSize, StripOK
<1>6. n \in Nat /\ m + 1 \in 1..(n + 1) /\ n + 1 \in 1..(n + 1)
  <2>1. n \in Nat
    BY <1>3, ParsedIs
  <2> QED BY <1>3, <2>1
<1>7. off[m + 1] \in Nat /\ bits[m + 1] \in Nat /\ bits[n + 1] \in Nat
  BY <1>3, <1>6, ParsedIs
<1>8. seg[m + 1] \in Nat /\ seg[m + 1] <= m
  BY <1>3, SegmentStrings
<1>9. asked \in Nat /\ taken \in Nat /\ Len(buf) \in Nat /\ Len(buf) <= asked
  BY DecodingIs
<1>10. pc # "idle" => taken + asked <= Len(data)
  BY <1>4, <1>5 DEF ClientOK
<1> QED BY <1>2, <1>3, <1>5, <1>6, <1>7, <1>8, <1>9, <1>10

\* A sequence with the bytes of the strip is a part of it.
LEMMA PartOf ==
  ASSUME NEW d \in Seq(Values), NEW b, IsSeq(b), NEW t \in Nat, t + Len(b) <= Len(d),
         \A x \in 1..Len(b) : b[x] = d[t + x]
  PROVE  b = SubSeq(d, t + 1, t + Len(b))
<1> DEFINE k == Len(b)
           T == {b[i] : i \in DOMAIN b}
<1>1. b \in Seq(T)
  BY DEF IsSeq
<1>2. k \in Nat /\ b \in [1..k -> T] /\ DOMAIN b = 1..k
  <2> HIDE DEF T
  <2> QED BY <1>1
<1> HIDE DEF T
<1>3. Len(d) \in Nat /\ \A x \in 1..k : t + x \in 1..Len(d)
  BY <1>2
<1> DEFINE c == SubSeq(d, t + 1, t + k)
<1>4. c = [i \in 1..k |-> d[t + i]]
  <2>1. c = [i \in 1..((t + k) - (t + 1) + 1) |-> d[(t + 1) + i - 1]]
    BY <1>2, <1>3
  <2>2. (t + k) - (t + 1) + 1 = k /\ \A i \in 1..k : (t + 1) + i - 1 = t + i
    BY <1>2
  <2> HIDE DEF c, k
  <2> QED BY <2>1, <2>2
<1> HIDE DEF c
<1>5. b = [i \in 1..k |-> b[i]]
  BY <1>2
<1>6. b = c
  <2> HIDE DEF k
  <2>1. \A i \in 1..k : b[i] = d[t + i]
    BY DEF k
  <2> QED BY <1>4, <1>5, <2>1
<1> QED BY <1>6 DEF c

LEMMA CallReturns ==
  ASSUME NEW bytes, Return(bytes), asked' = asked, data' = data, IsSeq(bytes), Len(bytes) = asked,
         asked \in Nat, taken \in Nat, data \in Seq(Values), taken + asked <= Len(data),
         \A x \in 1..asked : bytes[x] = data[taken + x], ~failed
  PROVE  Given' /\ ~failed' /\ taken' = taken + asked /\ buf' = bytes /\ pc' = "idle"
<1>1. /\ buf' = bytes /\ taken' = taken + asked /\ ret' = 1 /\ ~failed' /\ pc' = "idle"
  <2>1. Len(bytes) >= asked
    OBVIOUS
  <2>2. /\ buf' = bytes /\ taken' = taken + asked /\ pc' = "idle"
        /\ ret' = (IF Len(bytes) >= asked THEN 1 ELSE 0)
        /\ failed' = (failed \/ ~(Len(bytes) >= asked))
    BY DEF Return, Finish
  <2> QED BY <2>1, <2>2
<1>2. bytes = SubSeq(data, taken + 1, taken + asked)
  <2>1. bytes = SubSeq(data, taken + 1, taken + Len(bytes))
    BY PartOf
  <2> QED BY <2>1
<1>3. taken' - asked + 1 = taken + 1
  BY <1>1
<1> QED BY <1>1, <1>2, <1>3 DEF Given

LEMMA LzwAskTrips ==
  ASSUME LzwSafe, LzwAsk, ~foreign, NEW n, NEW off, NEW seg, NEW bits, LzwTrip(n, off, seg, bits)
  PROVE  LzwTrip(n, off, seg, bits)'
<1>1. /\ pc = "idle" /\ pc' = "call" /\ buf' = <<>> /\ UNCHANGED <<data, stream, taken, failed>>
      /\ UNCHANGED lzwVars
  BY DEF LzwAsk, Ask, stripVars
<1>2. pc \notin EncodePcs /\ pc' \notin EncodePcs
  BY <1>1 DEF EncodePcs
<1>3. PICK m : m = Processed
  OBVIOUS
<1>4. ReadingAt(m, n, off, seg, bits) /\ ~failed /\ off[m + 1] \in Nat /\ taken \in Nat
  BY <1>2, <1>3, ReadingIs
<1>5. Processed' = m
  BY <1>1, <1>3 DEF Processed, lzwVars
<1>6. BytesOK(m, off, seg)'
  BY <1>1, <1>4 DEF ReadingAt, BytesOK, lzwVars
<1>7. ReadingAt(m, n, off, seg, bits)'
  BY <1>1, <1>4, <1>6 DEF ReadingAt, lzwVars
<1> QED BY <1>1, <1>2, <1>4, <1>5, <1>7, ReadsOn DEF lzwVars

LEMMA StartTrips ==
  ASSUME LzwSafe, Start, ~foreign, NEW n, NEW off, NEW seg, NEW bits, LzwTrip(n, off, seg, bits)
  PROVE  LzwTrip(n, off, seg, bits)'
<1>1. /\ pc = "call" /\ pc' = "decode" /\ loc' = sp
      /\ UNCHANGED <<data, stream, taken, buf, failed, misread>>
      /\ UNCHANGED <<dec_codetab, dec_restart, dec_codep, dec_bitsleft, code>>
  BY DEF Start, stripVars, clientVars
<1>2. pc \notin EncodePcs /\ pc' \notin EncodePcs
  BY <1>1 DEF EncodePcs
<1>3. PICK m : m = Processed
  OBVIOUS
<1>4. ReadingAt(m, n, off, seg, bits) /\ ~failed
  BY <1>2, <1>3, ReadingIs
<1>5. loc = sp
  BY <1>1, <1>4 DEF LzwSafe, StringsOK
<1>6. Processed' = m
  BY <1>1, <1>3, <1>5 DEF Processed
<1>7. BytesOK(m, off, seg)'
  BY <1>1, <1>4 DEF ReadingAt, BytesOK
<1>8. ReadingAt(m, n, off, seg, bits)'
  BY <1>1, <1>4, <1>5, <1>7 DEF ReadingAt
<1> QED BY <1>1, <1>2, <1>4, <1>6, <1>8, ReadsOn

\* The next code is read at the width it was written at: the code number is the same.
LEMMA NextCodeTrips ==
  ASSUME LzwSafe, NextCode, ~foreign, NEW n, NEW off, NEW seg, NEW bits, LzwTrip(n, off, seg, bits)
  PROVE  LzwTrip(n, off, seg, bits)'
<1>1. /\ pc \in {"cleared", "decode"} /\ pc' = (IF pc = "cleared" THEN "first" ELSE "code")
      /\ UNCHANGED <<data, taken, buf, failed, asked, dec_codetab, dec_restart, dec_codep>>
  BY DEF NextCode, stripVars, clientVars
<1>2. pc \notin EncodePcs /\ pc' \notin EncodePcs
  BY <1>1 DEF EncodePcs
<1>3. PICK m : m = Processed
  OBVIOUS
<1>4. /\ n \in Nat /\ Parsed(data, stream, n, off, seg, bits) /\ Len(stream) = n + 1
      /\ off[n + 1] = Len(data) /\ Len(data) \in Nat
      /\ ReadingAt(m, n, off, seg, bits) /\ ~failed
      /\ m \in 0..n /\ off[m + 1] \in Nat /\ bits[m + 1] \in Nat /\ bits[n + 1] \in Nat
      /\ seg[m + 1] \in Nat /\ seg[m + 1] <= m
      /\ asked \in Nat /\ taken \in Nat /\ Len(buf) \in Nat /\ Len(buf) <= asked
      /\ pc # "idle" => taken + asked <= Len(data)
  BY <1>2, <1>3, ReadingIs
<1>5. m = loc.at
  BY <1>1, <1>3 DEF Processed
<1>6. occ > 0 /\ dec_restart = 0
  BY <1>1 DEF NextCode, LzwSafe, DecoderOK, CodePcs
<1>7. off[m + 1] = taken + Len(buf)
  BY <1>1, <1>4, <1>6 DEF ReadingAt, BytesOK
<1>8. m \in 0..(n - 1)
  <2>1. off[m + 1] < off[n + 1]
    BY <1>1, <1>4, <1>6, <1>7 DEF occ
  <2>2. m # n
    BY <2>1, <1>4
  <2> QED BY <1>4, <2>2
<1> DEFINE w == stream[m + 1].width
<1>9. /\ WidthIs(w, CODE_FIRST + (m - seg[m + 1]))
      /\ bits[m + 2] = bits[m + 1] + w /\ bits[m + 2] \in Nat /\ bits[m + 2] <= bits[n + 1]
  <2>1. Parsed(data, stream, n, off, seg, bits) /\ m \in 0..(n - 1)
    BY <1>4, <1>8
  <2> QED BY <2>1, NextCodeIs
<1>10. WidthIs(loc.nbits, CODE_FIRST + (m - seg[m + 1]))
  BY <1>4 DEF ReadingAt, PlaceOK
<1>11. w = loc.nbits /\ w \in Nat
  <2>1. CODE_FIRST + (m - seg[m + 1]) \in Int
    <3>1. CODE_FIRST \in Nat /\ seg[m + 1] \in Nat /\ m \in Int
      BY <1>4, <1>8, CodesAre
    <3> HIDE DEF CODE_FIRST
    <3> QED BY <3>1
  <2> HIDE DEF w, CODE_FIRST
  <2> QED BY <1>9, <1>10, <2>1, OneWidth
<1>12. dec_bitsleft \in Nat /\ dec_bitsleft + bits[m + 1] >= bits[n + 1]
  BY <1>4, <1>5 DEF ReadingAt
<1>13. dec_bitsleft >= w
  <2>1. bits[m + 1] \in Nat /\ bits[n + 1] \in Nat /\ bits[m + 2] = bits[m + 1] + w
        /\ bits[m + 2] <= bits[n + 1]
    BY <1>4, <1>9
  <2> HIDE DEF w
  <2> QED BY <1>11, <1>12, <2>1
<1>14. /\ stream' = stream /\ misread' = misread /\ code' = stream[m + 1].code
       /\ loc' = [loc EXCEPT !.at = @ + 1] /\ dec_bitsleft' = dec_bitsleft - w
  <2>1. ~(dec_bitsleft < loc.nbits) /\ loc.at < Len(stream)
    BY <1>4, <1>5, <1>8, <1>11, <1>12, <1>13, SMTT(30)
  <2> QED BY <1>5, <1>11, <2>1 DEF NextCode
<1>15. /\ loc'.at = m + 1 /\ loc'.free = loc.free /\ loc'.nbits = loc.nbits /\ loc'.old = loc.old
  <2>1. loc \in Places
    BY DecodingIs
  <2> QED BY <1>5, <1>14, <2>1 DEF Places
<1>16. Processed' = m
  <2>1. (m + 1) - 1 = m
    BY <1>8
  <2> QED BY <1>1, <1>15, <2>1 DEF Processed
<1>17. PlaceOK(data, stream, m, off, seg, loc', dec_codetab)
  BY <1>4, <1>15 DEF ReadingAt, PlaceOK
<1>18. BytesOK(m, off, seg)'
  BY <1>1, <1>4, <1>6, <1>7 DEF ReadingAt, BytesOK
<1>19. dec_bitsleft' \in Nat /\ dec_bitsleft' + bits[loc'.at + 1] >= bits[n + 1]
  <2>1. loc'.at + 1 = m + 2
    BY <1>8, <1>15
  <2>2. bits[m + 1] \in Nat /\ bits[n + 1] \in Nat /\ bits[m + 2] = bits[m + 1] + w
        /\ dec_bitsleft' = dec_bitsleft - w
    BY <1>4, <1>9, <1>14
  <2> HIDE DEF w
  <2> QED BY <1>11, <1>12, <1>13, <2>1, <2>2
<1>20. loc'.at \in 0..n /\ m \in 0..n
  BY <1>4, <1>8, <1>15
<1>21. pc = "cleared" => m = seg[m + 1]
  BY <1>4 DEF ReadingAt
<1>22. pc = "decode" /\ m = seg[m + 1] => m = 0
  BY <1>4 DEF ReadingAt
<1>23. ReadingAt(m, n, off, seg, bits)'
  BY <1>1, <1>14, <1>17, <1>18, <1>19, <1>20, <1>21, <1>22 DEF ReadingAt
<1> QED BY <1>1, <1>2, <1>4, <1>14, <1>16, <1>23, ReadsOn

\* A code has been read, and is to be decoded.
LEMMA NextRead ==
  ASSUME LzwSafe, ~foreign, pc \in {"code", "first"}, NEW n, NEW off, NEW seg, NEW bits,
         LzwTrip(n, off, seg, bits), NEW m, m = Processed
  PROVE  /\ m \in 0..(n - 1) /\ loc.at = m + 1 /\ code = stream[m + 1].code
         /\ dec_restart = 0 /\ off[m + 1] = taken + Len(buf)
         /\ \A x \in 1..Len(buf) : buf[x] = data[taken + x]
         /\ dec_bitsleft \in Nat /\ dec_bitsleft + bits[m + 2] >= bits[n + 1]
         /\ PlaceOK(data, stream, m, off, seg, loc, dec_codetab)
<1>1. pc \notin EncodePcs
  BY DEF EncodePcs
<1>2. ReadingAt(m, n, off, seg, bits) /\ n \in Nat /\ m \in 0..n
  BY <1>1, ReadingIs
<1>3. loc.at \in 0..n /\ m = loc.at - 1
  BY <1>2 DEF ReadingAt, Processed
<1>4. loc.at = m + 1 /\ m \in 0..(n - 1) /\ loc.at + 1 = m + 2
  BY <1>2, <1>3
<1>5. dec_restart = 0 /\ pc # "idle"
  BY DEF LzwSafe, DecoderOK, CodePcs
<1>6. BytesOK(m, off, seg) /\ PlaceOK(data, stream, m, off, seg, loc, dec_codetab)
      /\ code = stream[m + 1].code /\ dec_bitsleft \in Nat
      /\ dec_bitsleft + bits[loc.at + 1] >= bits[n + 1]
  BY <1>2 DEF ReadingAt
<1>7. off[m + 1] = taken + Len(buf) /\ \A x \in 1..Len(buf) : buf[x] = data[taken + x]
  BY <1>5, <1>6 DEF BytesOK
<1>8. dec_bitsleft + bits[m + 2] >= bits[n + 1]
  BY <1>4, <1>6
<1> QED BY <1>4, <1>5, <1>6, <1>7, <1>8

LEMMA CodesBefore ==
  ASSUME LzwSafe, ~foreign, pc \in {"code", "first"}, NEW n, NEW off, NEW seg, NEW bits,
         LzwTrip(n, off, seg, bits), NEW m, m = Processed
  PROVE  /\ pc = "first" => m = seg[m + 1]
         /\ pc = "code" /\ m = seg[m + 1] => m = 0
<1>1. pc \notin EncodePcs
  BY DEF EncodePcs
<1>2. ReadingAt(m, n, off, seg, bits)
  BY <1>1, ReadingIs
<1> QED BY <1>2 DEF ReadingAt

LEMMA ClearTrips ==
  ASSUME LzwSafe, Clear, ~foreign, NEW n, NEW off, NEW seg, NEW bits, LzwTrip(n, off, seg, bits)
  PROVE  LzwTrip(n, off, seg, bits)'
<1>1. /\ pc \in {"code", "first"} /\ pc' = "cleared" /\ code = CODE_CLEAR
      /\ dec_codetab' = StartTable
      /\ loc' = [loc EXCEPT !.free = CODE_FIRST, !.nbits = BITS_MIN]
      /\ UNCHANGED <<data, stream, taken, buf, failed, misread, dec_restart, dec_codep, dec_bitsleft, code>>
  BY DEF Clear, ClearTable, Decoding, stripVars
<1>2. pc \notin EncodePcs /\ pc' \notin EncodePcs
  BY <1>1 DEF EncodePcs
<1>3. PICK m : m = Processed
  OBVIOUS
<1>4. /\ m \in 0..(n - 1) /\ loc.at = m + 1 /\ code = stream[m + 1].code
      /\ dec_restart = 0 /\ off[m + 1] = taken + Len(buf)
      /\ \A x \in 1..Len(buf) : buf[x] = data[taken + x]
      /\ dec_bitsleft \in Nat /\ dec_bitsleft + bits[m + 2] >= bits[n + 1]
  <2>1. pc \in {"code", "first"}
    BY <1>1
  <2> QED BY <1>3, <2>1, NextRead
<1>5. n \in Nat /\ Parsed(data, stream, n, off, seg, bits) /\ ~failed
  BY <1>2, <1>3, ReadingIs
<1>6. off[m + 2] = off[m + 1] /\ seg[m + 2] = m + 1
  BY <1>1, <1>4, <1>5, NextCodeIs, SMTT(30)
<1>7. loc'.free = CODE_FIRST /\ loc'.nbits = 9 /\ loc'.at = m + 1
  <2>1. loc \in Places /\ BITS_MIN = 9
    BY DecodingIs, CodesAre
  <2> HIDE DEF CODE_FIRST, BITS_MIN
  <2> QED BY <1>1, <1>4, <2>1 DEF Places
<1> DEFINE k == m + 1
<1>8. k \in 0..n /\ k + 1 = m + 2 /\ k - k = 0
  BY <1>4, <1>5
<1>9. PlaceOK(data, stream, k, off, seg, loc', dec_codetab')
  <2>1. Recorded(data, stream, k, -1, off, StartTable)
    <3>1. \A x \in Values : x \in 0..(CSIZE - 1)
      BY CodesAre
    <3>2. \A x \in Values : StartTable[x] = [next |-> NULL, length |-> 1, value |-> x, firstchar |-> x]
      BY <3>1 DEF StartTable
    <3> QED BY <3>2 DEF Recorded
  <2>2. WidthIs(9, CODE_FIRST + 0)
    BY CodesAre, FirstWidth
  <2>3. seg[k + 1] = k
    BY <1>6, <1>8
  <2>4. (k - k) - 1 = -1
    BY <1>8
  <2> HIDE DEF k, CODE_FIRST
  <2> QED BY <1>1, <1>7, <1>8, <2>1, <2>2, <2>3, <2>4 DEF PlaceOK
<1>10. off[k + 1] = taken + Len(buf) /\ seg[k + 1] = k
  BY <1>4, <1>6, <1>8
<1> HIDE DEF k
<1>11. BytesOK(k, off, seg)'
  BY <1>1, <1>4, <1>10 DEF BytesOK
<1>12. loc'.at = k /\ dec_bitsleft' \in Nat /\ dec_bitsleft' + bits[loc'.at + 1] >= bits[n + 1]
  BY <1>1, <1>4, <1>7, <1>8 DEF k
<1>13. ReadingAt(k, n, off, seg, bits)'
  BY <1>1, <1>8, <1>9, <1>10, <1>11, <1>12 DEF ReadingAt
<1>14. Processed' = k
  BY <1>1, <1>12 DEF Processed
<1> QED BY <1>1, <1>2, <1>5, <1>13, <1>14, ReadsOn

LEMMA SatisfiedTrips ==
  ASSUME LzwSafe, Satisfied, ~foreign, NEW n, NEW off, NEW seg, NEW bits, LzwTrip(n, off, seg, bits)
  PROVE  LzwTrip(n, off, seg, bits)'
<1>1. /\ pc = "decode" /\ occ = 0 /\ loc' = loc /\ Return(buf)
      /\ UNCHANGED <<data, stream, asked, misread, dec_codetab, dec_restart, dec_codep, dec_bitsleft, code>>
  BY DEF Satisfied, Leave, Decoding, stripVars
<1>2. pc \notin EncodePcs
  BY <1>1 DEF EncodePcs
<1>3. PICK m : m = Processed
  OBVIOUS
<1>4. /\ n \in Nat /\ ReadingAt(m, n, off, seg, bits) /\ ~failed
      /\ data \in Seq(Values) /\ asked \in Nat /\ taken \in Nat /\ Len(buf) \in Nat
      /\ pc # "idle" => taken + asked <= Len(data)
  BY <1>2, <1>3, ReadingIs
<1>5. Len(buf) = asked /\ IsSeq(buf) /\ taken + asked <= Len(data)
  <2>1. IsSeq(buf) /\ occ = asked - Len(buf)
    BY DecodingIs
  <2> QED BY <1>1, <1>4, <2>1
<1>6. dec_restart = 0
  BY <1>1 DEF LzwSafe, DecoderOK
<1>7. off[m + 1] = taken + Len(buf) /\ \A x \in 1..Len(buf) : buf[x] = data[taken + x]
  BY <1>1, <1>4, <1>6 DEF ReadingAt, BytesOK
<1>8. Given' /\ ~failed' /\ taken' = taken + asked /\ buf' = buf /\ pc' = "idle"
  BY <1>1, <1>4, <1>5, <1>7, CallReturns
<1>9. BytesOK(m, off, seg)'
  BY <1>1, <1>5, <1>6, <1>7, <1>8 DEF BytesOK
<1>10. ReadingAt(m, n, off, seg, bits)'
  BY <1>1, <1>4, <1>8, <1>9 DEF ReadingAt
<1>11. Processed' = m
  BY <1>1, <1>3, <1>8 DEF Processed
<1>12. pc' \notin EncodePcs
  BY <1>8 DEF EncodePcs
<1> QED BY <1>1, <1>2, <1>8, <1>10, <1>11, <1>12, ReadsOn

\* No call comes to the end of the information.
LEMMA EndOfInformationTrips ==
  ASSUME LzwSafe, EndOfInformation, ~foreign, NEW n, NEW off, NEW seg, NEW bits,
         LzwTrip(n, off, seg, bits)
  PROVE  FALSE
<1>1. pc \in {"code", "first"} /\ code = CODE_EOI
  BY DEF EndOfInformation
<1>2. pc \notin EncodePcs
  BY <1>1 DEF EncodePcs
<1>3. PICK m : m = Processed
  OBVIOUS
<1>4. m \in 0..(n - 1) /\ code = stream[m + 1].code
  <2>1. pc \in {"code", "first"}
    BY <1>1
  <2> QED BY <1>3, <2>1, NextRead
<1>5. n \in Nat /\ Parsed(data, stream, n, off, seg, bits) /\ seg[m + 1] \in Nat
  BY <1>2, <1>3, ReadingIs
<1>6. CODE_EOI # CODE_CLEAR
  BY CodesAre
<1>7. Spells(data, off, seg[m + 1], m - seg[m + 1], code, off[m + 1], off[m + 2])
  BY <1>1, <1>4, <1>5, <1>6, NextCodeIs
<1>8. m - seg[m + 1] \in Int
  BY <1>4, <1>5
<1> QED BY <1>1, <1>7, <1>8, NeitherClearNorEnd

\* Bytes that are put into the buffer.
BytesAt(b, t) == IsSeq(b) /\ \A x \in 1..Len(b) : b[x] = data[t + x]

LEMMA BufferGrows ==
  ASSUME NEW b, NEW c, NEW t \in Nat, NEW e \in Nat, e = t + Len(b), BytesAt(b, t), BytesAt(c, e)
  PROVE  BytesAt(b \o c, t) /\ Len(b \o c) = Len(b) + Len(c) /\ Len(b) \in Nat /\ Len(c) \in Nat
<1>0. /\ IsSeq(b) /\ \A x \in 1..Len(b) : b[x] = data[t + x]
      /\ IsSeq(c) /\ \A x \in 1..Len(c) : c[x] = data[e + x]
  BY DEF BytesAt
<1> DEFINE T == {b[i] : i \in DOMAIN b} \cup {c[i] : i \in DOMAIN c}
<1>1. b \in Seq(T) /\ c \in Seq(T)
  <2>1. b \in Seq({b[i] : i \in DOMAIN b}) /\ c \in Seq({c[i] : i \in DOMAIN c})
    BY <1>0 DEF IsSeq
  <2>2. \A S1, S2 : S1 \subseteq S2 => Seq(S1) \subseteq Seq(S2)
    OBVIOUS
  <2>3. {b[i] : i \in DOMAIN b} \subseteq T /\ {c[i] : i \in DOMAIN c} \subseteq T
    OBVIOUS
  <2> QED BY <2>1, <2>2, <2>3
<1> HIDE DEF T
<1> DEFINE g == b \o c
<1>2. /\ g \in Seq(T) /\ Len(b) \in Nat /\ Len(c) \in Nat /\ Len(g) = Len(b) + Len(c)
      /\ \A i \in 1..Len(b) : g[i] = b[i]
      /\ \A i \in 1..Len(c) : g[Len(b) + i] = c[i]
  BY <1>1, JoinedParts
<1> HIDE DEF g
<1>3. IsSeq(g)
  BY <1>2, SeqIs
<1>4. ASSUME NEW x \in 1..Len(g) PROVE g[x] = data[t + x]
  <2>1. CASE x <= Len(b)
    <3>1. x \in 1..Len(b)
      BY <1>2, <2>1
    <3> QED BY <1>0, <1>2, <3>1
  <2>2. CASE ~(x <= Len(b))
    <3> DEFINE i == x - Len(b)
    <3>1. i \in 1..Len(c) /\ Len(b) + i = x /\ e + i = t + x
      BY <1>2, <2>2
    <3> HIDE DEF i
    <3>2. g[Len(b) + i] = c[i] /\ c[i] = data[e + i]
      BY <1>0, <1>2, <3>1
    <3> QED BY <3>1, <3>2
  <2> QED BY <2>1, <2>2
<1> QED BY <1>2, <1>3, <1>4 DEF g, BytesAt

LEMMA FirstStringTrips ==
  ASSUME LzwSafe, FirstString, ~foreign, NEW n, NEW off, NEW seg, NEW bits, LzwTrip(n, off, seg, bits)
  PROVE  LzwTrip(n, off, seg, bits)'
<1>1. /\ pc = "first" /\ code \notin {CODE_CLEAR, CODE_EOI}
      /\ UNCHANGED <<data, stream, asked, misread, dec_codetab, dec_restart, dec_codep, dec_bitsleft>>
  BY DEF FirstString, Decoding, stripVars
<1>2. pc \notin EncodePcs
  BY <1>1 DEF EncodePcs
<1>3. PICK m : m = Processed
  OBVIOUS
<1>4. /\ m \in 0..(n - 1) /\ loc.at = m + 1 /\ code = stream[m + 1].code
      /\ dec_restart = 0 /\ off[m + 1] = taken + Len(buf)
      /\ \A x \in 1..Len(buf) : buf[x] = data[taken + x]
      /\ dec_bitsleft \in Nat /\ dec_bitsleft + bits[m + 2] >= bits[n + 1]
      /\ PlaceOK(data, stream, m, off, seg, loc, dec_codetab)
      /\ m = seg[m + 1]
  <2>1. pc \in {"code", "first"}
    BY <1>1
  <2>2. m = seg[m + 1]
    BY <1>1, <1>3, <2>1, CodesBefore
  <2> QED BY <1>3, <2>1, <2>2, NextRead
<1>5. n \in Nat /\ Parsed(data, stream, n, off, seg, bits) /\ ~failed /\ Len(buf) \in Nat /\ taken \in Nat
  BY <1>2, <1>3, ReadingIs
<1>6. /\ seg[m + 2] = m /\ off[m + 1] < off[m + 2] /\ off[m + 1] \in Nat /\ off[m + 2] \in Nat
      /\ Spells(data, off, m, m - m, code, off[m + 1], off[m + 2])
  BY <1>1, <1>4, <1>5, NextCodeIs
<1>7. ByteString(data, code, off[m + 1], off[m + 2])
  <2>1. \A j : j \notin 1..(m - m)
    BY <1>4
  <2> QED BY <1>6, <2>1, SpellsCases
<1>8. code \in Values /\ off[m + 2] = off[m + 1] + 1 /\ data[off[m + 1] + 1] = code
      /\ ~(code > CODE_CLEAR)
  BY <1>7, CodesAre DEF ByteString
<1>9. Go([loc EXCEPT !.old = code], <<code>>)
  BY <1>8 DEF FirstString
<1>10. /\ buf' = buf \o <<code>> /\ loc' = [loc EXCEPT !.old = code] /\ pc' = "decode"
       /\ taken' = taken /\ failed' = failed
  BY <1>9 DEF Go
<1>11. loc'.old = code /\ loc'.at = m + 1 /\ loc'.free = loc.free /\ loc'.nbits = loc.nbits
  <2>1. loc \in Places
    BY DecodingIs
  <2> QED BY <1>4, <1>10, <2>1 DEF Places
<1>12. Len(buf') = Len(buf) + 1 /\ \A x \in 1..Len(buf') : buf'[x] = data[taken + x]
  <2>1. IsSeq(<<code>>) /\ Len(<<code>>) = 1 /\ <<code>>[1] = code
    BY OneByte
  <2>2. \A x \in 1..Len(<<code>>) : <<code>>[x] = data[off[m + 1] + x]
    BY <1>8, <2>1
  <2>3. IsSeq(buf)
    BY DecodingIs
  <2> DEFINE c == <<code>>
             e == off[m + 1]
  <2>4. BytesAt(c, e) /\ Len(c) = 1
    BY <2>1, <2>2 DEF BytesAt
  <2>5. e \in Nat /\ e = taken + Len(buf) /\ taken \in Nat
    BY <1>4, <1>5, <1>6
  <2>6. BytesAt(buf, taken)
    BY <1>4, <2>3 DEF BytesAt
  <2> HIDE DEF c, e
  <2>8. Len(buf \o c) = Len(buf) + Len(c) /\ BytesAt(buf \o c, taken)
    BY <2>4, <2>5, <2>6, BufferGrows
  <2>7. buf' = buf \o c
    BY <1>10 DEF c
  <2> QED BY <2>4, <2>7, <2>8 DEF BytesAt
<1> DEFINE k == m + 1
<1>13. k \in 0..n /\ k + 1 = m + 2 /\ k - m = 1 /\ k - m - 1 = m - m /\ m \in Nat
  BY <1>4, <1>5
<1>14. PlaceOK(data, stream, k, off, seg, loc', dec_codetab)
  <2>1. /\ Recorded(data, stream, m, (m - m) - 1, off, dec_codetab)
        /\ loc.free = CODE_FIRST /\ WidthIs(loc.nbits, CODE_FIRST + (m - m))
    BY <1>4 DEF PlaceOK
  <2>2. Recorded(data, stream, m, k - m - 1, off, dec_codetab)
    <3>1. \A j : j \notin 1..(k - m - 1)
      BY <1>13
    <3> QED BY <2>1, <3>1 DEF Recorded
  <2>3. WidthIs(loc.nbits, CODE_FIRST + 1)
    <3>1. /\ WidthIs(9, CODE_FIRST) /\ WidthIs(9, CODE_FIRST + 1) /\ CODE_FIRST \in Int
          /\ CODE_FIRST + (m - m) = CODE_FIRST
      BY <1>4, CodesAre, FirstWidth, SMTT(30)
    <3> HIDE DEF CODE_FIRST
    <3>2. loc.nbits = 9
      BY <2>1, <3>1, OneWidth
    <3> QED BY <3>1, <3>2
  <2>4. seg[k + 1] = m
    BY <1>6, <1>13
  <2>5. CODE_FIRST + 1 - 1 = CODE_FIRST
    BY CodesAre
  <2>6. stream[k].code = code
    BY <1>4
  <2> HIDE DEF k, CODE_FIRST
  <2> QED BY <1>11, <1>13, <2>1, <2>2, <2>3, <2>4, <2>5, <2>6 DEF PlaceOK
<1>15. off[k + 1] = taken + Len(buf')
  BY <1>4, <1>5, <1>8, <1>12, <1>13
<1>16. seg[k + 1] = m /\ k # m
  BY <1>6, <1>13
<1>17. loc'.at = k /\ dec_bitsleft' \in Nat /\ dec_bitsleft' + bits[loc'.at + 1] >= bits[n + 1]
  BY <1>1, <1>4, <1>11, <1>13
<1> HIDE DEF k
<1>18. BytesOK(k, off, seg)'
  BY <1>1, <1>4, <1>10, <1>12, <1>15 DEF BytesOK
<1>19. ReadingAt(k, n, off, seg, bits)'
  BY <1>1, <1>10, <1>13, <1>14, <1>16, <1>17, <1>18 DEF ReadingAt
<1>20. Processed' = k /\ pc' \notin EncodePcs
  BY <1>10, <1>17 DEF Processed, EncodePcs
<1> QED BY <1>1, <1>2, <1>5, <1>10, <1>19, <1>20, ReadsOn

\* The entry that is made of the code before and of this one is that of the string of
\* the code before and the byte that follows it.  This code may be the entry's own.
LEMMA NewEntryIs ==
  ASSUME NEW d, NEW st, NEW s \in Nat, NEW k \in Nat, k > 0, NEW off,
         Strings(d, st, s, k, off), Recorded(d, st, s, k - 1, off, dec_codetab),
         loc.free = CODE_FIRST + k - 1, loc.old = st[s + k].code,
         NEW to \in Nat, off[s + k + 1] < to, Spells(d, off, s, k, code, off[s + k + 1], to)
  PROVE  NewEntry = EntryOf(d, st, s, k, off)
<1> DEFINE a == off[s + k]
           b == off[s + k + 1]
<1>1. a \in Nat /\ b \in Nat /\ a < b /\ Spells(d, off, s, k - 1, st[s + k].code, a, b)
  <2>1. k \in 1..k
    OBVIOUS
  <2> QED BY <2>1 DEF Strings
<1>2. Strings(d, st, s, k - 1, off)
  <2>1. \A j \in 1..(k - 1) : j \in 1..k
    OBVIOUS
  <2> QED BY <2>1 DEF Strings
<1>3. k - 1 \in Int /\ CODE_FIRST \in Nat
  BY CodesAre
<1> HIDE DEF a, b
<1>4. dec_codetab[loc.old].length = b - a /\ dec_codetab[loc.old].firstchar = d[a + 1]
  BY <1>1, <1>2, <1>3, EntryOfString
<1>5. ASSUME InTable(code)
      PROVE  dec_codetab[code].firstchar = d[b + 1]
  <2>1. code < CODE_FIRST + k - 1
    BY <1>5 DEF InTable
  <2>2. Spells(d, off, s, k - 1, code, b, to)
    <3>1. CASE ByteString(d, code, b, to)
      BY <3>1, SpellsCases
    <3>2. ASSUME NEW j \in 1..k, EnteredString(d, off, s, j, code, b, to)
          PROVE  Spells(d, off, s, k - 1, code, b, to)
      <4>1. code = CODE_FIRST - 1 + j
        BY <3>2 DEF EnteredString
      <4> HIDE DEF CODE_FIRST
      <4>2. j \in 1..(k - 1)
        BY <1>3, <2>1, <4>1
      <4> QED BY <3>2, <4>2, SpellsCases
    <3> QED BY <3>1, <3>2, SpellsCases DEF b
  <2>3. dec_codetab[code].firstchar = d[b + 1]
    BY <1>1, <1>2, <1>3, <2>2, EntryOfString
  <2> QED BY <2>3
<1>6. ASSUME ~InTable(code)
      PROVE  d[a + 1] = d[b + 1]
  <2>1. ~(code < CODE_FIRST + k - 1)
    BY <1>6 DEF InTable
  <2>2. ~ByteString(d, code, b, to)
    <3> SUFFICES ASSUME ByteString(d, code, b, to) PROVE FALSE
      OBVIOUS
    <3>1. code \in Nat /\ code < CODE_FIRST
      BY CodeOfByte DEF ByteString
    <3> HIDE DEF CODE_FIRST
    <3> QED BY <1>3, <2>1, <3>1
  <2>3. PICK j \in 1..k : EnteredString(d, off, s, j, code, b, to)
    BY <2>2, SpellsCases DEF b
  <2>4. j = k
    <3>1. code = CODE_FIRST - 1 + j
      BY <2>3 DEF EnteredString
    <3> HIDE DEF CODE_FIRST
    <3> QED BY <1>3, <2>1, <3>1
  <2>5. 1 \in 1..(to - b)
    BY <1>1 DEF b
  <2>6. d[b + 1] = d[a + 1]
    BY <2>3, <2>4, <2>5 DEF EnteredString, a
  <2> QED BY <2>6
<1>7. NewEntry.value = d[b + 1]
  BY <1>4, <1>5, <1>6 DEF NewEntry
<1>8. NewEntry = [next |-> loc.old, length |-> dec_codetab[loc.old].length + 1,
                  firstchar |-> dec_codetab[loc.old].firstchar, value |-> NewEntry.value]
  BY DEF NewEntry
<1> QED BY <1>4, <1>7, <1>8 DEF EntryOf, a, b

\* What is known when a string is entered: the string of the code, and the entry and the
\* place behind it.
StringHere(d, st, m, off, seg, c, l, table) ==
  /\ HasStrings(table, d, st, seg[m + 1], m - seg[m + 1], off)
  /\ Spells(d, off, seg[m + 1], m - seg[m + 1], c, off[m + 1], off[m + 2])
  /\ PlaceOK(d, st, m + 1, off, seg, l, table)

LEMMA StringEntered ==
  ASSUME LzwSafe, EnterString, ~foreign, NEW n, NEW off, NEW seg, NEW bits,
         LzwTrip(n, off, seg, bits), NEW m, m = Processed
  PROVE  /\ m \in 0..(n - 1) /\ loc.at = m + 1 /\ code = stream[m + 1].code
         /\ StringHere(data, stream, m, off, seg, code, Entered, dec_codetab')
         /\ off[m + 1] < off[m + 2] /\ off[m + 1] \in Nat /\ off[m + 2] \in Nat
         /\ m + 1 - seg[m + 2] > 0 /\ seg[m + 2] \in Nat
<1>1. /\ pc = "code" /\ code # CODE_CLEAR /\ ~(loc.free >= CSIZE)
      /\ dec_codetab' = [dec_codetab EXCEPT ![loc.free] = NewEntry]
  BY DEF EnterString, Other, Corrupted
<1>2. /\ m \in 0..(n - 1) /\ loc.at = m + 1 /\ code = stream[m + 1].code
      /\ PlaceOK(data, stream, m, off, seg, loc, dec_codetab)
  <2>1. pc \in {"code", "first"}
    BY <1>1
  <2> QED BY <2>1, NextRead
<1>3. m = seg[m + 1] => m = 0
  BY <1>1, CodesBefore
<1>4. n \in Nat /\ Parsed(data, stream, n, off, seg, bits)
      /\ seg[m + 1] \in Nat /\ seg[m + 1] <= m
  <2>1. pc \notin EncodePcs
    BY <1>1 DEF EncodePcs
  <2> QED BY <2>1, ReadingIs
<1> DEFINE s == seg[m + 1]
           k == m - s
<1>5. /\ seg[m + 2] = s /\ off[m + 1] < off[m + 2] /\ m > 0
      /\ CODE_FIRST + k + 1 < CODE_MAX
      /\ off[m + 1] \in Nat /\ off[m + 2] \in Nat
      /\ Spells(data, off, s, k, code, off[m + 1], off[m + 2])
  BY <1>1, <1>2, <1>4, NextCodeIs
<1>6. k > 0 /\ k \in Nat /\ s \in Nat /\ s + k = m /\ s + k + 1 = m + 1
      /\ m + 1 - s = k + 1 /\ (k + 1) - 1 = k
  BY <1>2, <1>3, <1>4, <1>5
<1>7. Strings(data, stream, s, k, off)
  <2>1. m \in 0..n
    BY <1>2, <1>4
  <2> QED BY <1>4, <2>1, SegmentStrings
<1>8. /\ Recorded(data, stream, s, k - 1, off, dec_codetab)
      /\ loc.free = CODE_FIRST + k - 1 /\ WidthIs(loc.nbits, CODE_FIRST + k)
      /\ loc.old = stream[m].code
  <2>1. k # 0
    BY <1>6
  <2> HIDE DEF CODE_FIRST
  <2> QED BY <1>2, <1>6, <2>1 DEF PlaceOK
<1> HIDE DEF s, k
<1>9. NewEntry = EntryOf(data, stream, s, k, off)
  BY <1>5, <1>6, <1>7, <1>8, NewEntryIs
<1>10. CODE_FIRST \in Nat /\ CSIZE \in Nat /\ CODE_FIRST - 1 + k = loc.free
       /\ loc.free \in Nat /\ loc.free < CSIZE /\ loc.free >= CODE_FIRST
  <2>1. CODE_FIRST \in Nat /\ CSIZE \in Nat
    BY CodesAre
  <2> HIDE DEF CODE_FIRST
  <2> QED BY <1>1, <1>6, <1>8, <2>1
<1>11. Recorded(data, stream, s, k, off, dec_codetab')
  <2>1. dec_codetab \in [0..(CSIZE - 1) -> Entries]
    BY DecodingIs DEF Tables
  <2>2. dec_codetab'[loc.free] = NewEntry
    BY <1>1, <1>10, <2>1
  <2>3. \A c \in 0..(CSIZE - 1) : c # loc.free => dec_codetab'[c] = dec_codetab[c]
    BY <1>1, <2>1
  <2>4. ASSUME NEW v \in Values
        PROVE  dec_codetab'[v] = [next |-> NULL, length |-> 1, value |-> v, firstchar |-> v]
    <3>1. v \in Nat /\ v < CODE_FIRST
      BY CodeOfByte
    <3> HIDE DEF CODE_FIRST
    <3>2. v \in 0..(CSIZE - 1) /\ v # loc.free
      BY <1>10, <3>1
    <3> QED BY <1>8, <2>3, <3>2 DEF Recorded
  <2>5. ASSUME NEW j \in 1..k
        PROVE  dec_codetab'[CODE_FIRST - 1 + j] = EntryOf(data, stream, s, j, off)
    <3>1. CASE j = k
      BY <1>9, <1>10, <2>2, <3>1
    <3>2. CASE j # k
      <4> HIDE DEF CODE_FIRST
      <4>1. j \in 1..(k - 1) /\ CODE_FIRST - 1 + j \in 0..(CSIZE - 1) /\ CODE_FIRST - 1 + j # loc.free
        BY <1>6, <1>10, <3>2
      <4> QED BY <1>8, <2>3, <4>1 DEF Recorded
    <3> QED BY <3>1, <3>2
  <2> QED BY <2>4, <2>5 DEF Recorded
<1>12. /\ dec_codetab' \in Tables /\ Entered.free = loc.free + 1 /\ Entered.old = code
  BY EnteredIs
<1>13. HasStrings(dec_codetab', data, stream, s, k, off)
  <2>1. CODE_FIRST - 1 + k < CSIZE /\ k \in Int
    BY <1>6, <1>10
  <2> QED BY <1>6, <1>7, <1>11, <1>12, <2>1 DEF HasStrings
<1>14. WidthIs(Entered.nbits, CODE_FIRST + k + 1)
  <2> DEFINE f == CODE_FIRST + k
             w == loc.nbits
  <2>1. f \in Int /\ loc.free + 1 = f /\ f + 1 < CODE_MAX /\ f + 1 = CODE_FIRST + k + 1
    <3> HIDE DEF CODE_FIRST, CODE_MAX
    <3> QED BY <1>5, <1>6, <1>10
  <2>2. WidthIs(w, f)
    BY <1>8
  <2> HIDE DEF f, w
  <2>3. /\ f + 1 <= MAXCODE(w) => WidthIs(w, f + 1)
        /\ f + 1 > MAXCODE(w) /\ f + 1 < CODE_MAX => w < 12 /\ WidthIs(w + 1, f + 1)
        /\ w \in Nat
    BY <2>1, <2>2, NextWidth
  <2>4. MAXCODE(w) \in Nat /\ BITS_MAX = 12
    BY <2>2, CodesAre DEF WidthIs
  <2>5. f > WidenBefore(w) <=> f + 1 > MAXCODE(w)
    <3> HIDE DEF MAXCODE
    <3> QED BY <2>1, <2>4 DEF WidenBefore
  <2>6. Entered.nbits = IF loc.free + 1 > WidenBefore(w) /\ w < BITS_MAX THEN w + 1 ELSE w
    <3>1. loc \in Places
      BY DecodingIs
    <3> QED BY <3>1 DEF Entered, Places, w
  <2> HIDE DEF MAXCODE, CODE_MAX, WidthIs, WidenBefore
  <2>7. Entered.nbits = IF f + 1 > MAXCODE(w) /\ w < 12 THEN w + 1 ELSE w
    BY <2>1, <2>4, <2>5, <2>6
  <2>8. WidthIs(Entered.nbits, f + 1)
    BY <2>1, <2>3, <2>4, <2>7
  <2> QED BY <2>1, <2>8
<1>15. PlaceOK(data, stream, m + 1, off, seg, Entered, dec_codetab')
  <2>1. seg[(m + 1) + 1] = s /\ m + 1 - s = k + 1 /\ k + 1 # 0 /\ (k + 1) - 1 = k
    <3>1. (m + 1) + 1 = m + 2
      BY <1>2
    <3> QED BY <1>5, <1>6, <3>1
  <2>2. Entered.free = CODE_FIRST + (k + 1) - 1 /\ CODE_FIRST + (k + 1) = CODE_FIRST + k + 1
    <3> HIDE DEF CODE_FIRST
    <3> QED BY <1>6, <1>10, <1>12
  <2> DEFINE q == m + 1
  <2>3. seg[q + 1] = s /\ q - s = k + 1 /\ stream[q].code = code
    <3>1. seg[q + 1] = s
      BY <2>1
    <3>2. q - s = k + 1
      BY <1>6
    <3>3. stream[q].code = code
      BY <1>2
    <3> QED BY <3>1, <3>2, <3>3
  <2> HIDE DEF CODE_FIRST, q
  <2>4. PlaceOK(data, stream, q, off, seg, Entered, dec_codetab')
    BY <1>11, <1>12, <1>14, <2>1, <2>2, <2>3 DEF PlaceOK
  <2> QED BY <2>4 DEF q
<1>16. StringHere(data, stream, m, off, seg, code, Entered, dec_codetab')
  BY <1>5, <1>13, <1>15 DEF StringHere, s, k
<1>17. m + 1 - seg[m + 2] > 0 /\ seg[m + 2] \in Nat
  BY <1>5, <1>6
<1> QED BY <1>2, <1>5, <1>16, <1>17

\* A call that goes on after the string that has been entered.
LEMMA GoesOn ==
  ASSUME LzwSafe, EnterString, ~foreign, NEW n, NEW off, NEW seg, NEW bits,
         LzwTrip(n, off, seg, bits), NEW m, m = Processed,
         Decoding, UNCHANGED <<dec_restart, dec_codep>>,
         NEW bytes, Go(Entered, bytes), BytesAt(bytes, off[m + 1]),
         Len(bytes) = off[m + 2] - off[m + 1]
  PROVE  LzwTrip(n, off, seg, bits)'
<1>1. /\ pc = "code" /\ pc' = "decode" /\ loc' = Entered /\ buf' = buf \o bytes
      /\ UNCHANGED <<data, stream, taken, failed, misread, dec_restart, dec_codep, dec_bitsleft, code>>
  BY DEF EnterString, Other, Go, Decoding, stripVars
<1>2. pc \notin EncodePcs /\ pc' \notin EncodePcs
  BY <1>1 DEF EncodePcs
<1>3. /\ m \in 0..(n - 1) /\ loc.at = m + 1
      /\ StringHere(data, stream, m, off, seg, code, Entered, dec_codetab')
      /\ off[m + 1] \in Nat /\ off[m + 2] \in Nat /\ m + 1 - seg[m + 2] > 0
  BY StringEntered
<1>4. /\ dec_restart = 0 /\ off[m + 1] = taken + Len(buf)
      /\ \A x \in 1..Len(buf) : buf[x] = data[taken + x]
      /\ dec_bitsleft \in Nat /\ dec_bitsleft + bits[m + 2] >= bits[n + 1]
  <2>1. pc \in {"code", "first"}
    BY <1>1
  <2> QED BY <2>1, NextRead
<1>5. n \in Nat /\ ~failed /\ taken \in Nat /\ Len(buf) \in Nat
  BY <1>2, ReadingIs
<1> DEFINE k == m + 1
<1>6. k \in 0..n /\ k + 1 = m + 2
  BY <1>3, <1>5
<1>7. PlaceOK(data, stream, k, off, seg, loc', dec_codetab')
  BY <1>1, <1>3 DEF StringHere
<1>8. BytesAt(buf', taken) /\ Len(buf') = Len(buf) + Len(bytes)
  <2>1. BytesAt(buf, taken)
    BY <1>4, DecodingIs DEF BytesAt
  <2> DEFINE e == off[m + 1]
  <2>2. e \in Nat /\ e = taken + Len(buf) /\ BytesAt(bytes, e)
    BY <1>3, <1>4
  <2> HIDE DEF e
  <2> QED BY <1>1, <1>5, <2>1, <2>2, BufferGrows
<1>9. off[k + 1] = taken + Len(buf')
  BY <1>3, <1>4, <1>5, <1>6, <1>8, SMTT(30)
<1>10. loc'.at = k
  <2>1. loc \in Places
    BY DecodingIs
  <2>2. Entered.at = loc.at
    BY <2>1 DEF Entered, Places
  <2> QED BY <1>1, <1>3, <2>2
<1>11. dec_bitsleft' \in Nat /\ dec_bitsleft' + bits[loc'.at + 1] >= bits[n + 1]
  BY <1>1, <1>4, <1>6, <1>10
<1>12. k # seg[k + 1]
  BY <1>3, <1>6
<1> HIDE DEF k
<1>13. BytesOK(k, off, seg)'
  BY <1>1, <1>4, <1>8, <1>9 DEF BytesOK, BytesAt
<1>14. ReadingAt(k, n, off, seg, bits)'
  BY <1>1, <1>6, <1>7, <1>10, <1>11, <1>12, <1>13 DEF ReadingAt
<1>15. Processed' = k
  BY <1>1, <1>10 DEF Processed
<1> QED BY <1>1, <1>2, <1>5, <1>14, <1>15, ReadsOn

\* The string of a code, put into the buffer backwards.
LEMMA BackBytes ==
  ASSUME NEW table, NEW st, NEW s, NEW k, NEW off, HasStrings(table, data, st, s, k, off),
         NEW c, NEW from \in Int, NEW to \in Int, Spells(data, off, s, k, c, from, to),
         NEW z \in Nat, z <= to - from
  PROVE  /\ Len(Chain(table, c, z)) = z
         /\ BytesAt(Back(table, Chain(table, c, z), z), to - z)
         /\ Len(Back(table, Chain(table, c, z), z)) = z
<1> DEFINE path == Chain(table, c, z)
           b == Back(table, path, z)
<1>1. Len(path) = z /\ \A i \in 1..z : table[path[i]].value = data[to - z + i]
  BY ChainBytes
<1>2. IsSeq(b) /\ Len(b) = z
  BY BackIs
<1> HIDE DEF path
<1>3. \A i \in 1..z : b[i] = table[path[i]].value
  <2>1. \A i \in 1..z : i + z > z /\ i + z - z = i
    OBVIOUS
  <2> QED BY <1>1, <2>1 DEF Back
<1> HIDE DEF b
<1>4. BytesAt(b, to - z)
  BY <1>1, <1>2, <1>3 DEF BytesAt
<1> QED BY <1>1, <1>2, <1>4 DEF b, path

LEMMA LiteralTrips ==
  ASSUME LzwSafe, Literal, ~foreign, NEW n, NEW off, NEW seg, NEW bits, LzwTrip(n, off, seg, bits)
  PROVE  LzwTrip(n, off, seg, bits)'
<1>1. /\ EnterString /\ code < CODE_CLEAR /\ Go(Entered, <<code>>)
      /\ UNCHANGED <<dec_restart, dec_codep>> /\ Decoding
  BY DEF Literal
<1>2. PICK m : m = Processed
  OBVIOUS
<1>3. /\ StringHere(data, stream, m, off, seg, code, Entered, dec_codetab')
      /\ off[m + 1] \in Nat /\ off[m + 2] \in Nat
  BY <1>1, <1>2, StringEntered
<1>4. code \in Values
  <2>1. code \in Nat
    BY DecodingIs
  <2> HIDE DEF CODE_CLEAR
  <2> QED BY <1>1, <2>1, CodesAre
<1>5. data[off[m + 1] + 1] = code /\ off[m + 2] = off[m + 1] + 1
  <2>1. /\ Spells(data, off, seg[m + 1], m - seg[m + 1], code, off[m + 1], off[m + 2])
        /\ m - seg[m + 1] \in Int
    BY <1>3 DEF StringHere, HasStrings
  <2> QED BY <1>4, <2>1, StringOfByte
<1>6. Len(<<code>>) = off[m + 2] - off[m + 1] /\ BytesAt(<<code>>, off[m + 1])
  <2>1. IsSeq(<<code>>) /\ Len(<<code>>) = 1 /\ <<code>>[1] = code
    BY OneByte
  <2>2. \A x \in 1..Len(<<code>>) : <<code>>[x] = data[off[m + 1] + x]
    BY <1>5, <2>1
  <2> QED BY <1>3, <1>5, <2>1, <2>2 DEF BytesAt
<1> QED BY <1>1, <1>2, <1>6, GoesOn

\* The length of the string of the code, once its entry has been made.
LEMMA EnteredLength ==
  ASSUME LzwSafe, EnterString, ~foreign, NEW n, NEW off, NEW seg, NEW bits,
         LzwTrip(n, off, seg, bits), NEW m, m = Processed
  PROVE  StringOf(code).length = off[m + 2] - off[m + 1] /\ StringOf(code).length > 0
<1>1. /\ StringHere(data, stream, m, off, seg, code, Entered, dec_codetab')
      /\ off[m + 1] \in Nat /\ off[m + 2] \in Nat
  BY StringEntered
<1> DEFINE s == seg[m + 1]
           k == m - s
           from == off[m + 1]
           to == off[m + 2]
<1>2. /\ s \in Nat /\ k \in Int /\ Strings(data, stream, s, k, off)
      /\ Recorded(data, stream, s, k, off, dec_codetab')
      /\ Spells(data, off, s, k, code, from, to) /\ from \in Int /\ to \in Int
  BY <1>1 DEF StringHere, HasStrings
<1> HIDE DEF s, k, from, to
<1>3. dec_codetab'[code].length = to - from /\ to - from > 0
  BY <1>2, EntryOfString
<1> QED BY <1>3 DEF StringOf, from, to

LEMMA UnknownStringTrips ==
  ASSUME LzwSafe, UnknownString, ~foreign, NEW n, NEW off, NEW seg, NEW bits,
         LzwTrip(n, off, seg, bits)
  PROVE  FALSE
<1>1. EnterString /\ StringOf(code).length = 0
  BY DEF UnknownString
<1>2. PICK m : m = Processed
  OBVIOUS
<1>3. StringOf(code).length > 0
  BY <1>1, <1>2, EnteredLength
<1> QED BY <1>1, <1>3

LEMMA CorruptedTableTrips ==
  ASSUME LzwSafe, CorruptedTable, ~foreign, NEW n, NEW off, NEW seg, NEW bits,
         LzwTrip(n, off, seg, bits)
  PROVE  FALSE
<1>1. pc = "code" /\ code # CODE_CLEAR /\ (loc.free >= CSIZE \/ loc.old = Before)
  BY DEF CorruptedTable, Other, Corrupted
<1>2. PICK m : m = Processed
  OBVIOUS
<1>3. /\ m \in 0..(n - 1) /\ loc.at = m + 1 /\ code = stream[m + 1].code
      /\ PlaceOK(data, stream, m, off, seg, loc, dec_codetab)
  <2>1. pc \in {"code", "first"}
    BY <1>1
  <2> QED BY <1>2, <2>1, NextRead
<1>4. n \in Nat /\ Parsed(data, stream, n, off, seg, bits)
      /\ seg[m + 1] \in Nat /\ seg[m + 1] <= m
  <2>1. pc \notin EncodePcs
    BY <1>1 DEF EncodePcs
  <2> QED BY <1>2, <2>1, ReadingIs
<1> DEFINE s == seg[m + 1]
           k == m - s
<1>5. m = s => m = 0
  BY <1>1, <1>2, CodesBefore
<1>6. m > 0 /\ CODE_FIRST + k + 1 < CODE_MAX
  BY <1>1, <1>3, <1>4, NextCodeIs
<1>7. k > 0 /\ k \in 1..k /\ k - 1 \in Int /\ s + k = m
  BY <1>3, <1>4, <1>5, <1>6
<1>8. loc.free = CODE_FIRST + k - 1 /\ loc.old = stream[m].code
  <2>1. k # 0
    BY <1>7
  <2> HIDE DEF CODE_FIRST
  <2> QED BY <1>3, <1>7, <2>1 DEF PlaceOK
<1>9. ~(loc.free >= CSIZE)
  <2>1. CODE_FIRST \in Nat /\ CSIZE \in Nat /\ CODE_MAX \in Nat /\ CODE_MAX < CSIZE
    BY CodesAre
  <2>2. k \in Int
    BY <1>7
  <2> HIDE DEF CODE_FIRST, CODE_MAX, k
  <2> QED BY <1>6, <1>8, <2>1, <2>2
<1>10. Strings(data, stream, s, k, off)
  <2>1. m \in 0..n
    BY <1>3, <1>4
  <2> QED BY <1>4, <2>1, SegmentStrings
<1> HIDE DEF s, k
<1>11. Spells(data, off, s, k - 1, stream[m].code, off[s + k], off[s + k + 1])
  BY <1>7, <1>10 DEF Strings
<1>12. stream[m].code \in Nat
  BY <1>7, <1>11, NeitherClearNorEnd
<1> QED BY <1>1, <1>8, <1>9, <1>12, CodesAre

LEMMA WholeStringTrips ==
  ASSUME LzwSafe, WholeString, ~foreign, NEW n, NEW off, NEW seg, NEW bits,
         LzwTrip(n, off, seg, bits)
  PROVE  LzwTrip(n, off, seg, bits)'
<1> DEFINE len == StringOf(code).length
           path == Chain(dec_codetab', code, len)
           bytes == Back(dec_codetab', path, len)
<1>1. /\ EnterString /\ UNCHANGED <<dec_restart, dec_codep>> /\ Decoding
      /\ IF Len(path) = len /\ Continues(dec_codetab', path) THEN Leave(Entered, buf)
                                                              ELSE Go(Entered, bytes)
  BY DEF WholeString
<1>2. PICK m : m = Processed
  OBVIOUS
<1>3. /\ StringHere(data, stream, m, off, seg, code, Entered, dec_codetab')
      /\ off[m + 1] \in Nat /\ off[m + 2] \in Nat
  BY <1>1, <1>2, StringEntered
<1> DEFINE s == seg[m + 1]
           k == m - s
           from == off[m + 1]
           to == off[m + 2]
<1>4. len = to - from /\ len > 0
  BY <1>1, <1>2, EnteredLength
<1>5. /\ HasStrings(dec_codetab', data, stream, s, k, off)
      /\ Spells(data, off, s, k, code, from, to) /\ from \in Int /\ to \in Int
  BY <1>3 DEF StringHere
<1> HIDE DEF s, k
<1> DEFINE z == to - from
<1>6. z \in Nat /\ z > 0 /\ z <= to - from /\ to - z = from /\ z = len
  BY <1>3, <1>4
<1> HIDE DEF from, to, z
<1>7. ~Continues(dec_codetab', Chain(dec_codetab', code, to - from))
  BY <1>5, <1>6, WholeChain DEF z
<1>8. /\ BytesAt(Back(dec_codetab', Chain(dec_codetab', code, z), z), to - z)
      /\ Len(Back(dec_codetab', Chain(dec_codetab', code, z), z)) = z
  BY <1>5, <1>6, BackBytes
<1>9. ~Continues(dec_codetab', path) /\ BytesAt(bytes, from) /\ Len(bytes) = to - from
  BY <1>6, <1>7, <1>8 DEF z
<1> HIDE DEF path, len, bytes
<1>10. Go(Entered, bytes)
  BY <1>1, <1>9
<1> QED BY <1>1, <1>2, <1>9, <1>10, GoesOn DEF from, to

\* A string of which the buffer takes a part: the call ends in the middle of it.
LEMMA StringTooLongTrips ==
  ASSUME LzwSafe, StringTooLong, ~foreign, NEW n, NEW off, NEW seg, NEW bits,
         LzwTrip(n, off, seg, bits)
  PROVE  LzwTrip(n, off, seg, bits)'
<1> DEFINE fitting == Fitting(dec_codetab', code, occ)
           path == Chain(dec_codetab', fitting, occ)
           back == Back(dec_codetab', path, occ)
<1>1. /\ EnterString /\ StringOf(code).length > occ /\ Decoding
      /\ dec_codep' = code
      /\ dec_restart' = (IF fitting = NULL THEN dec_restart ELSE occ)
      /\ Leave(Entered, IF Len(path) < occ THEN buf ELSE buf \o back)
  BY DEF StringTooLong
<1>2. PICK m : m = Processed
  OBVIOUS
<1>3. /\ StringHere(data, stream, m, off, seg, code, Entered, dec_codetab')
      /\ off[m + 1] \in Nat /\ off[m + 2] \in Nat
      /\ m \in 0..(n - 1) /\ loc.at = m + 1 /\ code = stream[m + 1].code
      /\ m + 1 - seg[m + 2] > 0 /\ seg[m + 2] \in Nat
  BY <1>1, <1>2, StringEntered
<1>4. pc = "code" /\ UNCHANGED <<data, stream, asked, misread, dec_bitsleft, code>>
  BY <1>1 DEF EnterString, Other, Decoding, stripVars
<1>5. pc \notin EncodePcs
  BY <1>4 DEF EncodePcs
<1>6. /\ n \in Nat /\ ~failed /\ taken \in Nat /\ Len(buf) \in Nat /\ asked \in Nat
      /\ data \in Seq(Values) /\ taken + asked <= Len(data)
  BY <1>2, <1>4, <1>5, ReadingIs
<1>7. /\ off[m + 1] = taken + Len(buf)
      /\ \A x \in 1..Len(buf) : buf[x] = data[taken + x]
      /\ dec_bitsleft \in Nat /\ dec_bitsleft + bits[m + 2] >= bits[n + 1]
  <2>1. pc \in {"code", "first"}
    BY <1>4
  <2> QED BY <1>2, <2>1, NextRead
<1> DEFINE s == seg[m + 1]
           k == m - s
           from == off[m + 1]
           to == off[m + 2]
<1>8. /\ HasStrings(dec_codetab', data, stream, s, k, off)
      /\ Spells(data, off, s, k, code, from, to) /\ from \in Int /\ to \in Int
  BY <1>3 DEF StringHere
<1>9. StringOf(code).length = to - from
  BY <1>1, <1>2, EnteredLength
<1>10. occ \in Nat /\ occ = asked - Len(buf) /\ occ > 0
  BY <1>4, DecodingIs DEF LzwSafe, DecoderOK, CodePcs
<1>11. occ < to - from
  BY <1>1, <1>9
<1>12. to - from <= CSIZE
  <2>1. /\ dec_codetab' \in Tables /\ Entered \in Places /\ TableOK(dec_codetab', Entered)
    BY <1>1, <1>6, EnteredIs
  <2>2. dec_codetab'[code].length > 0
    BY <1>1, <1>2, EnteredLength DEF StringOf
  <2>3. code \in 0..(CSIZE - 1)
    BY <1>1, <2>2, StringEntry DEF StringOf
  <2>4. dec_codetab'[code].length <= code + 1
    BY <2>1, <2>2, <2>3, LengthBound
  <2>5. dec_codetab'[code].length = to - from
    BY <1>9 DEF StringOf
  <2> HIDE DEF from, to
  <2> QED BY <1>8, <2>3, <2>4, <2>5, CodesAre
<1> HIDE DEF s, k, from, to
<1>13. PICK q : q = occ
  OBVIOUS
<1>14. q \in Nat /\ 0 < q /\ q < to - from
  BY <1>10, <1>11, <1>13
<1>15. /\ Spells(data, off, s, k, Fitting(dec_codetab', code, q), from, from + q)
       /\ Fitting(dec_codetab', code, q) # NULL
  BY <1>8, <1>12, <1>14, FittingIs
<1>16. /\ Spells(data, off, s, k, fitting, from, from + q) /\ fitting # NULL
  BY <1>13, <1>15
<1> HIDE DEF fitting
<1> DEFINE c == Chain(dec_codetab', fitting, q)
           b == Back(dec_codetab', c, q)
<1>17. Len(c) = q /\ BytesAt(b, from) /\ Len(b) = q
  <2> DEFINE e == from + q
  <2>1. e \in Int /\ q <= e - from /\ e - q = from
    BY <1>8, <1>14
  <2>2. Spells(data, off, s, k, fitting, from, e)
    BY <1>16
  <2> HIDE DEF e
  <2>3. /\ Len(Chain(dec_codetab', fitting, q)) = q
        /\ BytesAt(Back(dec_codetab', Chain(dec_codetab', fitting, q), q), e - q)
        /\ Len(Back(dec_codetab', Chain(dec_codetab', fitting, q), q)) = q
    BY <1>8, <1>14, <2>1, <2>2, BackBytes
  <2> QED BY <2>1, <2>3
<1>18. path = c /\ back = b
  BY <1>13
<1> HIDE DEF c, b
<1>19. ~(Len(path) < occ)
  BY <1>13, <1>14, <1>17, <1>18
<1> DEFINE bytes == buf \o b
<1>20. Leave(Entered, bytes)
  BY <1>1, <1>18, <1>19
<1> HIDE DEF path, back
<1>21. dec_restart' = q
  BY <1>1, <1>13, <1>16
<1>22. BytesAt(bytes, taken) /\ Len(bytes) = asked
  <2>1. BytesAt(buf, taken)
    BY <1>7, DecodingIs DEF BytesAt
  <2>2. from \in Nat /\ from = taken + Len(buf)
    BY <1>3, <1>7 DEF from
  <2>3. BytesAt(buf \o b, taken) /\ Len(buf \o b) = Len(buf) + Len(b)
    BY <1>6, <1>17, <2>1, <2>2, BufferGrows
  <2>4. Len(buf) + q = asked
    BY <1>6, <1>10, <1>13
  <2> QED BY <1>17, <2>3, <2>4
<1> HIDE DEF bytes
<1>23. Return(bytes) /\ loc' = Entered
  BY <1>20 DEF Leave
<1>24. Given' /\ ~failed' /\ taken' = taken + asked /\ buf' = bytes /\ pc' = "idle"
  <2>1. IsSeq(bytes) /\ \A x \in 1..asked : bytes[x] = data[taken + x]
    BY <1>22 DEF BytesAt
  <2> QED BY <1>4, <1>6, <1>22, <1>23, <2>1, CallReturns
<1> DEFINE r == m + 1
<1>25. r \in 0..n /\ r + 1 = m + 2
  BY <1>3, <1>6
<1>26. PlaceOK(data, stream, r, off, seg, loc', dec_codetab')
  BY <1>3, <1>23 DEF StringHere
<1>27. loc'.at = r
  <2>1. loc \in Places
    BY DecodingIs
  <2>2. Entered.at = loc.at
    BY <2>1 DEF Entered, Places
  <2> QED BY <1>3, <1>23, <2>2
<1>28. dec_bitsleft' \in Nat /\ dec_bitsleft' + bits[loc'.at + 1] >= bits[n + 1]
  BY <1>4, <1>7, <1>25, <1>27
<1>29. r # seg[r + 1] /\ r - seg[r + 1] > 0
  BY <1>3, <1>25
<1>30. taken' = off[r] + dec_restart' /\ dec_restart' < off[r + 1] - off[r] /\ dec_restart' > 0
  <2>1. from = taken + Len(buf) /\ from = off[r] /\ to = off[r + 1]
    BY <1>7, <1>25 DEF from, to
  <2>2. taken + asked = from + q
    BY <1>6, <1>10, <1>13, <2>1
  <2> QED BY <1>14, <1>21, <1>24, <2>1, <2>2
<1>31. dec_codep' = stream[r].code
  BY <1>1, <1>3
<1> HIDE DEF r
<1>32. BytesOK(r, off, seg)'
  BY <1>4, <1>24, <1>29, <1>30, <1>31 DEF BytesOK
<1>33. ReadingAt(r, n, off, seg, bits)'
  BY <1>4, <1>24, <1>25, <1>26, <1>27, <1>28, <1>29, <1>32 DEF ReadingAt
<1>34. Processed' = r /\ pc' \notin EncodePcs
  BY <1>24, <1>27 DEF Processed, EncodePcs
<1> QED BY <1>4, <1>5, <1>24, <1>33, <1>34, ReadsOn

\* A call that goes on with a string: there is more of it, and it is the last one's.
LEMMA ResumeTrips ==
  ASSUME LzwSafe, Resume, ~foreign, NEW n, NEW off, NEW seg, NEW bits, LzwTrip(n, off, seg, bits)
  PROVE  LzwTrip(n, off, seg, bits)'
<1> DEFINE residue == dec_codetab[dec_codep].length - dec_restart
           path == Chain(dec_codetab, dec_codep, residue)
           before == SubSeq(path, 1, Len(path) - (residue - asked))
<1>1. /\ pc = "call" /\ dec_restart > 0
      /\ UNCHANGED <<data, stream, asked, misread, dec_codetab, dec_codep, dec_bitsleft, code>>
  BY DEF Resume, stripVars
<1>2. pc \notin EncodePcs
  BY <1>1 DEF EncodePcs
<1>3. PICK m : m = Processed
  OBVIOUS
<1>4. /\ n \in Nat /\ Parsed(data, stream, n, off, seg, bits) /\ ReadingAt(m, n, off, seg, bits)
      /\ ~failed /\ m \in 0..n /\ data \in Seq(Values) /\ off[m + 1] \in Nat
      /\ seg[m + 1] \in Nat /\ seg[m + 1] <= m
      /\ asked \in Nat /\ taken \in Nat /\ taken + asked <= Len(data)
  BY <1>1, <1>2, <1>3, ReadingIs
<1> DEFINE s == seg[m + 1]
           k == m - s
           from == off[m]
           to == off[m + 1]
<1>5. /\ k > 0 /\ dec_codep = stream[m].code /\ taken = from + dec_restart
      /\ dec_restart < to - from
  BY <1>1, <1>4 DEF ReadingAt, BytesOK
<1>6. Recorded(data, stream, s, k - 1, off, dec_codetab) /\ loc.free = CODE_FIRST + k - 1
  <2>1. k # 0
    BY <1>5
  <2> HIDE DEF CODE_FIRST
  <2> QED BY <1>4, <2>1 DEF ReadingAt, PlaceOK
<1>7. k \in Nat /\ k \in 1..k /\ k - 1 \in Int /\ s + k = m /\ s + k + 1 = m + 1 /\ s \in Nat
  <2>1. s \in Nat /\ m \in Nat /\ s <= m
    BY <1>4
  <2> HIDE DEF s
  <2>2. k \in Nat /\ s + k = m /\ s + k + 1 = m + 1
    BY <2>1
  <2>3. k > 0
    BY <1>5
  <2> HIDE DEF k
  <2> QED BY <2>1, <2>2, <2>3
<1>8. Strings(data, stream, s, k, off)
  BY <1>4, SegmentStrings
<1>9. m = Processed /\ loc.at = m /\ loc = sp
  BY <1>1, <1>3, <1>4 DEF Processed, LzwSafe, StringsOK
<1> HIDE DEF s, k
<1>10. /\ from \in Nat /\ Spells(data, off, s, k - 1, stream[m].code, from, to)
  BY <1>7, <1>8 DEF Strings
<1>11. HasStrings(dec_codetab, data, stream, s, k - 1, off)
  <2>1. Strings(data, stream, s, k - 1, off)
    <3>1. \A j \in 1..(k - 1) : j \in 1..k
      BY <1>7
    <3> QED BY <1>8, <3>1 DEF Strings
  <2>2. CODE_FIRST - 1 + (k - 1) < CSIZE
    <3>1. loc.free \in CODE_FIRST..CSIZE /\ CODE_FIRST \in Nat /\ CSIZE \in Nat
      BY DecodingIs, CodesAre
    <3> HIDE DEF CODE_FIRST
    <3> QED BY <1>6, <1>7, <3>1
  <2> QED BY <1>6, <1>7, <2>1, <2>2, DecodingIs DEF HasStrings
<1> HIDE DEF from, to
<1>12. to \in Nat /\ dec_restart \in Nat
  BY <1>4, DecodingIs DEF to
<1>13. dec_codetab[dec_codep].length = to - from
  BY <1>5, <1>7, <1>10, <1>11, <1>12, EntryOfString DEF HasStrings
<1> DEFINE z == to - taken
<1>14. /\ z \in Nat /\ z > 0 /\ z <= to - from /\ to - z = taken /\ residue = z
  <2>1. from \in Nat /\ to \in Nat /\ dec_restart \in Nat /\ taken = from + dec_restart
        /\ dec_restart < to - from
    BY <1>5, <1>10, <1>12
  <2>2. residue = (to - from) - dec_restart
    BY <1>13
  <2> HIDE DEF residue
  <2> QED BY <2>1, <2>2
<1> HIDE DEF z
<1> DEFINE c == Chain(dec_codetab, dec_codep, z)
<1>15. /\ Len(c) = z /\ \A i \in 1..z : dec_codetab[c[i]].value = data[taken + i]
       /\ BytesAt(Back(dec_codetab, c, z), taken) /\ Len(Back(dec_codetab, c, z)) = z
  <2>1. Spells(data, off, s, k - 1, dec_codep, from, to) /\ from \in Int /\ to \in Int
    BY <1>5, <1>10, <1>12
  <2>z. z \in Nat /\ z > 0 /\ z <= to - from
    BY <1>14
  <2>2. Len(c) = z /\ \A i \in 1..z : dec_codetab[c[i]].value = data[to - z + i]
    BY <1>11, <2>1, <2>z, ChainBytes
  <2>3. BytesAt(Back(dec_codetab, c, z), to - z) /\ Len(Back(dec_codetab, c, z)) = z
    BY <1>11, <2>1, <2>z, BackBytes
  <2> QED BY <1>14, <2>2, <2>3
<1>16. c \in Seq(0..(CSIZE - 1))
  <2>1. dec_codep \in Links /\ dec_codetab \in Tables
    BY <1>1, DecodingIs DEF LzwSafe, DecoderOK, Links
  <2> QED BY <1>14, <2>1, ChainTypes DEF ChainSeq
<1>17. residue = z /\ path = c
  BY <1>14
<1> HIDE DEF c, residue
<1>18. CASE /\ residue > asked /\ Return(Back(dec_codetab, before, asked))
            /\ dec_restart' = dec_restart + asked /\ loc' = loc
  <2> DEFINE b == Back(dec_codetab, before, asked)
  <2>1. before = SubSeq(c, 1, asked) /\ asked <= z /\ asked < z
    <3>1. Len(c) - (z - asked) = asked /\ asked < z
      BY <1>4, <1>14, <1>15, <1>17, <1>18
    <3> QED BY <1>4, <1>14, <1>17, <3>1
  <2>2. Len(before) = asked /\ \A i \in 1..asked : before[i] = c[i]
    <3> DEFINE u == asked
    <3>1. u \in Nat /\ u <= Len(c) /\ Len(c) \in Nat /\ before = SubSeq(c, 1, u)
      BY <1>4, <1>14, <1>15, <2>1
    <3> HIDE DEF u, before
    <3>2. Len(SubSeq(c, 1, u)) = u /\ \A i \in 1..u : SubSeq(c, 1, u)[i] = c[i]
      BY <1>16, <3>1
    <3> QED BY <3>1, <3>2 DEF u
  <2> HIDE DEF before
  <2>3. IsSeq(b) /\ Len(b) = asked
    BY <1>4, BackIs
  <2>4. \A x \in 1..asked : b[x] = data[taken + x]
    <3>1. \A i \in 1..asked : i + asked > asked /\ i + asked - asked = i /\ i \in 1..z
      BY <1>4, <1>14, <2>1
    <3> QED BY <1>15, <2>2, <3>1 DEF Back
  <2> HIDE DEF b
  <2>5. Return(b)
    BY <1>18 DEF b
  <2>6. Given' /\ ~failed' /\ taken' = taken + asked /\ buf' = b /\ pc' = "idle"
    BY <1>1, <1>4, <2>3, <2>4, <2>5, CallReturns
  <2>7. taken' = off[m] + dec_restart' /\ dec_restart' > 0 /\ dec_restart' < off[m + 1] - off[m]
    <3>1. dec_restart + asked < to - from
      BY <1>4, <1>5, <1>10, <1>12, <1>17, <1>18 DEF z
    <3>2. taken + asked = from + (dec_restart + asked) /\ dec_restart + asked > 0
      BY <1>1, <1>4, <1>5, <1>10, <1>12
    <3> QED BY <1>18, <2>6, <3>1, <3>2 DEF from, to
  <2>8. BytesOK(m, off, seg)'
    BY <1>1, <1>5, <2>6, <2>7 DEF BytesOK, k, s
  <2>9. ReadingAt(m, n, off, seg, bits)'
    BY <1>1, <1>4, <1>18, <2>6, <2>8 DEF ReadingAt
  <2>10. Processed' = m /\ pc' \notin EncodePcs
    BY <1>9, <1>18, <2>6 DEF Processed, EncodePcs
  <2> QED BY <1>1, <1>2, <2>6, <2>9, <2>10, ReadsOn
<1>19. CASE /\ ~(residue > asked) /\ buf' = Back(dec_codetab, path, residue) /\ dec_restart' = 0
            /\ loc' = sp /\ pc' = "decode" /\ UNCHANGED <<taken, ret, failed>>
  <2>1. buf' = Back(dec_codetab, c, z)
    BY <1>17, <1>19
  <2>2. off[m + 1] = taken + Len(buf')
    <3>1. to \in Nat /\ taken \in Nat /\ Len(buf') = to - taken
      BY <1>4, <1>12, <1>15, <2>1 DEF z
    <3> QED BY <3>1 DEF to
  <2>3. BytesOK(m, off, seg)'
    BY <1>1, <1>15, <1>19, <2>1, <2>2 DEF BytesOK, BytesAt
  <2>4. ReadingAt(m, n, off, seg, bits)'
    BY <1>1, <1>4, <1>9, <1>19, <2>3 DEF ReadingAt
  <2>5. Processed' = m /\ pc' \notin EncodePcs
    BY <1>9, <1>19 DEF Processed, EncodePcs
  <2> QED BY <1>1, <1>2, <1>4, <1>19, <2>4, <2>5, ReadsOn
<1> QED BY <1>18, <1>19 DEF Resume, RestartMoved, residue

LEMMA LzwStartTrips ==
  ASSUME LzwInit(Strips(LzwLengths))
  PROVE  LzwTrips
<1> SUFFICES ASSUME ~foreign PROVE \E n, off, seg, bits : LzwTrip(n, off, seg, bits)
  BY DEF LzwTrips
<1>1. /\ pc = "encode" /\ given = 0 /\ buf = <<>> /\ taken = 0 /\ ret = 1 /\ ~failed
      /\ stream = <<>> /\ enc = StartEncoder /\ hash = <<>> /\ ~misread
  BY DEF LzwInit, CodecInit, LzwIdle
<1> DEFINE zero == [i \in 1..1 |-> 0]
<1>2. zero \in [1..1 -> Nat] /\ zero[1] = 0
  OBVIOUS
<1> HIDE DEF zero
<1>3. Parsed(data, stream, 0, zero, zero, zero)
  <2>1. Before2(0, zero, zero, zero)
    BY <1>2 DEF Before2
  <2>2. Segments(0, zero, zero, zero)
    BY <1>2 DEF Segments
  <2>3. \A i \in 1..0 : CodeAt(data, stream, i, zero, zero, zero)
    OBVIOUS
  <2> QED BY <2>1, <2>2, <2>3 DEF Parsed
<1>4. HashOK(hash, data, stream, 0, zero, zero)
  <2>1. DOMAIN hash = {}
    BY <1>1
  <2> QED BY <2>1 DEF HashOK
<1>5. EncOK(enc, data, given, 0, zero, zero, zero)
  BY <1>1 DEF EncOK
<1>6. Writing(0, zero, zero, zero)
  <2>1. 0 = Len(stream)
    BY <1>1
  <2> QED BY <1>3, <1>4, <1>5, <2>1 DEF Writing
<1>7. LzwTrip(0, zero, zero, zero)
  BY <1>1, <1>6 DEF LzwTrip, EncodePcs
<1> QED BY <1>7

LEMMA LzwDecodeTrips ==
  ASSUME LzwSafe, LzwDecode, ~foreign, NEW n, NEW off, NEW seg, NEW bits,
         LzwTrip(n, off, seg, bits)
  PROVE  LzwTrip(n, off, seg, bits)'
<1>1. CASE Resume
  BY <1>1, ResumeTrips
<1>2. CASE Start
  BY <1>2, StartTrips
<1>3. CASE NextCode
  BY <1>3, NextCodeTrips
<1>4. CASE Clear
  BY <1>4, ClearTrips
<1>5. CASE EndOfInformation
  BY <1>5, EndOfInformationTrips
<1>6. CASE Satisfied
  BY <1>6, SatisfiedTrips
<1>7. CASE FirstString
  BY <1>7, FirstStringTrips
<1>8. CASE CorruptedTable
  BY <1>8, CorruptedTableTrips
<1>9. CASE Literal
  BY <1>9, LiteralTrips
<1>10. CASE UnknownString
  BY <1>10, UnknownStringTrips
<1>11. CASE WholeString
  BY <1>11, WholeStringTrips
<1>12. CASE StringTooLong
  BY <1>12, StringTooLongTrips
<1> QED BY <1>1, <1>2, <1>3, <1>4, <1>5, <1>6, <1>7, <1>8, <1>9, <1>10, <1>11, <1>12
        DEF LzwDecode

LEMMA LzwNextTrips == LzwSafe /\ LzwTrips /\ LzwNext => LzwTrips'
<1> SUFFICES ASSUME LzwSafe, LzwTrips, LzwNext, ~foreign'
             PROVE  (\E n, off, seg, bits : LzwTrip(n, off, seg, bits))'
  BY DEF LzwTrips
<1>1. ~foreign
  BY LzwKeepsStrip DEF NotFax, stripVars
<1>2. PICK n, off, seg, bits : LzwTrip(n, off, seg, bits)
  BY <1>1 DEF LzwTrips
<1>3. CASE FirstByte \/ KnownString \/ NewString
  BY <1>2, <1>3, EncodeTrips
<1>4. CASE LZWPostEncode
  BY <1>2, <1>4, LZWPostEncodeTrips
<1>5. CASE LZWPreDecode
  BY <1>1, <1>2, <1>5, LZWPreDecodeTrips
<1>6. CASE LzwAsk
  BY <1>1, <1>2, <1>6, LzwAskTrips
<1>7. CASE LzwDecode
  BY <1>1, <1>2, <1>7, LzwDecodeTrips
<1> QED BY <1>3, <1>4, <1>5, <1>6, <1>7 DEF LzwNext, LzwEncode

LEMMA LzwTripsUnchanged == LzwTrips /\ UNCHANGED vars => LzwTrips'
<1> SUFFICES ASSUME LzwTrips, UNCHANGED vars, ~foreign'
             PROVE  (\E n, off, seg, bits : LzwTrip(n, off, seg, bits))'
  BY DEF LzwTrips
<1>1. UNCHANGED <<codecVars, packbitsVars, lzwVars>>
  BY DEF vars
<1>2. UNCHANGED <<foreign, data, given, stream, pc, asked, buf, taken, ret, failed>>
  BY <1>1 DEF codecVars, stripVars, clientVars
<1>3. UNCHANGED <<enc, hash, loc, dec_codetab, dec_restart, dec_codep, dec_bitsleft, code, misread>>
  BY <1>1 DEF lzwVars
<1>4. PICK n, off, seg, bits : LzwTrip(n, off, seg, bits)
  BY <1>2 DEF LzwTrips
<1>5. Processed' = Processed /\ Given' = Given
  BY <1>2, <1>3 DEF Processed, Given
<1>6. Writing(n, off, seg, bits)' = Writing(n, off, seg, bits)
  BY <1>2, <1>3 DEF Writing
<1>7. Spelled(n, off, seg, bits)' = Spelled(n, off, seg, bits)
  BY <1>2 DEF Spelled
<1>8. \A m : BytesOK(m, off, seg) => BytesOK(m, off, seg)'
  BY <1>2, <1>3 DEF BytesOK
<1>9. ReadingAt(Processed, n, off, seg, bits) => ReadingAt(Processed, n, off, seg, bits)'
  BY <1>2, <1>3, <1>5, <1>8 DEF ReadingAt
<1>10. LzwTrip(n, off, seg, bits)'
  BY <1>2, <1>3, <1>4, <1>5, <1>6, <1>7, <1>9 DEF LzwTrip
<1> QED BY <1>10

LEMMA LzwTripsAlways == Spec => [](scheme = "lzw" => LzwTrips)
<1>1. Init => (scheme = "lzw" => LzwTrips)
  BY LzwStartTrips DEF Init, FaxSchemes
<1>2. CodecsSafe /\ (scheme = "lzw" => LzwTrips) /\ [Next]_vars
        => (scheme = "lzw" => LzwTrips)'
  <2> SUFFICES ASSUME CodecsSafe, scheme = "lzw" => LzwTrips, [Next]_vars, scheme' = "lzw"
               PROVE  LzwTrips'
    OBVIOUS
  <2>1. scheme = "lzw" /\ ((LzwNext /\ UNCHANGED packbitsVars) \/ UNCHANGED vars)
    BY SchemeStays
  <2>2. LzwSafe /\ LzwTrips
    BY <2>1 DEF CodecsSafe
  <2> QED BY <2>1, <2>2, LzwNextTrips, LzwTripsUnchanged
<1> QED BY <1>1, <1>2, CodecsAlways, PTL DEF Spec

-----------------------------------------------------------------------------
(***************************************************************************)
(* What a stream of PackBits stands for: packet i takes the bytes          *)
(* pos[i]+1 .. pos[i+1] of the stream and stands for the bytes             *)
(* off[i]+1 .. off[i+1] of the strip, all of them in one row.              *)
(***************************************************************************)
IsEnd(d, e) == e % RowSize = 0 \/ e = Len(d)
InRow(d, a, b) == \A e \in 0..Len(d) : IsEnd(d, e) /\ a < e => b <= e

LiteralPacket(st, d, p, o, p2, o2) ==
  /\ st[p + 1] \in 0..(Limit - 1) /\ p2 = p + st[p + 1] + 2 /\ o2 = o + st[p + 1] + 1
  /\ \A x \in 1..(st[p + 1] + 1) : st[p + 1 + x] = d[o + x]
RunPacket(st, d, p, o, p2, o2) ==
  /\ st[p + 1] \in LongRun..-1 /\ p2 = p + 2 /\ o2 = o + 1 - st[p + 1]
  /\ \A x \in 1..(1 - st[p + 1]) : d[o + x] = st[p + 2]
Packet(st, d, p, o, p2, o2) ==
  /\ p2 <= Len(st) /\ o2 <= Len(d) /\ InRow(d, o, o2)
  /\ LiteralPacket(st, d, p, o, p2, o2) \/ RunPacket(st, d, p, o, p2, o2)

Packets(st, d, n, pos, off) ==
  /\ n \in Nat /\ pos \in [1..(n + 1) -> Nat] /\ off \in [1..(n + 1) -> Nat]
  /\ pos[1] = 0 /\ off[1] = 0
  /\ \A j \in 1..(n + 1) : \A i \in 1..j : pos[i] <= pos[j] /\ off[i] <= off[j]
  /\ \A i \in 1..n : Packet(st, d, pos[i], off[i], pos[i + 1], off[i + 1])

LEMMA PacketsAre ==
  ASSUME NEW st, NEW d, NEW n, NEW pos, NEW off, Packets(st, d, n, pos, off)
  PROVE  /\ n \in Nat /\ pos[1] = 0 /\ off[1] = 0
         /\ \A i \in 1..(n + 1) : /\ pos[i] \in Nat /\ off[i] \in Nat
                                  /\ pos[i] <= pos[n + 1] /\ off[i] <= off[n + 1]
         /\ \A j \in 1..(n + 1) : \A i \in 1..j : pos[i] <= pos[j] /\ off[i] <= off[j]
         /\ \A i \in 1..n : Packet(st, d, pos[i], off[i], pos[i + 1], off[i + 1])
<1>1. n \in Nat /\ n + 1 \in 1..(n + 1) /\ \A i \in 1..(n + 1) : i \in 1..(n + 1)
  BY DEF Packets
<1> QED BY <1>1 DEF Packets

LEMMA HeaderIs ==
  ASSUME NEW st, NEW d, NEW p \in Nat, NEW o \in Nat, NEW p2, NEW o2, Packet(st, d, p, o, p2, o2)
  PROVE  /\ p2 \in Nat /\ o2 \in Nat /\ p + 2 <= p2 /\ o < o2 /\ st[p + 1] \in Int
         /\ p2 <= Len(st) /\ o2 <= Len(d) /\ InRow(d, o, o2)
         /\ st[p + 1] >= 0 => LiteralPacket(st, d, p, o, p2, o2)
         /\ st[p + 1] < 0 => RunPacket(st, d, p, o, p2, o2)
<1> DEFINE h == st[p + 1]
<1>1. Limit \in Nat /\ Limit > 2 /\ LongRun \in Int
  BY Sizes DEF LongRun
<1>2. CASE LiteralPacket(st, d, p, o, p2, o2)
  <2>1. h \in 0..(Limit - 1) /\ p2 = p + h + 2 /\ o2 = o + h + 1
    BY <1>2 DEF LiteralPacket
  <2> HIDE DEF h
  <2>2. h \in Nat /\ p2 \in Nat /\ o2 \in Nat /\ p + 2 <= p2 /\ o < o2 /\ ~(h < 0)
    BY <1>1, <2>1
  <2> QED BY <1>2, <2>2 DEF h, Packet
<1>3. CASE RunPacket(st, d, p, o, p2, o2)
  <2>1. h \in LongRun..-1 /\ p2 = p + 2 /\ o2 = o + 1 - h
    BY <1>3 DEF RunPacket
  <2> HIDE DEF h
  <2>2. h \in Int /\ p2 \in Nat /\ o2 \in Nat /\ p + 2 <= p2 /\ o < o2 /\ ~(h >= 0)
    BY <1>1, <2>1
  <2> QED BY <1>3, <2>2 DEF h, Packet
<1> QED BY <1>2, <1>3 DEF Packet

\* A packet is where it was if the stream is the same up to its end.
LEMMA PacketKept ==
  ASSUME NEW st, NEW d, NEW p \in Nat, NEW o \in Nat, NEW p2, NEW o2, Packet(st, d, p, o, p2, o2),
         NEW t, p2 <= Len(t), \A i \in 1..p2 : t[i] = st[i]
  PROVE  Packet(t, d, p, o, p2, o2)
<1> DEFINE h == st[p + 1]
<1>1. /\ p2 \in Nat /\ p + 2 <= p2 /\ o2 <= Len(d) /\ InRow(d, o, o2) /\ h \in Int
      /\ h >= 0 => LiteralPacket(st, d, p, o, p2, o2)
      /\ h < 0 => RunPacket(st, d, p, o, p2, o2)
  BY HeaderIs
<1>2. p + 1 \in 1..p2 /\ p + 2 \in 1..p2
  BY <1>1
<1>3. t[p + 1] = h /\ t[p + 2] = st[p + 2]
  BY <1>2
<1>4. CASE h >= 0
  <2>1. /\ h \in 0..(Limit - 1) /\ p2 = p + h + 2 /\ o2 = o + h + 1
        /\ \A x \in 1..(h + 1) : st[p + 1 + x] = d[o + x]
    BY <1>1, <1>4 DEF LiteralPacket
  <2> HIDE DEF h
  <2>2. \A x \in 1..(h + 1) : p + 1 + x \in 1..p2
    BY <1>1, <1>4, <2>1, SMTT(30)
  <2>3. \A x \in 1..(h + 1) : t[p + 1 + x] = d[o + x]
    BY <2>1, <2>2
  <2>4. LiteralPacket(t, d, p, o, p2, o2)
    BY <1>3, <2>1, <2>3 DEF LiteralPacket
  <2> QED BY <1>1, <2>4 DEF Packet
<1>5. CASE h < 0
  <2>1. RunPacket(t, d, p, o, p2, o2)
    BY <1>1, <1>3, <1>5 DEF RunPacket
  <2> QED BY <1>1, <2>1 DEF Packet
<1> HIDE DEF h
<1> QED BY <1>1, <1>4, <1>5

\* The first m packets, and one more behind them.
Agree(t, st, k) == Len(t) \in Nat /\ k <= Len(t) /\ \A i \in 1..k : t[i] = st[i]
Extended(t, d, m, pos, off, p2, o2, pos2, off2) ==
  /\ Packets(t, d, m + 1, pos2, off2) /\ pos2[m + 2] = p2 /\ off2[m + 2] = o2
  /\ \A i \in 1..(m + 1) : pos2[i] = pos[i] /\ off2[i] = off[i]

LEMMA PacketPut ==
  ASSUME NEW st, NEW d, NEW n, NEW pos, NEW off, Packets(st, d, n, pos, off), NEW m \in 0..n,
         NEW t, Agree(t, st, pos[m + 1]), NEW p2, NEW o2,
         Packet(t, d, pos[m + 1], off[m + 1], p2, o2)
  PROVE  \E pos2, off2 : Extended(t, d, m, pos, off, p2, o2, pos2, off2)
<1> DEFINE pos2 == Grow(pos, m, p2)
           off2 == Grow(off, m, o2)
<1>0. Len(t) \in Nat /\ pos[m + 1] <= Len(t) /\ \A i \in 1..pos[m + 1] : t[i] = st[i]
  BY DEF Agree
<1>1. /\ n \in Nat /\ pos[1] = 0 /\ off[1] = 0
      /\ \A i \in 1..(n + 1) : pos[i] \in Nat /\ off[i] \in Nat
      /\ \A j \in 1..(n + 1) : \A i \in 1..j : pos[i] <= pos[j] /\ off[i] <= off[j]
      /\ \A i \in 1..n : Packet(st, d, pos[i], off[i], pos[i + 1], off[i + 1])
  BY PacketsAre
<1>2. m \in Nat /\ m + 1 \in 1..(n + 1) /\ \A i \in 1..(m + 1) : i \in 1..(n + 1)
  BY <1>1
<1>3. pos[m + 1] \in Nat /\ off[m + 1] \in Nat
  BY <1>1, <1>2
<1>4. p2 \in Nat /\ o2 \in Nat /\ pos[m + 1] <= p2 /\ off[m + 1] <= o2
  <2>1. p2 \in Nat /\ o2 \in Nat /\ pos[m + 1] + 2 <= p2 /\ off[m + 1] < o2
    BY <1>3, HeaderIs
  <2> QED BY <1>3, <2>1
<1>5. /\ pos2[m + 2] = p2 /\ off2[m + 2] = o2
      /\ \A i \in 1..(m + 1) : pos2[i] = pos[i] /\ off2[i] = off[i]
  BY <1>2 DEF Grow
<1>6. pos2 \in [1..(m + 2) -> Nat] /\ off2 \in [1..(m + 2) -> Nat]
  BY <1>1, <1>2, <1>4 DEF Grow
<1> HIDE DEF pos2, off2
<1>7. ASSUME NEW j \in 1..(m + 2), NEW i \in 1..j PROVE pos2[i] <= pos2[j] /\ off2[i] <= off2[j]
  <2>1. CASE j # m + 2
    <3>1. j \in 1..(m + 1) /\ i \in 1..(m + 1) /\ j \in 1..(n + 1)
      BY <1>2, <2>1
    <3> QED BY <1>1, <1>5, <3>1
  <2>2. CASE j = m + 2 /\ i = m + 2
    BY <1>4, <1>5, <2>2
  <2>3. CASE j = m + 2 /\ i # m + 2
    <3>1. i \in 1..(m + 1)
      BY <1>2, <2>3
    <3>2. pos[i] <= pos[m + 1] /\ off[i] <= off[m + 1] /\ pos[i] \in Nat /\ off[i] \in Nat
      BY <1>1, <1>2, <3>1
    <3>3. pos[i] <= p2 /\ off[i] <= o2
      BY <1>3, <1>4, <3>2
    <3> QED BY <1>5, <2>3, <3>1, <3>3
  <2> QED BY <2>1, <2>2, <2>3
<1>8. ASSUME NEW i \in 1..(m + 1) PROVE Packet(t, d, pos2[i], off2[i], pos2[i + 1], off2[i + 1])
  <2>1. CASE i = m + 1
    <3>1. i + 1 = m + 2 /\ m + 1 \in 1..(m + 1)
      BY <1>2, <2>1
    <3> QED BY <1>5, <2>1, <3>1
  <2>2. CASE i # m + 1
    <3>1. i \in 1..n /\ i \in 1..(m + 1) /\ i + 1 \in 1..(m + 1) /\ i \in 1..(n + 1) /\ i + 1 \in 1..(n + 1)
      <4>1. n \in Nat /\ m <= n
        BY <1>1
      <4> QED BY <1>2, <2>2, <4>1
    <3>2. Packet(st, d, pos[i], off[i], pos[i + 1], off[i + 1])
      BY <1>1, <3>1
    <3>3. pos[i] \in Nat /\ off[i] \in Nat /\ pos[i + 1] \in Nat /\ pos[i + 1] <= pos[m + 1]
      BY <1>1, <1>2, <3>1
    <3>4. pos[i + 1] <= Len(t) /\ \A x \in 1..pos[i + 1] : t[x] = st[x]
      <4>1. \A x \in 1..pos[i + 1] : x \in 1..pos[m + 1]
        BY <1>3, <3>3
      <4> QED BY <1>0, <1>3, <3>3, <4>1
    <3>5. Packet(t, d, pos[i], off[i], pos[i + 1], off[i + 1])
      BY <3>2, <3>3, <3>4, PacketKept
    <3> QED BY <1>5, <3>1, <3>5
  <2> QED BY <2>1, <2>2
<1>9. 1 \in 1..(m + 1) /\ (m + 1) + 1 = m + 2 /\ m + 1 \in Nat
  BY <1>2
<1>10. Packets(t, d, m + 1, pos2, off2)
  BY <1>1, <1>5, <1>6, <1>7, <1>8, <1>9 DEF Packets
<1> QED BY <1>5, <1>10 DEF Extended

-----------------------------------------------------------------------------
(***************************************************************************)
(* Rows.                                                                   *)
(***************************************************************************)
LEMMA InRowPart ==
  ASSUME NEW d, Len(d) \in Nat, NEW a \in Nat, NEW b \in Nat, InRow(d, a, b),
         NEW a2 \in Nat, NEW b2 \in Nat, a <= a2, b2 <= b
  PROVE  InRow(d, a2, b2)
<1> SUFFICES ASSUME NEW e \in 0..Len(d), IsEnd(d, e), a2 < e
             PROVE  b2 <= e
  BY DEF InRow
<1>1. a < e
  OBVIOUS
<1>2. b <= e
  BY <1>1 DEF InRow
<1> QED BY <1>2

LEMMA InRowNothing == ASSUME NEW d, Len(d) \in Nat, NEW a \in Nat PROVE InRow(d, a, a)
BY DEF InRow

\* The row of the byte that is given next ends at EndOfRow.
LEMMA EndsAre ==
  ASSUME StripOK, given < Len(data), NEW e \in 0..Len(data), IsEnd(data, e), given < e
  PROVE  EndOfRow <= e
<1> DEFINE q == given \div RowSize
           r == given % RowSize
           n == (q + 1) * RowSize
           p == e \div RowSize
<1>1. given \in Nat /\ Len(data) \in Nat /\ RowSize \in Nat \ {0} /\ e \in Nat
  BY StripIs, Sizes
<1>2. EndOfRow = Smaller(n, Len(data))
  BY DEF EndOfRow
<1>3. q \in Nat /\ r \in 0..(RowSize - 1) /\ given = RowSize * q + r
  BY <1>1, Divided
<1>4. CASE e = Len(data)
  <2>1. n \in Nat
    BY <1>1, <1>3
  <2> HIDE DEF n
  <2> QED BY <1>1, <1>2, <1>4, <2>1 DEF Smaller
<1>5. CASE e % RowSize = 0
  <2>1. p \in Nat /\ e = RowSize * p + (e % RowSize)
    BY <1>1, Divided
  <2> HIDE DEF q, r, p
  <2>2. e = RowSize * p
    BY <1>1, <1>5, <2>1
  <2>3. q < p
    <3> SUFFICES ASSUME p <= q PROVE FALSE
      BY <1>3, <2>1
    <3>1. RowSize * p <= RowSize * q
      BY <1>1, <1>3, <2>1
    <3> QED BY <1>1, <1>3, <2>2, <3>1
  <2>4. q + 1 <= p
    BY <1>3, <2>1, <2>3
  <2>5. n <= RowSize * p
    BY <1>1, <1>3, <2>1, <2>4
  <2>6. n \in Nat
    BY <1>1, <1>3
  <2> HIDE DEF n
  <2> QED BY <1>1, <1>2, <2>2, <2>5, <2>6 DEF Smaller
<1> QED BY <1>4, <1>5 DEF IsEnd

\* A call ends at the end of a row or of the strip.
LEMMA EndsAdd ==
  ASSUME NEW a \in Nat, NEW b \in Nat, a % RowSize = 0, b % RowSize = 0
  PROVE  (a + b) % RowSize = 0
<1> DEFINE p == a \div RowSize
           q == b \div RowSize
           r == (a + b) \div RowSize
           x == (a + b) % RowSize
<1>1. RowSize \in Nat \ {0}
  BY Sizes
<1>2. p \in Nat /\ a = RowSize * p + (a % RowSize)
  BY <1>1, Divided
<1>3. q \in Nat /\ b = RowSize * q + (b % RowSize)
  BY <1>1, Divided
<1>4. r \in Nat /\ x \in 0..(RowSize - 1) /\ a + b = RowSize * r + x
  <2>1. a + b \in Nat
    OBVIOUS
  <2> QED BY <1>1, <2>1, Divided
<1> HIDE DEF p, q, r, x
<1>5. RowSize * (p + q - r) = x
  <2>1. RowSize * (p + q - r) = RowSize * p + RowSize * q - RowSize * r
    BY <1>1, <1>2, <1>3, <1>4
  <2>2. RowSize * p \in Int /\ RowSize * q \in Int /\ RowSize * r \in Int
    BY <1>1, <1>2, <1>3, <1>4
  <2>3. a = RowSize * p /\ b = RowSize * q
    <3>1. \A y \in Int : y = y + 0
      OBVIOUS
    <3> QED BY <1>2, <1>3, <2>2, <3>1
  <2> QED BY <1>4, <2>1, <2>2, <2>3
<1> DEFINE k == p + q - r
<1>6. k \in Int
  BY <1>2, <1>3, <1>4
<1>7. RowSize * k = x
  BY <1>5
<1> HIDE DEF k
<1>8. k <= 0
  <2> SUFFICES ASSUME k >= 1 PROVE FALSE
    BY <1>6
  <2>1. RowSize * k >= RowSize
    BY <1>1, <1>6
  <2> QED BY <1>1, <1>4, <1>7, <2>1
<1>9. RowSize * k <= 0
  BY <1>1, <1>6, <1>8
<1>10. x = 0
  BY <1>1, <1>4, <1>7, <1>9
<1> QED BY <1>10 DEF x

LEMMA ZeroEnds == 0 % RowSize = 0
BY Sizes

-----------------------------------------------------------------------------
(***************************************************************************)
(* The encoder.  A literal that may still grow is the last packet, or the  *)
(* last but one; the run that is to be put is in its row.                  *)
(***************************************************************************)
PackingPcs == {"row", "run", "again", "put"}
Growing == state \in {"LITERAL", "LITERAL_RUN"}
\* How many packets the literal is from the end.
FromEnd == IF state = "LITERAL" THEN 1 ELSE IF state = "LITERAL_RUN" THEN 2 ELSE 0

LastOK(n, pos, off) ==
  /\ FromEnd <= n /\ InRow(data, off[n + 1 - FromEnd], given)
  /\ Growing => pos[n + 1 - FromEnd] + 1 = Len(stream) + lastliteral

Packing(n, pos, off) ==
  /\ Packets(stream \o raw, data, n, pos, off)
  /\ pos[n + 1] = Len(stream) + Len(raw) /\ off[n + 1] + run.n = given
  /\ \A x \in 1..run.n : data[off[n + 1] + x] = run.b
  /\ LastOK(n, pos, off)
  /\ pc = "run" => ~Growing \/ ~IsEnd(data, given)
  /\ pc \in {"row", "run"} => run.n = 0
  /\ taken = 0 /\ buf = <<>> /\ bp = 0 /\ ret = 1 /\ ~failed

\* The facts that most steps of the encoder need.
LEMMA PackingIs ==
  ASSUME PackBitsSafe, NEW n, NEW pos, NEW off, Packing(n, pos, off)
  PROVE  /\ n \in Nat /\ Packets(stream \o raw, data, n, pos, off)
         /\ pos[n + 1] \in Nat /\ off[n + 1] \in Nat
         /\ pos[n + 1] = Len(stream) + Len(raw) /\ off[n + 1] + run.n = given
         /\ \A x \in 1..run.n : data[off[n + 1] + x] = run.b
         /\ FromEnd \in {0, 1, 2} /\ FromEnd <= n
         /\ n + 1 - FromEnd \in 1..(n + 1)
         /\ pos[n + 1 - FromEnd] \in Nat /\ off[n + 1 - FromEnd] \in Nat
         /\ off[n + 1 - FromEnd] <= off[n + 1]
         /\ InRow(data, off[n + 1 - FromEnd], given)
         /\ Growing => pos[n + 1 - FromEnd] + 1 = Len(stream) + lastliteral
         /\ raw \in Seq(RawBytes) /\ stream \in Seq(RawBytes)
         /\ Len(raw) \in Nat /\ Len(stream) \in Nat /\ given \in Nat /\ run.n \in Nat
         /\ Len(data) \in Nat /\ given <= Len(data)
         /\ stream \o raw \in Seq(RawBytes) /\ Len(stream \o raw) = Len(stream) + Len(raw)
         /\ taken = 0 /\ buf = <<>> /\ bp = 0 /\ ret = 1 /\ ~failed
<1>1. /\ Packets(stream \o raw, data, n, pos, off)
      /\ pos[n + 1] = Len(stream) + Len(raw) /\ off[n + 1] + run.n = given
      /\ \A x \in 1..run.n : data[off[n + 1] + x] = run.b
      /\ LastOK(n, pos, off)
      /\ taken = 0 /\ buf = <<>> /\ bp = 0 /\ ret = 1 /\ ~failed
  BY DEF Packing
<1>2. FromEnd \in {0, 1, 2} /\ FromEnd <= n
  BY <1>1 DEF FromEnd, LastOK
<1>3. n \in Nat
  BY <1>1, PacketsAre
<1>4. n + 1 - FromEnd \in 1..(n + 1) /\ n + 1 \in 1..(n + 1)
  BY <1>2, <1>3
<1>5. /\ pos[n + 1] \in Nat /\ off[n + 1] \in Nat
      /\ pos[n + 1 - FromEnd] \in Nat /\ off[n + 1 - FromEnd] \in Nat
      /\ off[n + 1 - FromEnd] <= off[n + 1]
  BY <1>1, <1>4, PacketsAre
<1>6. /\ raw \in Seq(RawBytes) /\ stream \in Seq(RawBytes)
      /\ Len(raw) \in Nat /\ Len(stream) \in Nat /\ given \in Nat /\ run.n \in Nat
      /\ Len(data) \in Nat /\ given <= Len(data)
  BY RawIs
<1>7. stream \o raw \in Seq(RawBytes) /\ Len(stream \o raw) = Len(stream) + Len(raw)
  BY <1>6, JoinedParts
<1> QED BY <1>1, <1>2, <1>3, <1>4, <1>5, <1>6, <1>7 DEF LastOK

\* What a step of the encoder must show.
LEMMA PacksOn ==
  ASSUME NEW n, NEW pos, NEW off, data' = data, UNCHANGED clientVars, bp' = bp,
         taken = 0, buf = <<>>, bp = 0, ret = 1, ~failed,
         Packets(stream' \o raw', data, n, pos, off),
         pos[n + 1] = Len(stream') + Len(raw'), off[n + 1] + run'.n = given',
         \A x \in 1..run'.n : data[off[n + 1] + x] = run'.b,
         FromEnd' <= n, InRow(data, off[n + 1 - FromEnd'], given'),
         Growing' => pos[n + 1 - FromEnd'] + 1 = Len(stream') + lastliteral',
         pc' = "run" => ~Growing' \/ ~IsEnd(data, given'),
         pc' \in {"row", "run"} => run'.n = 0
  PROVE  Packing(n, pos, off)'
<1>1. LastOK(n, pos, off)'
  BY DEF LastOK
<1>2. (taken = 0 /\ buf = <<>> /\ bp = 0 /\ ret = 1 /\ ~failed)'
  BY DEF clientVars
<1> QED BY <1>1, <1>2 DEF Packing

LEMMA StartRowPacks ==
  ASSUME PackBitsSafe, StartRow, NEW n, NEW pos, NEW off, Packing(n, pos, off)
  PROVE  Packing(n, pos, off)'
<1>1. /\ pc = "row" /\ state' = "BASE" /\ pc' = "run" /\ data' = data /\ UNCHANGED clientVars
      /\ UNCHANGED <<given, stream, raw, run, bp>>
  BY DEF StartRow, stripVars
<1>2. run.n = 0
  BY <1>1 DEF Packing
<1>3. off[n + 1] = given
  BY <1>2, PackingIs
<1>4. FromEnd' = 0 /\ ~Growing'
  BY <1>1 DEF FromEnd, Growing
<1>5. InRow(data, off[n + 1], given)
  BY <1>3, PackingIs, InRowNothing
<1>6. n + 1 - FromEnd' = n + 1 /\ FromEnd' <= n
  BY <1>4, PackingIs
<1> QED BY <1>1, <1>2, <1>4, <1>5, <1>6, PackingIs, PacksOn

LEMMA FindRunPacks ==
  ASSUME PackBitsSafe, FindRun, NEW n, NEW pos, NEW off, Packing(n, pos, off)
  PROVE  Packing(n, pos, off)'
<1> DEFINE r == RunLength(EndOfRow)
           a == off[n + 1 - FromEnd]
<1>1. /\ pc = "run" /\ run' = [n |-> r, b |-> data[given + 1]] /\ given' = given + r
      /\ pc' = "again" /\ data' = data /\ UNCHANGED clientVars
      /\ UNCHANGED <<stream, raw, lastliteral, state, bp>>
  BY DEF FindRun, stripVars
<1>2. run.n = 0 /\ (~Growing \/ ~IsEnd(data, given))
  BY <1>1 DEF Packing
<1>3. off[n + 1] = given /\ given \in Nat /\ Len(data) \in Nat
  BY <1>2, PackingIs
<1>4. given < Len(data) /\ StripOK
  BY <1>1 DEF PackBitsSafe, PackBitsOK
<1>5. EndOfRow \in Nat /\ given < EndOfRow /\ EndOfRow <= Len(data)
  BY <1>4, EndIs
<1>6. r \in 1..(EndOfRow - given) /\ \A i \in 1..r : data[given + i] = data[given + 1]
  BY <1>3, <1>5, RunIs
<1>7. FromEnd' = FromEnd /\ Growing' = Growing
  BY <1>1 DEF FromEnd, Growing
<1> HIDE DEF r
<1>8. r \in Nat /\ given + r <= EndOfRow
  BY <1>3, <1>5, <1>6
<1>9. InRow(data, a, given + r)
  <2>1. a \in Nat /\ InRow(data, a, given)
    BY PackingIs
  <2>2. FromEnd = 0 => a = given
    BY <1>3, PackingIs
  <2>3. ~Growing => FromEnd = 0
    BY DEF Growing, FromEnd
  <2> HIDE DEF a
  <2> SUFFICES ASSUME NEW e \in 0..Len(data), IsEnd(data, e), a < e
               PROVE  given + r <= e
    BY DEF InRow
  <2>4. given <= e
    BY <2>1 DEF InRow
  <2>5. given # e
    BY <1>2, <2>1, <2>2, <2>3
  <2>6. given < e
    BY <1>3, <2>4, <2>5
  <2>7. EndOfRow <= e
    BY <1>4, <2>6, EndsAre
  <2> QED BY <1>3, <1>5, <1>8, <2>7
<1>10. run'.n = r /\ run'.b = data[given + 1]
  BY <1>1
<1>11. off[n + 1] + run'.n = given' /\ \A x \in 1..run'.n : data[off[n + 1] + x] = run'.b
  BY <1>1, <1>3, <1>6, <1>10
<1>12. InRow(data, off[n + 1 - FromEnd'], given')
  BY <1>1, <1>7, <1>9
<1> HIDE DEF a
<1> QED BY <1>1, <1>7, <1>11, <1>12, PackingIs, PacksOn

\* What is flushed and what stays are what was in the buffer.
LEMMA Regrouped ==
  ASSUME NEW S, NEW s \in Seq(S), NEW r \in Seq(S), NEW m \in 0..Len(r)
  PROVE  (s \o SubSeq(r, 1, m)) \o SubSeq(r, m + 1, Len(r)) = s \o r
<1> DEFINE out == SubSeq(r, 1, m)
           kept == SubSeq(r, m + 1, Len(r))
           k == Len(r) - m
           t == s \o out
           u == t \o kept
           v == s \o r
<1>1. m \in Nat /\ Len(r) \in Nat /\ k \in Nat /\ Len(s) \in Nat
  OBVIOUS
<1>2. out \in Seq(S) /\ Len(out) = m /\ \A i \in 1..m : out[i] = r[i]
  OBVIOUS
<1>3. kept \in Seq(S) /\ Len(kept) = k /\ \A i \in 1..k : kept[i] = r[m + i]
  BY LastPart
<1> HIDE DEF out, kept
<1>4. /\ t \in Seq(S) /\ Len(t) = Len(s) + m
      /\ \A i \in 1..Len(s) : t[i] = s[i]
      /\ \A i \in 1..m : t[Len(s) + i] = out[i]
  <2>1. /\ s \o out \in Seq(S) /\ Len(s \o out) = Len(s) + Len(out)
        /\ \A i \in 1..Len(s) : (s \o out)[i] = s[i]
        /\ \A i \in 1..Len(out) : (s \o out)[Len(s) + i] = out[i]
    <3>1. s \in Seq(S) /\ out \in Seq(S)
      BY <1>2
    <3> QED BY <3>1, JoinedParts
  <2> QED BY <1>2, <2>1
<1> HIDE DEF t
<1>5. /\ u \in Seq(S) /\ Len(u) = Len(t) + k
      /\ \A i \in 1..Len(t) : u[i] = t[i]
      /\ \A i \in 1..k : u[Len(t) + i] = kept[i]
  <2>1. /\ t \o kept \in Seq(S) /\ Len(t \o kept) = Len(t) + Len(kept)
        /\ \A i \in 1..Len(t) : (t \o kept)[i] = t[i]
        /\ \A i \in 1..Len(kept) : (t \o kept)[Len(t) + i] = kept[i]
    <3>1. t \in Seq(S) /\ kept \in Seq(S)
      BY <1>3, <1>4
    <3> QED BY <3>1, JoinedParts
  <2> QED BY <1>3, <2>1
<1>6. /\ v \in Seq(S) /\ Len(v) = Len(s) + Len(r)
      /\ \A i \in 1..Len(s) : v[i] = s[i]
      /\ \A i \in 1..Len(r) : v[Len(s) + i] = r[i]
  BY <1>1, JoinedParts
<1> HIDE DEF u, v
<1>7. Len(u) = Len(v)
  BY <1>1, <1>4, <1>5, <1>6
<1>8. ASSUME NEW i \in 1..Len(v) PROVE u[i] = v[i]
  <2>1. CASE i <= Len(s)
    <3>1. i \in 1..Len(s) /\ i \in 1..Len(t)
      BY <1>1, <1>4, <2>1
    <3> QED BY <1>4, <1>5, <1>6, <3>1
  <2>2. CASE Len(s) < i /\ i <= Len(s) + m
    <3> DEFINE x == i - Len(s)
    <3>1. x \in 1..m /\ i = Len(s) + x /\ i \in 1..Len(t) /\ x \in 1..Len(r)
      BY <1>1, <1>4, <2>2
    <3> HIDE DEF x
    <3> QED BY <1>2, <1>4, <1>5, <1>6, <3>1, ZenonT(40)
  <2>3. CASE Len(s) + m < i
    <3> DEFINE x == i - (Len(s) + m)
    <3>1. x \in 1..k /\ i = Len(t) + x /\ i = Len(s) + (m + x) /\ m + x \in 1..Len(r)
      BY <1>1, <1>4, <1>6, <2>3
    <3> HIDE DEF x
    <3>2. u[Len(t) + x] = kept[x] /\ kept[x] = r[m + x]
      BY <1>3, <1>5, <3>1
    <3>3. v[Len(s) + (m + x)] = r[m + x]
      BY <1>6, <3>1
    <3> QED BY <3>1, <3>2, <3>3
  <2>4. i \in Nat /\ Len(s) \in Nat /\ m \in Nat
    BY <1>1
  <2>5. i <= Len(s) \/ (Len(s) < i /\ i <= Len(s) + m) \/ Len(s) + m < i
    BY <2>4
  <2> QED BY <2>1, <2>2, <2>3, <2>5
<1>9. u = v
  <2>1. u = [i \in 1..Len(u) |-> u[i]] /\ v = [i \in 1..Len(v) |-> v[i]]
    BY <1>5, <1>6
  <2> QED BY <1>7, <1>8, <2>1
<1> QED BY <1>9 DEF u, v, t, out, kept

LEMMA FlushPacks ==
  ASSUME PackBitsSafe, Flush, NEW n, NEW pos, NEW off, Packing(n, pos, off)
  PROVE  Packing(n, pos, off)'
<1>1. /\ pc = "again" /\ pc' = "put" /\ data' = data /\ UNCHANGED clientVars
      /\ UNCHANGED <<given, state, run, bp>>
  BY DEF Flush, stripVars
<1>2. FromEnd' = FromEnd /\ Growing' = Growing
  BY <1>1 DEF FromEnd, Growing
<1>3. /\ stream' \o raw' = stream \o raw /\ Len(stream') + Len(raw') = Len(stream) + Len(raw)
      /\ Growing => Len(stream') + lastliteral' = Len(stream) + lastliteral
  <2>1. CASE Len(raw) + 2 >= RawSize
    <3> DEFINE m == Len(raw) - Slop
               kept == SubSeq(raw, m + 1, Len(raw))
               out == SubSeq(raw, 1, m)
    <3>1. stream' = stream \o out /\ raw' = kept
          /\ lastliteral' = IF Slop > 0 THEN 1 ELSE lastliteral
      BY <2>1 DEF Flush
    <3>2. /\ Slop \in 0..Len(raw)
          /\ Growing => Slop > 0 /\ lastliteral = m + 1
      BY <1>1, SlopIs DEF Growing
    <3>3. m \in 0..Len(raw) /\ raw \in Seq(RawBytes) /\ stream \in Seq(RawBytes)
          /\ Len(raw) \in Nat /\ Len(stream) \in Nat
      BY <3>2, RawIs
    <3> HIDE DEF m
    <3>4. stream' \o raw' = stream \o raw
      BY <3>1, <3>3, Regrouped
    <3>5. kept \in Seq(RawBytes) /\ Len(kept) = Len(raw) - m
      BY <3>3, LastPart
    <3>6. out \in Seq(RawBytes) /\ Len(out) = m
      BY <3>3
    <3> HIDE DEF kept, out
    <3>7. Len(stream') = Len(stream) + m
      BY <3>1, <3>3, <3>6, JoinedParts
    <3> QED BY <3>1, <3>2, <3>3, <3>4, <3>5, <3>7
  <2>2. CASE ~(Len(raw) + 2 >= RawSize)
    BY <2>2 DEF Flush
  <2> QED BY <2>1, <2>2
<1> QED BY <1>1, <1>2, <1>3, PackingIs, PacksOn

LEMMA TwoMore ==
  ASSUME NEW S, NEW s \in Seq(S), NEW r \in Seq(S), NEW x \in S, NEW y \in S,
         NEW p, p = Len(s) + Len(r)
  PROVE  /\ Len(r \o <<x, y>>) = Len(r) + 2 /\ Len(s \o (r \o <<x, y>>)) = p + 2
         /\ Agree(s \o (r \o <<x, y>>), s \o r, p)
         /\ (s \o (r \o <<x, y>>))[p + 1] = x /\ (s \o (r \o <<x, y>>))[p + 2] = y
<1> DEFINE two == <<x, y>>
           st == s \o r
           u == r \o two
           t == s \o u
<1>1. two \in Seq(S) /\ Len(two) = 2 /\ two[1] = x /\ two[2] = y
  OBVIOUS
<1>2. 1 \in 1..Len(two) /\ 2 \in 1..Len(two)
  BY <1>1
<1> HIDE DEF two
<1>3. /\ u \in Seq(S) /\ Len(u) = Len(r) + Len(two)
      /\ \A i \in 1..Len(r) : u[i] = r[i]
      /\ \A i \in 1..Len(two) : u[Len(r) + i] = two[i]
  <2>1. r \in Seq(S) /\ two \in Seq(S)
    BY <1>1
  <2> QED BY <2>1, JoinedParts
<1> HIDE DEF u
<1>4. /\ Len(t) = Len(s) + Len(u)
      /\ \A i \in 1..Len(s) : t[i] = s[i]
      /\ \A i \in 1..Len(u) : t[Len(s) + i] = u[i]
  <2>1. s \in Seq(S) /\ u \in Seq(S)
    BY <1>3
  <2> QED BY <2>1, JoinedParts
<1>5. /\ \A i \in 1..Len(s) : st[i] = s[i]
      /\ \A i \in 1..Len(r) : st[Len(s) + i] = r[i]
  BY JoinedParts
<1>6. Len(s) \in Nat /\ Len(r) \in Nat
  OBVIOUS
<1> HIDE DEF t, st
<1>7. Len(t) = p + 2 /\ Len(u) = Len(r) + 2
  BY <1>1, <1>3, <1>4, <1>6
<1>8. t[p + 1] = x /\ t[p + 2] = y
  <2>1. Len(r) + 1 \in 1..Len(u) /\ Len(r) + 2 \in 1..Len(u)
        /\ p + 1 = Len(s) + (Len(r) + 1) /\ p + 2 = Len(s) + (Len(r) + 2)
    BY <1>6, <1>7
  <2>2. t[p + 1] = u[Len(r) + 1] /\ t[p + 2] = u[Len(r) + 2]
    BY <1>4, <2>1
  <2> QED BY <1>1, <1>2, <1>3, <2>2
<1>9. ASSUME NEW i \in 1..p PROVE t[i] = st[i]
  <2>1. CASE i <= Len(s)
    <3>1. i \in 1..Len(s)
      BY <1>6, <2>1
    <3> QED BY <1>4, <1>5, <3>1
  <2>2. CASE Len(s) < i
    <3> DEFINE k == i - Len(s)
    <3>1. k \in 1..Len(r) /\ k \in 1..Len(u) /\ i = Len(s) + k
      BY <1>6, <1>7, <2>2
    <3> HIDE DEF k
    <3>2. t[i] = u[k] /\ u[k] = r[k] /\ st[i] = r[k]
      BY <1>3, <1>4, <1>5, <3>1
    <3> QED BY <3>2
  <2> QED BY <1>6, <2>1, <2>2
<1>10. Agree(t, st, p)
  BY <1>6, <1>7, <1>9 DEF Agree
<1> QED BY <1>7, <1>8, <1>10 DEF t, st, u, two

\* A header that stands for r bytes, with one byte behind it.
HeaderOf(x, r) == (x = 0 /\ r = 1) \/ (x \in LongRun..-1 /\ r = 1 - x)

\* Two bytes more in the buffer: a packet more, of r bytes of the strip.
LEMMA TwoBytesPut ==
  ASSUME PackBitsSafe, NEW n, NEW pos, NEW off, Packing(n, pos, off),
         NEW x \in RawBytes, run.b \in RawBytes, raw' = raw \o <<x, run.b>>, stream' = stream,
         NEW r \in Nat, r > 0, r <= run.n, HeaderOf(x, r)
  PROVE  \E pos2, off2 : Extended(stream' \o raw', data, n, pos, off, Len(stream') + Len(raw'),
                                  off[n + 1] + r, pos2, off2)
<1> DEFINE p == pos[n + 1]
           o == off[n + 1]
           a == off[n + 1 - FromEnd]
           st == stream \o raw
           t == stream \o (raw \o <<x, run.b>>)
<1>1. /\ n \in Nat /\ Packets(st, data, n, pos, off) /\ p \in Nat /\ o \in Nat
      /\ p = Len(stream) + Len(raw) /\ o + run.n = given /\ run.n \in Nat
      /\ \A i \in 1..run.n : data[o + i] = run.b
      /\ a \in Nat /\ a <= o /\ InRow(data, a, given)
      /\ raw \in Seq(RawBytes) /\ stream \in Seq(RawBytes)
      /\ Len(raw) \in Nat /\ Len(stream) \in Nat /\ given \in Nat
      /\ Len(data) \in Nat /\ given <= Len(data)
  BY PackingIs
<1>2. t = stream' \o raw'
  OBVIOUS
<1>3. /\ Len(t) = p + 2 /\ Agree(t, st, p)
      /\ t[p + 1] = x /\ t[p + 2] = run.b /\ Len(raw') = Len(raw) + 2
  <2>1. stream \in Seq(RawBytes) /\ raw \in Seq(RawBytes) /\ p = Len(stream) + Len(raw)
    BY <1>1
  <2> HIDE DEF p
  <2>2. x \in RawBytes /\ run.b \in RawBytes
    OBVIOUS
  <2> DEFINE y == run.b
  <2> HIDE DEF y
  <2>3. y \in RawBytes
    BY <2>2 DEF y
  <2>4. /\ Len(raw \o <<x, y>>) = Len(raw) + 2 /\ Len(stream \o (raw \o <<x, y>>)) = p + 2
        /\ Agree(stream \o (raw \o <<x, y>>), stream \o raw, p)
        /\ (stream \o (raw \o <<x, y>>))[p + 1] = x /\ (stream \o (raw \o <<x, y>>))[p + 2] = y
    BY <2>1, <2>2, <2>3, TwoMore
  <2> QED BY <2>4 DEF y
<1> HIDE DEF st, t, p, o, a
<1>4. o + r \in Nat /\ o + r <= given /\ o + r <= Len(data)
  <2>1. o \in Nat /\ run.n \in Nat /\ o + run.n = given /\ given <= Len(data) /\ Len(data) \in Nat
    BY <1>1
  <2> QED BY <2>1
<1>5. InRow(data, o, o + r)
  <2>1. a \in Nat /\ a <= o /\ InRow(data, a, given) /\ o \in Nat /\ given \in Nat /\ Len(data) \in Nat
    BY <1>1
  <2> QED BY <1>4, <2>1, InRowPart
<1>6. Packet(t, data, p, o, p + 2, o + r)
  <2>1. CASE x = 0 /\ r = 1
    <3>1. x \in 0..(Limit - 1) /\ p + 2 = p + x + 2 /\ o + r = o + x + 1
      BY <1>1, <2>1, Sizes
    <3>2. 1 \in 1..run.n
      BY <1>1, <2>1
    <3>3. \A i \in 1..(x + 1) : t[p + 1 + i] = data[o + i]
      <4>1. \A i \in 1..(x + 1) : i = 1
        BY <2>1
      <4>2. p + 1 + 1 = p + 2 /\ data[o + 1] = run.b
        BY <1>1, <3>2
      <4> QED BY <1>3, <4>1, <4>2
    <3>4. LiteralPacket(t, data, p, o, p + 2, o + r)
      BY <1>3, <3>1, <3>3 DEF LiteralPacket
    <3> QED BY <1>1, <1>3, <1>4, <1>5, <3>4 DEF Packet
  <2>2. CASE x \in LongRun..-1 /\ r = 1 - x
    <3>1. o + r = o + 1 - x
      BY <1>1, <2>2, Sizes DEF LongRun
    <3>2. \A i \in 1..(1 - x) : data[o + i] = t[p + 2]
      <4>1. \A i \in 1..r : i \in 1..run.n
        BY <1>1, SMTT(30)
      <4> QED BY <1>1, <1>3, <2>2, <4>1
    <3>3. RunPacket(t, data, p, o, p + 2, o + r)
      BY <1>3, <2>2, <3>1, <3>2 DEF RunPacket
    <3> QED BY <1>1, <1>3, <1>4, <1>5, <3>3 DEF Packet
  <2> QED BY <2>1, <2>2 DEF HeaderOf
<1>7. \E pos2, off2 : Extended(t, data, n, pos, off, p + 2, o + r, pos2, off2)
  <2>1. n \in 0..n
    BY <1>1
  <2>2. Packet(t, data, pos[n + 1], off[n + 1], p + 2, o + r)
    BY <1>6 DEF p, o
  <2>3. Agree(t, st, pos[n + 1])
    BY <1>3 DEF p
  <2>4. Packets(st, data, n, pos, off)
    BY <1>1
  <2> QED BY <2>1, <2>2, <2>3, <2>4, PacketPut
<1>8. p + 2 = Len(stream') + Len(raw')
  BY <1>1, <1>3
<1> QED BY <1>2, <1>7, <1>8 DEF o

LEMMA AfterRunEnds ==
  ASSUME pc' = AfterRun, given' = given
  PROVE  pc' = "run" => ~IsEnd(data, given')
BY DEF AfterRun, IsEnd

LEMMA PutRunPacks ==
  ASSUME PackBitsSafe, PutRun, NEW n, NEW pos, NEW off, Packing(n, pos, off)
  PROVE  \E n2, pos2, off2 : Packing(n2, pos2, off2)'
<1>1. /\ pc = "put" /\ state \in {"BASE", "LITERAL", "RUN"} /\ run.n > 1
      /\ state' = (IF state = "LITERAL" THEN "LITERAL_RUN" ELSE "RUN")
      /\ UNCHANGED <<given, stream, lastliteral, bp>> /\ data' = data /\ UNCHANGED clientVars
  BY DEF PutRun, stripVars
<1>2. run.b \in RawBytes /\ run.n \in Nat /\ Limit \in Nat /\ Limit > 2
  BY <1>1, ByteIs, RawIs, Sizes DEF PackBitsSafe, PackBitsOK
<1>3. PICK x \in RawBytes, r \in Nat :
        /\ raw' = raw \o <<x, run.b>> /\ x \in LongRun..-1 /\ r = 1 - x /\ r <= run.n
        /\ run'.n = run.n - r /\ run'.n \in Nat /\ (run'.n > 0 => run'.b = run.b)
        /\ pc' \in {"row", "run"} => run'.n = 0
        /\ pc' = "run" => ~IsEnd(data, given')
  <2>1. CASE run.n > Limit
    <3>1. raw' = raw \o <<LongRun, run.b>> /\ run' = [run EXCEPT !.n = @ - Limit] /\ pc' = "again"
      BY <2>1 DEF PutRun
    <3>2. run'.n = run.n - Limit /\ run'.b = run.b
      BY <3>1, RawIs
    <3>3. LongRun \in RawBytes /\ LongRun \in LongRun..-1 /\ Limit = 1 - LongRun
      BY <1>2, ByteIs DEF LongRun
    <3>4. run.n - Limit \in Nat /\ Limit <= run.n
      BY <1>2, <2>1
    <3> QED BY <1>2, <3>1, <3>2, <3>3, <3>4
  <2>2. CASE ~(run.n > Limit)
    <3> DEFINE h == -(run.n - 1)
    <3>1. raw' = raw \o <<h, run.b>> /\ run' = NoRun /\ pc' = AfterRun
      BY <2>2 DEF PutRun
    <3>2. h \in LongRun..-1 /\ run.n = 1 - h /\ h \in -(Limit - 1)..(Limit - 1)
      BY <1>1, <1>2, <2>2 DEF LongRun
    <3>3. h \in RawBytes
      BY <3>2, ByteIs
    <3> HIDE DEF h
    <3>4. run'.n = 0 /\ run.n - run.n = 0 /\ run.n <= run.n
      BY <1>2, <3>1 DEF NoRun
    <3>5. pc' = "run" => ~IsEnd(data, given')
      BY <1>1, <3>1, AfterRunEnds
    <3>6. /\ raw' = raw \o <<h, run.b>> /\ run.n = 1 - h /\ run.n <= run.n
          /\ run'.n = run.n - run.n /\ run'.n \in Nat /\ (run'.n > 0 => run'.b = run.b)
          /\ run'.n = 0
      BY <1>2, <3>1, <3>2, <3>4
    <3> QED BY <1>2, <3>2, <3>3, <3>5, <3>6
  <2> QED BY <2>1, <2>2
<1>4. r > 0
  <2>1. LongRun \in Int
    BY <1>2 DEF LongRun
  <2> QED BY <1>3, <2>1
<1>5. PICK pos2, off2 : Extended(stream' \o raw', data, n, pos, off, Len(stream') + Len(raw'),
                                off[n + 1] + r, pos2, off2)
  <2>1. run.b \in RawBytes /\ stream' = stream /\ raw' = raw \o <<x, run.b>> /\ r <= run.n
        /\ x \in LongRun..-1 /\ r = 1 - x
    BY <1>1, <1>2, <1>3
  <2>2. HeaderOf(x, r)
    BY <2>1 DEF HeaderOf
  <2> QED BY <1>4, <2>1, <2>2, TwoBytesPut
<1>put. /\ Packets(stream' \o raw', data, n + 1, pos2, off2)
       /\ pos2[n + 2] = Len(stream') + Len(raw') /\ off2[n + 2] = off[n + 1] + r
       /\ \A i \in 1..(n + 1) : pos2[i] = pos[i] /\ off2[i] = off[i]
  BY <1>5 DEF Extended
<1> DEFINE a == n + 1 - FromEnd
           k == n + 1
<1>6. /\ n \in Nat /\ off[n + 1] \in Nat /\ off[n + 1] + run.n = given /\ given \in Nat
      /\ \A i \in 1..run.n : data[off[n + 1] + i] = run.b
      /\ a \in 1..(n + 1) /\ off[a] \in Nat /\ off[a] <= off[n + 1] /\ InRow(data, off[a], given)
      /\ Growing => pos[a] + 1 = Len(stream) + lastliteral
      /\ Len(data) \in Nat /\ taken = 0 /\ buf = <<>> /\ bp = 0 /\ ret = 1 /\ ~failed
  BY PackingIs
<1>7. off2[k + 1] + run'.n = given'
  <2>1. k + 1 = n + 2 /\ off[n + 1] \in Nat /\ run.n \in Nat /\ given' = off[n + 1] + run.n
    BY <1>1, <1>2, <1>6
  <2>2. off2[n + 2] = off[n + 1] + r /\ run'.n = run.n - r
    BY <1>3, <1>put
  <2> QED BY <2>1, <2>2
<1>8. \A i \in 1..run'.n : data[off2[k + 1] + i] = run'.b
  <2> SUFFICES ASSUME NEW i \in 1..run'.n PROVE data[off2[k + 1] + i] = run'.b
    OBVIOUS
  <2>1. r + i \in 1..run.n /\ run'.n > 0
    BY <1>2, <1>3
  <2>2. off2[k + 1] + i = off[n + 1] + (r + i)
    <3>1. k + 1 = n + 2 /\ i \in Nat /\ off[n + 1] \in Nat
      BY <1>3, <1>6
    <3>2. off2[n + 2] = off[n + 1] + r
      BY <1>put
    <3> QED BY <3>1, <3>2
  <2> QED BY <1>3, <1>6, <2>1, <2>2
<1>9. /\ FromEnd' <= k /\ InRow(data, off2[k + 1 - FromEnd'], given')
      /\ Growing' => pos2[k + 1 - FromEnd'] + 1 = Len(stream') + lastliteral'
  <2>1. CASE state = "LITERAL"
    <3>1. state' = "LITERAL_RUN" /\ FromEnd' = 2 /\ FromEnd = 1 /\ Growing
      BY <1>1, <2>1 DEF FromEnd, Growing
    <3>2. k + 1 - FromEnd' = a /\ FromEnd' <= k
      BY <1>6, <3>1
    <3> QED BY <1>1, <1>put, <1>6, <3>1, <3>2
  <2>2. CASE state # "LITERAL"
    <3>1. FromEnd' = 0 /\ FromEnd = 0 /\ ~Growing'
      BY <1>1, <2>2 DEF FromEnd, Growing
    <3>2. k + 1 - FromEnd' = n + 2 /\ FromEnd' <= k /\ a = n + 1
      BY <1>6, <3>1
    <3> DEFINE b == off[n + 1]
    <3>3. b \in Nat /\ InRow(data, b, given)
      BY <1>6, <3>2
    <3>4. b + r \in Nat /\ b <= b + r /\ given \in Nat /\ Len(data) \in Nat /\ given <= given
      BY <1>6, <3>3
    <3> HIDE DEF b
    <3>5. InRow(data, b + r, given)
      BY <3>3, <3>4, InRowPart
    <3> QED BY <1>1, <1>put, <3>1, <3>2, <3>5 DEF b
  <2> QED BY <2>1, <2>2
<1>10. pos2[k + 1] = Len(stream') + Len(raw')
  <2>1. k + 1 = n + 2
    BY <1>6
  <2> QED BY <1>put, <2>1
<1> HIDE DEF a
<1>11. PICK n3 : n3 = k
  OBVIOUS
<1>12. Packing(n3, pos2, off2)'
  BY <1>1, <1>3, <1>put, <1>6, <1>7, <1>8, <1>9, <1>10, <1>11, PacksOn
<1> QED BY <1>12

LEMMA StartLiteralPacks ==
  ASSUME PackBitsSafe, StartLiteral, NEW n, NEW pos, NEW off, Packing(n, pos, off)
  PROVE  \E n2, pos2, off2 : Packing(n2, pos2, off2)'
<1>1. /\ pc = "put" /\ state \in {"BASE", "RUN"} /\ run.n = 1
      /\ lastliteral' = Len(raw) + 1 /\ raw' = raw \o <<0, run.b>> /\ state' = "LITERAL"
      /\ run' = NoRun /\ pc' = AfterRun
      /\ UNCHANGED <<given, stream, bp>> /\ data' = data /\ UNCHANGED clientVars
  BY DEF StartLiteral, stripVars
<1>2. run.b \in RawBytes /\ 0 \in RawBytes /\ 1 <= run.n
  BY <1>1, ByteIs DEF PackBitsSafe, PackBitsOK
<1>3. PICK pos2, off2 : Extended(stream' \o raw', data, n, pos, off, Len(stream') + Len(raw'),
                                off[n + 1] + 1, pos2, off2)
  <2>1. run.b \in RawBytes /\ stream' = stream /\ raw' = raw \o <<0, run.b>> /\ 0 \in RawBytes
    BY <1>1, <1>2
  <2>2. 1 \in Nat /\ 1 > 0 /\ 1 <= run.n
    BY <1>2
  <2>3. HeaderOf(0, 1)
    BY DEF HeaderOf
  <2> QED BY <2>1, <2>2, <2>3, TwoBytesPut
<1>put. /\ Packets(stream' \o raw', data, n + 1, pos2, off2)
       /\ pos2[n + 2] = Len(stream') + Len(raw') /\ off2[n + 2] = off[n + 1] + 1
       /\ \A i \in 1..(n + 1) : pos2[i] = pos[i] /\ off2[i] = off[i]
  BY <1>3 DEF Extended
<1> DEFINE k == n + 1
<1>4. FromEnd = 0 /\ FromEnd' = 1
  BY <1>1 DEF FromEnd
<1>5. n + 1 - FromEnd = n + 1 /\ k + 1 - FromEnd' = n + 1 /\ k + 1 = n + 2 /\ FromEnd' <= k
      /\ n + 1 \in 1..(n + 1)
  BY <1>4, PackingIs
<1>6. /\ off[n + 1] \in Nat /\ off[n + 1] + run.n = given /\ InRow(data, off[n + 1], given)
      /\ taken = 0 /\ buf = <<>> /\ bp = 0 /\ ret = 1 /\ ~failed
      /\ pos[n + 1] = Len(stream) + Len(raw) /\ Len(stream) \in Nat /\ Len(raw) \in Nat
  BY <1>5, PackingIs
<1>7. run'.n = 0 /\ off2[k + 1] + run'.n = given'
  BY <1>1, <1>put, <1>5, <1>6 DEF NoRun
<1>8. InRow(data, off2[k + 1 - FromEnd'], given')
      /\ pos2[k + 1 - FromEnd'] + 1 = Len(stream') + lastliteral'
  BY <1>1, <1>put, <1>5, <1>6, SMTT(30)
<1>9. \A i \in 1..run'.n : data[off2[k + 1] + i] = run'.b
  BY <1>7
<1>10. pc' = "run" => ~IsEnd(data, given')
  BY <1>1, AfterRunEnds
<1>11. pos2[k + 1] = Len(stream') + Len(raw')
  BY <1>put, <1>5
<1>12. PICK n3 : n3 = k
  OBVIOUS
<1>13. Packing(n3, pos2, off2)'
  BY <1>1, <1>put, <1>5, <1>6, <1>7, <1>8, <1>9, <1>10, <1>11, <1>12, PacksOn
<1> QED BY <1>13

\* One byte of the buffer changes; one is appended.
LEMMA Changed ==
  ASSUME NEW S, NEW s \in Seq(S), NEW r \in Seq(S), NEW k \in 1..Len(r), NEW v \in S,
         NEW q, q = [r EXCEPT ![k] = v]
  PROVE  /\ q \in Seq(S) /\ Len(q) = Len(r) /\ q[k] = v /\ \A i \in 1..Len(r) : i # k => q[i] = r[i]
         /\ (s \o q)[Len(s) + k] = v
         /\ \A i \in 1..(Len(s) + Len(r)) : i # Len(s) + k => (s \o q)[i] = (s \o r)[i]
<1> DEFINE t == s \o q
           st == s \o r
<1>1. q \in Seq(S) /\ Len(q) = Len(r) /\ q[k] = v /\ \A i \in 1..Len(r) : i # k => q[i] = r[i]
  OBVIOUS
<1>2. /\ \A i \in 1..Len(s) : t[i] = s[i]
      /\ \A i \in 1..Len(q) : t[Len(s) + i] = q[i]
  <2>1. s \in Seq(S) /\ q \in Seq(S)
    BY <1>1
  <2> QED BY <2>1, JoinedParts
<1>3. /\ \A i \in 1..Len(s) : st[i] = s[i]
      /\ \A i \in 1..Len(r) : st[Len(s) + i] = r[i]
  BY JoinedParts
<1>4. Len(s) \in Nat /\ Len(r) \in Nat
  OBVIOUS
<1> HIDE DEF t, st
<1>5. t[Len(s) + k] = v
  BY <1>1, <1>2
<1>6. ASSUME NEW i \in 1..(Len(s) + Len(r)), i # Len(s) + k PROVE t[i] = st[i]
  <2>1. CASE i <= Len(s)
    <3>1. i \in 1..Len(s)
      BY <1>4, <2>1
    <3> QED BY <1>2, <1>3, <3>1
  <2>2. CASE Len(s) < i
    <3> DEFINE x == i - Len(s)
    <3>1. x \in 1..Len(r) /\ i = Len(s) + x /\ x # k
      BY <1>4, <1>6, <2>2
    <3> HIDE DEF x
    <3>2. x \in 1..Len(q) /\ q[x] = r[x]
      BY <1>1, <3>1
    <3>3. t[i] = q[x] /\ st[i] = r[x]
      BY <1>2, <1>3, <3>1, <3>2
    <3> QED BY <3>2, <3>3
  <2>3. i <= Len(s) \/ Len(s) < i
    BY <1>4
  <2> QED BY <2>1, <2>2, <2>3
<1> QED BY <1>1, <1>5, <1>6 DEF t, st

LEMMA Appended ==
  ASSUME NEW S, NEW s \in Seq(S), NEW r \in Seq(S), NEW b \in S, NEW p, p = Len(s) + Len(r)
  PROVE  /\ Len(Append(r, b)) = Len(r) + 1 /\ Len(s \o Append(r, b)) = p + 1
         /\ (s \o Append(r, b))[p + 1] = b
         /\ \A i \in 1..p : (s \o Append(r, b))[i] = (s \o r)[i]
<1> DEFINE q == Append(r, b)
           t == s \o q
           st == s \o r
<1>1. /\ q \in Seq(S) /\ Len(q) = Len(r) + 1 /\ q[Len(r) + 1] = b
      /\ \A i \in 1..Len(r) : q[i] = r[i]
  OBVIOUS
<1> HIDE DEF q
<1>2. /\ Len(t) = Len(s) + Len(q)
      /\ \A i \in 1..Len(s) : t[i] = s[i]
      /\ \A i \in 1..Len(q) : t[Len(s) + i] = q[i]
  <2>1. s \in Seq(S) /\ q \in Seq(S)
    BY <1>1
  <2> QED BY <2>1, JoinedParts
<1>3. /\ \A i \in 1..Len(s) : st[i] = s[i]
      /\ \A i \in 1..Len(r) : st[Len(s) + i] = r[i]
  BY JoinedParts
<1>4. Len(s) \in Nat /\ Len(r) \in Nat
  OBVIOUS
<1> HIDE DEF t, st
<1>5. Len(t) = p + 1 /\ t[p + 1] = b
  <2>1. Len(r) + 1 \in 1..Len(q) /\ p + 1 = Len(s) + (Len(r) + 1)
    BY <1>1, <1>4
  <2> QED BY <1>1, <1>2, <1>4, <2>1
<1>6. ASSUME NEW i \in 1..p PROVE t[i] = st[i]
  <2>1. CASE i <= Len(s)
    <3>1. i \in 1..Len(s)
      BY <1>4, <2>1
    <3> QED BY <1>2, <1>3, <3>1
  <2>2. CASE Len(s) < i
    <3> DEFINE x == i - Len(s)
    <3>1. x \in 1..Len(r) /\ i = Len(s) + x /\ x \in 1..Len(q)
      BY <1>1, <1>4, <2>2
    <3> HIDE DEF x
    <3>2. t[i] = q[x] /\ st[i] = r[x] /\ q[x] = r[x]
      BY <1>1, <1>2, <1>3, <3>1
    <3> QED BY <3>2
  <2>3. i <= Len(s) \/ Len(s) < i
    BY <1>4
  <2> QED BY <2>1, <2>2, <2>3
<1> QED BY <1>1, <1>5, <1>6 DEF t, st, q

\* A literal with j bytes more.
Longer(st, t, d, p, p2, o2, h, j) ==
  /\ h = st[p + 1] /\ h >= 0 /\ h + j <= Limit - 1 /\ t[p + 1] = h + j
  /\ Len(t) \in Nat /\ p2 + j <= Len(t)
  /\ \A i \in (p + 2)..p2 : t[i] = st[i]
  /\ \A i \in 1..j : t[p2 + i] = d[o2 + i]

LEMMA LongerLiteral ==
  ASSUME NEW st, NEW d, NEW p \in Nat, NEW o \in Nat, NEW p2, NEW o2, Packet(st, d, p, o, p2, o2),
         NEW h, NEW j \in Nat, NEW t, Longer(st, t, d, p, p2, o2, h, j),
         o2 + j <= Len(d), InRow(d, o, o2 + j)
  PROVE  Packet(t, d, p, o, p2 + j, o2 + j)
<1>1. /\ h = st[p + 1] /\ h >= 0 /\ h + j <= Limit - 1 /\ t[p + 1] = h + j
      /\ Len(t) \in Nat /\ p2 + j <= Len(t)
      /\ \A i \in (p + 2)..p2 : t[i] = st[i]
      /\ \A i \in 1..j : t[p2 + i] = d[o2 + i]
  BY DEF Longer
<1>2. LiteralPacket(st, d, p, o, p2, o2)
  BY <1>1, HeaderIs
<1>3. /\ h \in 0..(Limit - 1) /\ p2 = p + h + 2 /\ o2 = o + h + 1
      /\ \A x \in 1..(h + 1) : st[p + 1 + x] = d[o + x]
  BY <1>1, <1>2 DEF LiteralPacket
<1>4. /\ h \in Nat /\ Limit \in Nat /\ p2 = p + h + 2 /\ o2 = o + h + 1 /\ h + j <= Limit - 1
      /\ p2 \in Nat /\ o2 \in Nat
  <2>1. h \in Nat /\ Limit \in Nat
    BY <1>3, Sizes
  <2>2. h + j <= Limit - 1
    BY <1>1
  <2>3. p2 = p + h + 2 /\ o2 = o + h + 1
    BY <1>3
  <2>4. p2 \in Nat /\ o2 \in Nat
    BY <2>1, <2>3
  <2> QED BY <2>1, <2>2, <2>3, <2>4
<1> DEFINE g == h + j
<1>5. g \in 0..(Limit - 1) /\ p2 + j = p + g + 2 /\ o2 + j = o + g + 1
  BY <1>4
<1>6. ASSUME NEW x \in 1..(g + 1) PROVE t[p + 1 + x] = d[o + x]
  <2>1. CASE x <= h + 1
    <3>1. x \in 1..(h + 1) /\ p + 1 + x \in (p + 2)..p2
      BY <1>4, <2>1
    <3> QED BY <1>1, <1>3, <3>1
  <2>2. CASE h + 1 < x
    <3> DEFINE y == x - (h + 1)
    <3>1. y \in 1..j /\ p + 1 + x = p2 + y /\ o + x = o2 + y
      BY <1>4, <2>2
    <3> HIDE DEF y
    <3> QED BY <1>1, <3>1
  <2>3. x <= h + 1 \/ h + 1 < x
    BY <1>4
  <2> QED BY <2>1, <2>2, <2>3
<1>7. t[p + 1] = g
  BY <1>1
<1> HIDE DEF g
<1>8. LiteralPacket(t, d, p, o, p2 + j, o2 + j)
  BY <1>5, <1>6, <1>7 DEF LiteralPacket
<1> QED BY <1>1, <1>8 DEF Packet

LEMMA ExtendLiteralPacks ==
  ASSUME PackBitsSafe, ExtendLiteral, NEW n, NEW pos, NEW off, Packing(n, pos, off)
  PROVE  \E n2, pos2, off2 : Packing(n2, pos2, off2)'
<1> DEFINE h == raw[lastliteral]
           q == [raw EXCEPT ![lastliteral] = AsByte(h + 1)]
           st == stream \o raw
           sq == stream \o q
           t == stream \o Append(q, run.b)
           p == pos[n]
           o == off[n]
           p2 == pos[n + 1]
           o2 == off[n + 1]
<1>1. /\ pc = "put" /\ state = "LITERAL" /\ run.n = 1 /\ raw' = Append(q, run.b)
      /\ state' = (IF LiteralFull(raw'[lastliteral]) THEN "BASE" ELSE "LITERAL")
      /\ run' = NoRun /\ pc' = AfterRun
      /\ UNCHANGED <<given, stream, lastliteral, bp>> /\ data' = data /\ UNCHANGED clientVars
  BY DEF ExtendLiteral, stripVars
<1>2. /\ run.b \in RawBytes /\ lastliteral \in 1..Len(raw) /\ h \in 0..(Limit - 2)
  BY <1>1, ByteIs DEF PackBitsSafe, PackBitsOK, LiteralOK
<1>3. h \in Nat /\ Limit \in Nat /\ h + 1 <= Limit - 1 /\ AsByte(h + 1) = h + 1 /\ h + 1 \in RawBytes
  <2> HIDE DEF h
  <2>1. h \in Nat /\ Limit \in Nat /\ h + 1 <= Limit - 1
    BY <1>2, Sizes
  <2>2. h + 1 \in 0..(Limit - 1) /\ h + 1 \in -(Limit - 1)..(Limit - 1)
    BY <2>1
  <2> QED BY <2>1, <2>2, ByteIs
<1>4. FromEnd = 1 /\ Growing
  BY <1>1 DEF FromEnd, Growing
<1>5. n \in Nat /\ n >= 1 /\ n + 1 - FromEnd = n /\ n \in 1..n /\ n - 1 \in 0..n /\ n \in 1..(n + 1)
  BY <1>4, PackingIs
<1>6. /\ Packets(st, data, n, pos, off) /\ p2 \in Nat /\ o2 \in Nat /\ p \in Nat /\ o \in Nat
      /\ p2 = Len(stream) + Len(raw) /\ o2 + 1 = given /\ o <= o2
      /\ data[o2 + 1] = run.b /\ p + 1 = Len(stream) + lastliteral /\ InRow(data, o, given)
      /\ raw \in Seq(RawBytes) /\ stream \in Seq(RawBytes) /\ Len(raw) \in Nat /\ Len(stream) \in Nat
      /\ given \in Nat /\ given <= Len(data) /\ Len(data) \in Nat
      /\ taken = 0 /\ buf = <<>> /\ bp = 0 /\ ret = 1 /\ ~failed
  <2>1. 1 \in 1..run.n
    BY <1>1
  <2>2. /\ Packets(st, data, n, pos, off) /\ p2 \in Nat /\ o2 \in Nat
        /\ p2 = Len(stream) + Len(raw) /\ o2 + run.n = given
        /\ \A x \in 1..run.n : data[o2 + x] = run.b
    BY PackingIs
  <2>3. /\ p \in Nat /\ o \in Nat /\ o <= o2
        /\ p + 1 = Len(stream) + lastliteral /\ InRow(data, o, given)
    BY <1>4, <1>5, PackingIs
  <2>4. /\ raw \in Seq(RawBytes) /\ stream \in Seq(RawBytes) /\ Len(raw) \in Nat
        /\ Len(stream) \in Nat /\ given \in Nat /\ given <= Len(data) /\ Len(data) \in Nat
        /\ taken = 0 /\ buf = <<>> /\ bp = 0 /\ ret = 1 /\ ~failed
    BY PackingIs
  <2>5. o2 + 1 = given
    BY <1>1, <2>2
  <2>6. data[o2 + 1] = run.b
    BY <2>1, <2>2
  <2> QED BY <2>2, <2>3, <2>4, <2>5, <2>6
<1>7. Packet(st, data, p, o, p2, o2)
  BY <1>5, <1>6, PacketsAre
<1>8. p + 2 <= p2
  BY <1>6, <1>7, HeaderIs
<1>9. /\ q \in Seq(RawBytes) /\ Len(q) = Len(raw) /\ q[lastliteral] = h + 1
      /\ sq[Len(stream) + lastliteral] = h + 1
      /\ \A i \in 1..(Len(stream) + Len(raw)) : i # Len(stream) + lastliteral => sq[i] = st[i]
  <2> DEFINE v == AsByte(h + 1)
  <2>1. v \in RawBytes /\ v = h + 1
    BY <1>3
  <2> HIDE DEF v
  <2>2. q = [raw EXCEPT ![lastliteral] = v]
    BY DEF v
  <2>3. raw \in Seq(RawBytes) /\ stream \in Seq(RawBytes)
    BY <1>6
  <2> HIDE DEF q
  <2>4. /\ q \in Seq(RawBytes) /\ Len(q) = Len(raw) /\ q[lastliteral] = v
        /\ sq[Len(stream) + lastliteral] = v
        /\ \A i \in 1..(Len(stream) + Len(raw)) : i # Len(stream) + lastliteral => sq[i] = st[i]
    BY <1>2, <2>1, <2>2, <2>3, Changed
  <2> QED BY <2>1, <2>4
<1>10. st[Len(stream) + lastliteral] = h
  BY <1>2, <1>6, JoinedParts
<1> HIDE DEF q
<1>11. /\ Len(Append(q, run.b)) = Len(raw) + 1 /\ Len(t) = p2 + 1 /\ t[p2 + 1] = run.b
       /\ \A i \in 1..p2 : t[i] = sq[i]
  <2>1. q \in Seq(RawBytes) /\ stream \in Seq(RawBytes) /\ p2 = Len(stream) + Len(q)
    BY <1>6, <1>9
  <2>2. Len(Append(q, run.b)) = Len(q) + 1 /\ Len(t) = p2 + 1 /\ t[p2 + 1] = run.b
        /\ \A i \in 1..p2 : t[i] = sq[i]
    <3> DEFINE b == run.b
    <3>1. b \in RawBytes
      BY <1>2
    <3> HIDE DEF b, p2
    <3>2. /\ Len(Append(q, b)) = Len(q) + 1 /\ Len(stream \o Append(q, b)) = p2 + 1
          /\ (stream \o Append(q, b))[p2 + 1] = b
          /\ \A i \in 1..p2 : (stream \o Append(q, b))[i] = sq[i]
      BY <2>1, <3>1, Appended
    <3> QED BY <3>2 DEF b
  <2> QED BY <1>9, <2>2
<1>12. raw'[lastliteral] = h + 1
  <2>1. lastliteral \in 1..Len(q)
    BY <1>2, <1>9
  <2> QED BY <1>1, <1>2, <1>9, <2>1, AppendIs
<1>13. t = stream' \o raw'
  BY <1>1
<1> HIDE DEF st, sq, t, h, p, o, p2, o2
<1>14. Longer(st, t, data, p, p2, o2, h, 1) /\ Agree(t, st, p)
  <2>1. \A i \in 1..p2 : i # p + 1 => t[i] = st[i]
    BY <1>6, <1>9, <1>11
  <2>2. p + 1 \in 1..p2
    BY <1>6, <1>8
  <2>3. t[p + 1] = h + 1 /\ st[p + 1] = h
    BY <1>6, <1>9, <1>10, <1>11, <2>2
  <2>4. \A i \in (p + 2)..p2 : i \in 1..p2 /\ i # p + 1
    BY <1>6
  <2>5. \A i \in 1..p : i \in 1..p2 /\ i # p + 1
    BY <1>6, <1>8
  <2>6. \A i \in 1..1 : t[p2 + i] = data[o2 + i]
    BY <1>6, <1>11
  <2>7. Len(t) \in Nat /\ p2 + 1 <= Len(t) /\ p <= Len(t)
    BY <1>6, <1>8, <1>11
  <2>8. h >= 0 /\ h + 1 <= Limit - 1
    BY <1>3
  <2>9. Agree(t, st, p)
    BY <2>1, <2>5, <2>7 DEF Agree
  <2> QED BY <2>1, <2>3, <2>4, <2>6, <2>7, <2>8, <2>9 DEF Longer
<1>15. Packet(t, data, p, o, p2 + 1, o2 + 1)
  <2>1. o2 + 1 <= Len(data) /\ InRow(data, o, o2 + 1) /\ p \in Nat /\ o \in Nat
    BY <1>6
  <2>2. 1 \in Nat
    OBVIOUS
  <2> QED BY <1>7, <1>14, <2>1, <2>2, LongerLiteral
<1>16. PICK pos2, off2 : Extended(t, data, n - 1, pos, off, p2 + 1, o2 + 1, pos2, off2)
  <2> DEFINE m == n - 1
  <2>1. m \in 0..n /\ m + 1 = n
    BY <1>5
  <2> HIDE DEF m
  <2>2. Packet(t, data, pos[m + 1], off[m + 1], p2 + 1, o2 + 1) /\ Agree(t, st, pos[m + 1])
    BY <1>14, <1>15, <2>1 DEF p, o
  <2>3. Packets(st, data, n, pos, off)
    BY <1>6
  <2>4. \E pos2, off2 : Extended(t, data, m, pos, off, p2 + 1, o2 + 1, pos2, off2)
    BY <2>1, <2>2, <2>3, PacketPut
  <2> QED BY <2>4 DEF m
<1>17. /\ Packets(t, data, n, pos2, off2) /\ pos2[n + 1] = p2 + 1 /\ off2[n + 1] = given
       /\ pos2[n] = p /\ off2[n] = o
  <2>1. (n - 1) + 1 = n /\ (n - 1) + 2 = n + 1
    BY <1>5
  <2> QED BY <1>5, <1>6, <1>16, <2>1 DEF Extended, p, o
<1>18. run'.n = 0 /\ off2[n + 1] + run'.n = given'
  BY <1>1, <1>6, <1>17 DEF NoRun
<1>19. pos2[n + 1] = Len(stream') + Len(raw')
  BY <1>1, <1>6, <1>11, <1>17
<1>20. /\ FromEnd' <= n /\ InRow(data, off2[n + 1 - FromEnd'], given')
       /\ Growing' => pos2[n + 1 - FromEnd'] + 1 = Len(stream') + lastliteral'
  <2>1. CASE state' = "LITERAL"
    <3>1. FromEnd' = 1 /\ n + 1 - FromEnd' = n /\ FromEnd' <= n
      BY <1>5, <2>1 DEF FromEnd
    <3> QED BY <1>1, <1>6, <1>17, <3>1
  <2>2. CASE state' = "BASE"
    <3>1. FromEnd' = 0 /\ n + 1 - FromEnd' = n + 1 /\ FromEnd' <= n /\ ~Growing'
      BY <1>5, <2>2 DEF FromEnd, Growing
    <3>2. InRow(data, given, given)
      BY <1>6, InRowNothing
    <3> QED BY <1>1, <1>17, <3>1, <3>2
  <2> QED BY <1>1, <2>1, <2>2
<1>21. pc' = "run" => ~IsEnd(data, given')
  BY <1>1, AfterRunEnds
<1>22. \A i \in 1..run'.n : data[off2[n + 1] + i] = run'.b
  BY <1>18
<1>23. Packing(n, pos2, off2)'
  BY <1>1, <1>6, <1>13, <1>17, <1>18, <1>19, <1>20, <1>21, <1>22, PacksOn
<1> QED BY <1>23

\* The run of two bytes behind the literal becomes a part of it.
LEMMA MergeLiteralsPacks ==
  ASSUME PackBitsSafe, MergeLiterals, NEW n, NEW pos, NEW off, Packing(n, pos, off)
  PROVE  \E n2, pos2, off2 : Packing(n2, pos2, off2)'
<1> DEFINE h == raw[lastliteral]
           l == Len(raw)
           w == raw[l]
           q == [raw EXCEPT ![lastliteral] = AsByte(h + 2)]
           r == [q EXCEPT ![l - 1] = w]
           st == stream \o raw
           sq == stream \o q
           t == stream \o r
           p == pos[n - 1]
           o == off[n - 1]
           p2 == pos[n]
           o2 == off[n]
           p3 == pos[n + 1]
           o3 == off[n + 1]
<1>1. /\ pc = "put" /\ pc' = "again" /\ state = "LITERAL_RUN"
      /\ UNCHANGED <<given, stream, lastliteral, run, bp>> /\ data' = data /\ UNCHANGED clientVars
  BY DEF MergeLiterals, stripVars
<1>2. FromEnd = 2 /\ Growing /\ AfterLiteral = 2
  BY <1>1 DEF FromEnd, Growing, AfterLiteral
<1>3. /\ n \in Nat /\ n >= 2 /\ n + 1 - FromEnd = n - 1 /\ n - 1 \in 1..n /\ n \in 1..n
      /\ n - 2 \in 0..n /\ n - 1 \in 1..(n + 1) /\ n \in 1..(n + 1)
  BY <1>2, PackingIs
<1>4. /\ Packets(st, data, n, pos, off) /\ p3 \in Nat /\ o3 \in Nat /\ p \in Nat /\ o \in Nat
      /\ p3 = Len(stream) + l /\ o3 + run.n = given /\ o <= o3 /\ InRow(data, o, given)
      /\ \A x \in 1..run.n : data[o3 + x] = run.b
      /\ p + 1 = Len(stream) + lastliteral
      /\ raw \in Seq(RawBytes) /\ stream \in Seq(RawBytes) /\ l \in Nat /\ Len(stream) \in Nat
      /\ given \in Nat /\ given <= Len(data) /\ Len(data) \in Nat /\ run.n \in Nat
      /\ taken = 0 /\ buf = <<>> /\ bp = 0 /\ ret = 1 /\ ~failed
  BY <1>2, <1>3, PackingIs, ZenonT(40)
<1>5. InRow(data, o3, given)
  <2> HIDE DEF o, o3
  <2>1. given <= given
    BY <1>4
  <2> QED BY <1>4, <2>1, InRowPart
<1>6. ASSUME state' = "RUN", UNCHANGED raw PROVE Packing(n, pos, off)'
  <2>1. FromEnd' = 0 /\ ~Growing' /\ n + 1 - FromEnd' = n + 1 /\ FromEnd' <= n
    BY <1>3, <1>6 DEF FromEnd, Growing
  <2>2. InRow(data, off[n + 1 - FromEnd'], given')
    BY <1>1, <1>5, <2>1
  <2> QED BY <1>1, <1>4, <1>6, <2>1, <2>2, PacksOn
<1>7. CASE state' = "RUN" /\ UNCHANGED raw
  BY <1>6, <1>7
<1>8. ASSUME run.n = 1, raw[l - 1] = -1, RoomForRun(h), raw' = r,
             state' = (IF LiteralFull(raw'[lastliteral]) THEN "BASE" ELSE "LITERAL")
      PROVE  \E n2, pos2, off2 : Packing(n2, pos2, off2)'
  <2>1. lastliteral \in 1..l /\ h \in 0..(Limit - 2) /\ l = lastliteral + h + 3
    <3>1. lastliteral \in 1..l /\ h \in 0..(Limit - 2) /\ l = lastliteral + h + 1 + AfterLiteral
      BY <1>1 DEF PackBitsSafe, PackBitsOK, LiteralOK
    <3> HIDE DEF h, l
    <3> QED BY <1>2, <1>4, <3>1, Sizes
  <2>2. /\ h \in Nat /\ Limit \in Nat /\ h + 2 <= Limit - 1 /\ AsByte(h + 2) = h + 2
        /\ h + 2 \in RawBytes
    <3>1. h < Limit - 2
      BY <1>8 DEF RoomForRun
    <3> HIDE DEF h
    <3>2. h \in Nat /\ Limit \in Nat /\ h + 2 <= Limit - 1
      BY <2>1, <3>1, Sizes
    <3>3. h + 2 \in 0..(Limit - 1) /\ h + 2 \in -(Limit - 1)..(Limit - 1)
      BY <3>2
    <3> QED BY <3>2, <3>3, ByteIs
  <2>3. /\ l - 1 \in 1..l /\ l \in 1..l /\ l - 1 # lastliteral /\ l # l - 1 /\ l # lastliteral
        /\ lastliteral \in Nat
    <3> HIDE DEF h, l
    <3> QED BY <1>4, <2>1, <2>2
  <2>4. w \in RawBytes
    BY <1>4, <2>3, ElementIs
  <2>5. /\ Packet(st, data, p, o, p2, o2) /\ Packet(st, data, p2, o2, p3, o3)
        /\ p2 \in Nat /\ o2 \in Nat
    <3>1. (n - 1) + 1 = n
      BY <1>3
    <3> QED BY <1>3, <1>4, <3>1, PacketsAre, SMTT(30)
  <2>6. /\ st[Len(stream) + lastliteral] = h /\ st[Len(stream) + (l - 1)] = -1
        /\ st[Len(stream) + l] = w
    <3>1. \A i \in 1..l : st[Len(stream) + i] = raw[i]
      BY <1>4, JoinedParts
    <3> HIDE DEF st, l
    <3> QED BY <1>8, <2>1, <2>3, <3>1 DEF l
  <2>7. /\ q \in Seq(RawBytes) /\ Len(q) = l /\ q[lastliteral] = h + 2
        /\ sq[Len(stream) + lastliteral] = h + 2
        /\ \A i \in 1..(Len(stream) + l) : i # Len(stream) + lastliteral => sq[i] = st[i]
    <3> DEFINE v == AsByte(h + 2)
    <3>1. v \in RawBytes /\ v = h + 2
      BY <2>2
    <3> HIDE DEF v
    <3>2. q = [raw EXCEPT ![lastliteral] = v] /\ lastliteral \in 1..Len(raw)
      BY <2>1 DEF v
    <3>3. raw \in Seq(RawBytes) /\ stream \in Seq(RawBytes)
      BY <1>4
    <3> HIDE DEF q
    <3>4. /\ q \in Seq(RawBytes) /\ Len(q) = Len(raw) /\ q[lastliteral] = v
          /\ sq[Len(stream) + lastliteral] = v
          /\ \A i \in 1..(Len(stream) + Len(raw)) :
               i # Len(stream) + lastliteral => sq[i] = st[i]
      BY <3>1, <3>2, <3>3, Changed
    <3> QED BY <3>1, <3>4
  <2> HIDE DEF q
  <2>8. /\ Len(r) = l /\ r[lastliteral] = h + 2
        /\ t[Len(stream) + (l - 1)] = w
        /\ \A i \in 1..(Len(stream) + l) : i # Len(stream) + (l - 1) => t[i] = sq[i]
        /\ r \in Seq(RawBytes)
    <3> DEFINE k == l - 1
    <3>1. k \in 1..Len(q) /\ lastliteral \in 1..Len(q) /\ lastliteral # k
      BY <2>1, <2>3, <2>7
    <3>2. r = [q EXCEPT ![k] = w]
      OBVIOUS
    <3>3. q \in Seq(RawBytes) /\ stream \in Seq(RawBytes) /\ w \in RawBytes
      BY <1>4, <2>4, <2>7
    <3> HIDE DEF k, r, w
    <3>4. /\ r \in Seq(RawBytes) /\ Len(r) = Len(q) /\ r[k] = w
          /\ \A i \in 1..Len(q) : i # k => r[i] = q[i]
          /\ t[Len(stream) + k] = w
          /\ \A i \in 1..(Len(stream) + Len(q)) : i # Len(stream) + k => t[i] = sq[i]
      BY <3>1, <3>2, <3>3, Changed
    <3> QED BY <2>7, <3>1, <3>4 DEF k
  <2>9. Len(t) = p3
    <3>1. stream \in Seq(RawBytes) /\ r \in Seq(RawBytes)
      BY <1>4, <2>8
    <3> HIDE DEF r, p3, l
    <3>2. Len(t) = Len(stream) + Len(r)
      BY <3>1, JoinedParts
    <3>3. Len(r) = l /\ p3 = Len(stream) + l
      BY <1>4, <2>8
    <3> QED BY <3>2, <3>3
  <2>10. t = stream' \o raw' /\ Len(stream') + Len(raw') = p3
    BY <1>1, <1>4, <1>8, <2>8
  <2>11. raw'[lastliteral] = h + 2
    BY <1>8, <2>8
  <2> HIDE DEF st, sq, t, h, p, o, p2, o2, p3, o3, w, r, l
  <2>12. st[p + 1] = h
    BY <1>4, <2>6
  <2>13. LiteralPacket(st, data, p, o, p2, o2)
    BY <1>4, <2>2, <2>5, <2>12, HeaderIs, SMTT(30)
  <2>14. p2 = p + h + 2 /\ o2 = o + h + 1
    BY <2>12, <2>13 DEF LiteralPacket
  <2>15. p2 + 1 = Len(stream) + (l - 1) /\ p2 + 2 = Len(stream) + l
    <3>1. p \in Nat /\ Len(stream) \in Nat /\ l \in Nat /\ p + 1 = Len(stream) + lastliteral
      BY <1>4
    <3>2. h \in Nat /\ lastliteral \in Nat /\ l = lastliteral + h + 3
      BY <2>1, <2>2, <2>3
    <3>3. p2 = p + h + 2
      BY <2>14
    <3> QED BY <3>1, <3>2, <3>3
  <2>16. st[p2 + 1] = -1 /\ st[p2 + 2] = w
    BY <2>6, <2>15
  <2>17. RunPacket(st, data, p2, o2, p3, o3)
    <3>1. st[p2 + 1] < 0
      BY <2>16
    <3> QED BY <2>5, <3>1, HeaderIs
  <2>18. p3 = p2 + 2 /\ o3 = o2 + 2 /\ \A x \in 1..2 : data[o2 + x] = w
    <3>1. /\ p3 = p2 + 2 /\ o3 = o2 + 1 - st[p2 + 1]
          /\ \A x \in 1..(1 - st[p2 + 1]) : data[o2 + x] = st[p2 + 2]
      BY <2>17 DEF RunPacket
    <3>2. 1 - st[p2 + 1] = 2 /\ o2 + 1 - st[p2 + 1] = o2 + 2
      BY <2>5, <2>16
    <3> QED BY <2>16, <3>1, <3>2
  <2>19. \A i \in 1..p3 : i # p + 1 /\ i # p2 + 1 => t[i] = st[i]
    <3>1. p3 = Len(stream) + l
      BY <1>4
    <3> QED BY <1>4, <2>7, <2>8, <2>15, <3>1
  <2> DEFINE Aside(i) == i \in 1..p3 /\ i # p + 1 /\ i # p2 + 1
  <2>p. p \in Nat /\ p2 \in Nat /\ p3 \in Nat /\ h \in Nat /\ p2 = p + h + 2 /\ p3 = p2 + 2
    <3>1. p \in Nat /\ p2 \in Nat /\ h \in Nat
      BY <1>4, <2>2, <2>5
    <3>2. p2 = p + h + 2 /\ p3 = p2 + 2
      BY <2>14, <2>18
    <3> QED BY <3>1, <3>2
  <2>q. /\ p + 1 \in 1..p3 /\ p2 + 2 \in 1..p3
        /\ p2 + 1 # p + 1 /\ p2 + 2 # p + 1 /\ p2 + 2 # p2 + 1
    BY <2>p
  <2>r. /\ \A i \in (p + 2)..p2 : Aside(i)
        /\ \A i \in 1..p : Aside(i)
    BY <2>p
  <2>20. t[p + 1] = h + 2 /\ t[p2 + 1] = w /\ t[p2 + 2] = w
    <3>1. p + 1 \in 1..p3 /\ p2 + 2 \in 1..p3 /\ p2 + 1 # p + 1 /\ p2 + 2 # p + 1 /\ p2 + 2 # p2 + 1
      BY <2>q
    <3>2. t[p2 + 1] = w
      BY <2>8, <2>15
    <3>3. t[p2 + 2] = w
      BY <2>16, <2>19, <3>1
    <3>4. t[p + 1] = sq[p + 1]
      BY <1>4, <2>8, <2>15, <3>1
    <3> QED BY <1>4, <2>7, <3>2, <3>3, <3>4
  <2>21. Longer(st, t, data, p, p2, o2, h, 2)
    <3>1. \A i \in (p + 2)..p2 : i \in 1..p3 /\ i # p + 1 /\ i # p2 + 1
      BY <2>r
    <3>2. \A i \in (p + 2)..p2 : t[i] = st[i]
      BY <2>19, <3>1
    <3>3. \A i \in 1..2 : t[p2 + i] = data[o2 + i]
      <4>1. \A i \in 1..2 : i = 1 \/ i = 2
        OBVIOUS
      <4> QED BY <2>18, <2>20, <4>1
    <3>4. Len(t) \in Nat /\ p2 + 2 <= Len(t)
      BY <1>4, <2>5, <2>9, <2>18
    <3> QED BY <2>2, <2>12, <2>20, <3>2, <3>3, <3>4 DEF Longer
  <2>22. Agree(t, st, p)
    <3>1. \A i \in 1..p : i \in 1..p3 /\ i # p + 1 /\ i # p2 + 1
      BY <2>r
    <3>2. p <= Len(t) /\ Len(t) \in Nat
      BY <1>4, <2>2, <2>9, <2>14, <2>18
    <3> QED BY <2>19, <3>1, <3>2 DEF Agree
  <2>23. Packet(t, data, p, o, p3, o3)
    <3>1. o3 <= given /\ o3 <= Len(data) /\ o <= o
      BY <1>4
    <3>2. InRow(data, o, o3)
      BY <1>4, <3>1, InRowPart
    <3>3. 2 \in Nat /\ o2 + 2 <= Len(data) /\ InRow(data, o, o2 + 2) /\ p \in Nat /\ o \in Nat
      BY <1>4, <2>18, <3>1, <3>2
    <3>4. Packet(t, data, p, o, p2 + 2, o2 + 2)
      BY <2>5, <2>21, <3>3, LongerLiteral
    <3> QED BY <2>18, <3>4
  <2>24. PICK pos2, off2 : Extended(t, data, n - 2, pos, off, p3, o3, pos2, off2)
    <3> DEFINE m == n - 2
    <3>1. m \in 0..n /\ m + 1 = n - 1
      BY <1>3
    <3> HIDE DEF m
    <3>2. Packet(t, data, pos[m + 1], off[m + 1], p3, o3) /\ Agree(t, st, pos[m + 1])
      BY <2>22, <2>23, <3>1 DEF p, o
    <3>3. Packets(st, data, n, pos, off)
      BY <1>4
    <3>4. \E pos2, off2 : Extended(t, data, m, pos, off, p3, o3, pos2, off2)
      BY <3>1, <3>2, <3>3, PacketPut
    <3> QED BY <3>4 DEF m
  <2> DEFINE k == n - 1
  <2>25. /\ Packets(t, data, k, pos2, off2) /\ pos2[k + 1] = p3 /\ off2[k + 1] = o3
         /\ pos2[k] = p /\ off2[k] = o /\ k \in Nat /\ k >= 1
    <3>1. (n - 2) + 1 = k /\ (n - 2) + 2 = k + 1 /\ k \in 1..k /\ k = n - 1 /\ k \in Nat /\ k >= 1
      BY <1>3
    <3> HIDE DEF k
    <3> QED BY <2>24, <3>1 DEF Extended, p, o
  <2> HIDE DEF k
  <2>26. /\ FromEnd' <= k /\ InRow(data, off2[k + 1 - FromEnd'], given')
         /\ Growing' => pos2[k + 1 - FromEnd'] + 1 = Len(stream') + lastliteral'
    <3>1. CASE state' = "LITERAL"
      <4>1. FromEnd' = 1 /\ k + 1 - FromEnd' = k /\ FromEnd' <= k
        BY <2>25, <3>1 DEF FromEnd
      <4> QED BY <1>1, <1>4, <2>25, <4>1
    <3>2. CASE state' = "BASE"
      <4>1. FromEnd' = 0 /\ k + 1 - FromEnd' = k + 1 /\ FromEnd' <= k /\ ~Growing'
        BY <2>25, <3>2 DEF FromEnd, Growing
      <4> QED BY <1>1, <1>5, <2>25, <4>1
    <3> QED BY <1>8, <3>1, <3>2
  <2>27. /\ off2[k + 1] + run'.n = given'
         /\ \A i \in 1..run'.n : data[off2[k + 1] + i] = run'.b
         /\ pos2[k + 1] = Len(stream') + Len(raw')
    BY <1>1, <1>4, <2>10, <2>25
  <2>28. Packing(k, pos2, off2)'
    BY <1>1, <1>4, <2>10, <2>25, <2>26, <2>27, PacksOn
  <2> QED BY <2>28
<1>9. CASE run.n = 1 /\ raw[l - 1] = -1 /\ RoomForRun(h)
  <2>1. /\ raw' = r
        /\ state' = (IF LiteralFull(raw'[lastliteral]) THEN "BASE" ELSE "LITERAL")
    BY <1>9 DEF MergeLiterals
  <2> QED BY <1>8, <1>9, <2>1
<1>10. CASE ~(run.n = 1 /\ raw[l - 1] = -1 /\ RoomForRun(h))
  <2>1. state' = "RUN" /\ UNCHANGED raw
    BY <1>10 DEF MergeLiterals
  <2> QED BY <1>7, <2>1
<1> QED BY <1>9, <1>10

\* m packets have been decoded.
Unpacking(m, n, pos, off) ==
  /\ Packets(stream, data, n, pos, off) /\ pos[n + 1] = Len(stream) /\ off[n + 1] = Len(data)
  /\ m \in 0..n /\ bp = pos[m + 1]
  /\ IsEnd(data, taken) /\ ~failed
  /\ pc = "idle" => off[m + 1] = taken /\ Given
  /\ pc = "call" => /\ off[m + 1] = taken + Len(buf) /\ BytesAt(buf, taken)
                     /\ IsEnd(data, taken + asked)

PackTrip(n, pos, off) ==
  /\ pc \in PackingPcs => Packing(n, pos, off)
  /\ pc \notin PackingPcs => \E m : Unpacking(m, n, pos, off)

PackTrips == ~foreign => \E n, pos, off : PackTrip(n, pos, off)

\* The strip is complete.
LEMMA PostEncodeUnpacks ==
  ASSUME PackBitsSafe, PackBitsPostEncode, NEW n, NEW pos, NEW off, Packing(n, pos, off)
  PROVE  Unpacking(0, n, pos, off)'
<1>1. /\ pc = "row" /\ given = Len(data) /\ stream' = stream \o raw /\ pc' = "idle"
      /\ data' = data /\ bp' = bp /\ UNCHANGED clientVars
  BY DEF PackBitsPostEncode, stripVars
<1>2. /\ taken' = taken /\ ret' = ret /\ failed' = failed /\ buf' = buf /\ asked' = asked
  BY <1>1 DEF clientVars
<1>3. run.n = 0
  BY <1>1 DEF Packing
<1>4. /\ n \in Nat /\ Packets(stream', data, n, pos, off)
      /\ pos[n + 1] = Len(stream') /\ off[n + 1] = Len(data)
      /\ taken = 0 /\ bp = 0 /\ ret = 1 /\ ~failed
  <2>1. off[n + 1] = Len(data)
    BY <1>1, <1>3, PackingIs
  <2> QED BY <1>1, <2>1, PackingIs
<1>5. pos[0 + 1] = 0 /\ off[0 + 1] = 0 /\ 0 \in 0..n
  BY <1>4, PacketsAre
<1>6. IsEnd(data, 0)
  BY ZeroEnds DEF IsEnd
<1>7. Given'
  <2>1. ~(taken' > 0)
    BY <1>2, <1>4
  <2> QED BY <1>2, <1>4, <2>1 DEF Given
<1> QED BY <1>1, <1>2, <1>4, <1>5, <1>6, <1>7 DEF Unpacking

-----------------------------------------------------------------------------
(***************************************************************************)
(* The decoder, which has read m packets.                                  *)
(***************************************************************************)
\* The facts that each of its steps needs.
LEMMA UnpackingIs ==
  ASSUME PackBitsSafe, ~foreign, NEW m, NEW n, NEW pos, NEW off, Unpacking(m, n, pos, off)
  PROVE  /\ n \in Nat /\ m \in 0..n /\ m \in Nat
         /\ pos[m + 1] \in Nat /\ off[m + 1] \in Nat /\ bp = pos[m + 1]
         /\ data \in Seq(Values) /\ Len(data) \in Nat /\ Len(stream) \in Nat
         /\ stream \in Seq(RawBytes)
         /\ taken \in Nat /\ asked \in Nat /\ Len(buf) \in Nat /\ Len(buf) <= asked /\ IsSeq(buf)
         /\ StripSize = Len(data) /\ taken <= Len(data)
         /\ pc # "idle" => taken + asked <= Len(data)
<1>1. m \in 0..n /\ bp = pos[m + 1] /\ Packets(stream, data, n, pos, off)
  BY DEF Unpacking
<1>2. n \in Nat
  BY <1>1, PacketsAre
<1>3. m \in Nat /\ m + 1 \in 1..(n + 1)
  BY <1>1, <1>2
<1>4. pos[m + 1] \in Nat /\ off[m + 1] \in Nat
  BY <1>1, <1>3, PacketsAre
<1>5. StripOK /\ ClientOK /\ data \in Seq(Values) /\ stream \in Seq(RawBytes)
  BY RawIs DEF PackBitsSafe
<1>6. StripSize = Len(data)
  BY DEF StripSize
<1>7. /\ taken \in Nat /\ asked \in Nat /\ Len(buf) \in Nat /\ Len(buf) <= asked /\ IsSeq(buf)
      /\ taken <= Len(data) /\ (pc # "idle" => taken + asked <= Len(data))
  BY <1>5, <1>6, ClientIs DEF ClientOK
<1>8. Len(data) \in Nat /\ Len(stream) \in Nat
  BY RawIs
<1> QED BY <1>1, <1>2, <1>3, <1>4, <1>5, <1>6, <1>7, <1>8

\* The packet that is read next is whole, and all of it is wanted.
LEMMA NextPacket ==
  ASSUME PackBitsSafe, ~foreign, More, NEW m, NEW n, NEW pos, NEW off, Unpacking(m, n, pos, off)
  PROVE  /\ m + 1 \in 0..n
         /\ Packet(stream, data, bp, off[m + 1], pos[m + 2], off[m + 2])
         /\ pos[m + 2] \in Nat /\ off[m + 2] \in Nat
         /\ pos[m + 2] <= Len(stream) /\ off[m + 2] - off[m + 1] <= occ
         /\ off[m + 1] = taken + Len(buf) /\ occ = asked - Len(buf) /\ pc = "call"
<1>1. pc = "call" /\ cc > 0 /\ occ > 0
  BY DEF More
<1>2. /\ n \in Nat /\ m \in 0..n /\ m \in Nat /\ pos[m + 1] \in Nat /\ off[m + 1] \in Nat
      /\ bp = pos[m + 1] /\ Len(stream) \in Nat /\ Len(data) \in Nat /\ taken \in Nat
      /\ asked \in Nat /\ Len(buf) \in Nat /\ taken + asked <= Len(data)
  BY <1>1, UnpackingIs
<1>3. /\ Packets(stream, data, n, pos, off) /\ pos[n + 1] = Len(stream)
      /\ off[m + 1] = taken + Len(buf) /\ IsEnd(data, taken + asked)
  BY <1>1 DEF Unpacking
<1>4. m # n
  <2>1. bp # Len(stream)
    BY <1>1, <1>2 DEF cc
  <2> QED BY <1>2, <1>3, <2>1
<1>5. m + 1 \in 0..n /\ m + 1 \in 1..n /\ (m + 1) + 1 = m + 2
  BY <1>2, <1>4
<1>6. Packet(stream, data, bp, off[m + 1], pos[m + 2], off[m + 2])
  BY <1>2, <1>3, <1>5, PacketsAre
<1>7. /\ pos[m + 2] \in Nat /\ off[m + 2] \in Nat /\ pos[m + 2] <= Len(stream)
      /\ InRow(data, off[m + 1], off[m + 2])
  BY <1>2, <1>6, HeaderIs
<1> DEFINE e == taken + asked
<1>8. occ = asked - Len(buf) /\ e \in 0..Len(data) /\ off[m + 1] < e
  <2>1. occ = asked - Len(buf)
    BY DEF occ
  <2>2. occ > 0 /\ off[m + 1] = taken + Len(buf)
    BY <1>1, <1>3
  <2> QED BY <1>2, <2>1, <2>2
<1>9. IsEnd(data, e)
  BY <1>3
<1> HIDE DEF e
<1>10. off[m + 2] <= e
  BY <1>7, <1>8, <1>9 DEF InRow
<1>11. off[m + 2] - off[m + 1] <= occ
  BY <1>2, <1>3, <1>7, <1>8, <1>10 DEF e
<1> QED BY <1>1, <1>3, <1>5, <1>6, <1>7, <1>8, <1>11

\* What such a step must show.
LEMMA UnpacksOn ==
  ASSUME PackBitsSafe, ~foreign, More, NEW m, NEW n, NEW pos, NEW off, Unpacking(m, n, pos, off),
         NEW bytes, NEW k \in Nat, Decoded(bytes, k), pos[m + 2] = bp + k,
         BytesAt(bytes, off[m + 1]), off[m + 2] = off[m + 1] + Len(bytes)
  PROVE  Unpacking(m + 1, n, pos, off)'
<1>1. /\ pc = "call" /\ m + 1 \in 0..n /\ off[m + 1] = taken + Len(buf)
  BY NextPacket
<1>2. /\ buf' = buf \o bytes /\ bp' = bp + k /\ data' = data
      /\ UNCHANGED <<stream, pc, asked, taken, failed>>
  BY DEF Decoded, stripVars
<1>3. /\ Packets(stream, data, n, pos, off) /\ pos[n + 1] = Len(stream) /\ off[n + 1] = Len(data)
      /\ IsEnd(data, taken) /\ ~failed /\ BytesAt(buf, taken) /\ IsEnd(data, taken + asked)
  BY <1>1 DEF Unpacking
<1>4. taken \in Nat /\ off[m + 1] \in Nat /\ m \in Nat /\ Len(buf) \in Nat
  BY UnpackingIs
<1>5. /\ BytesAt(buf \o bytes, taken) /\ Len(buf \o bytes) = Len(buf) + Len(bytes)
      /\ Len(bytes) \in Nat
  BY <1>1, <1>3, <1>4, BufferGrows
<1>6. BytesAt(buf, taken)'
  BY <1>2, <1>5 DEF BytesAt
<1>7. off[m + 2] = taken + Len(buf')
  BY <1>1, <1>2, <1>4, <1>5
<1>8. (m + 1) + 1 = m + 2
  BY <1>4
<1> QED BY <1>1, <1>2, <1>3, <1>6, <1>7, <1>8 DEF Unpacking

\* No header of this encoder is a NOP.
LEMMA SkipUnpacks ==
  ASSUME PackBitsSafe, Skip, ~foreign, NEW m, NEW n, NEW pos, NEW off, Unpacking(m, n, pos, off)
  PROVE  FALSE
<1>1. More /\ stream[bp + 1] = NOP
  BY DEF Skip, Header
<1>2. Packet(stream, data, bp, off[m + 1], pos[m + 2], off[m + 2])
  BY <1>1, NextPacket
<1>3. Limit \in Nat
  BY Sizes
<1>4. stream[bp + 1] \in 0..(Limit - 1) \/ stream[bp + 1] \in LongRun..-1
  BY <1>2 DEF Packet, LiteralPacket, RunPacket
<1> DEFINE h == stream[bp + 1]
<1>5. h = -Limit /\ (h \in 0..(Limit - 1) \/ h \in (-(Limit - 1))..-1)
  BY <1>1, <1>4 DEF NOP, LongRun
<1> HIDE DEF h
<1>6. Limit > 2
  BY Sizes
<1> QED BY <1>3, <1>5, <1>6

LEMMA RepeatUnpacks ==
  ASSUME PackBitsSafe, Repeat, ~foreign, NEW m, NEW n, NEW pos, NEW off, Unpacking(m, n, pos, off)
  PROVE  Unpacking(m + 1, n, pos, off)'
<1> DEFINE h == stream[bp + 1]
           o == off[m + 1]
           k == Cut(1 - h)
<1>1. More /\ h \in LongRun..-1
  BY DEF Repeat, Header
<1>2. PICK b \in ByteAt(bp + 2) : Decoded([i \in 1..k |-> b], 2)
  BY DEF Repeat, Header
<1>3. /\ Packet(stream, data, bp, o, pos[m + 2], off[m + 2]) /\ pos[m + 2] \in Nat
      /\ pos[m + 2] <= Len(stream) /\ off[m + 2] - o <= occ /\ off[m + 2] \in Nat
      /\ occ = asked - Len(buf)
  BY <1>1, NextPacket
<1>4. bp \in Nat /\ o \in Nat /\ Len(stream) \in Nat /\ asked \in Nat /\ Len(buf) \in Nat
  BY UnpackingIs
<1>5. h \in Int /\ h < 0
  <2>1. Limit \in Nat
    BY Sizes
  <2> HIDE DEF h
  <2> QED BY <1>1, <2>1 DEF LongRun
<1>6. RunPacket(stream, data, bp, o, pos[m + 2], off[m + 2])
  BY <1>3, <1>4, <1>5, HeaderIs
<1>7. /\ pos[m + 2] = bp + 2 /\ off[m + 2] = o + 1 - h
      /\ \A x \in 1..(1 - h) : data[o + x] = stream[bp + 2]
  BY <1>6 DEF RunPacket
<1>8. b = stream[bp + 2]
  <2>1. bp + 2 <= Len(stream)
    BY <1>3, <1>7
  <2> QED BY <1>2, <2>1 DEF ByteAt
<1>9. k = 1 - h
  <2>1. 1 - h <= occ /\ occ \in Int /\ 1 - h \in Int
    <3> HIDE DEF h, o
    <3> QED BY <1>3, <1>4, <1>5, <1>7
  <2> QED BY <2>1 DEF Cut
<1> HIDE DEF k
<1> DEFINE bytes == [i \in 1..k |-> b]
<1>10. k \in Nat /\ off[m + 2] = o + k
  <2> HIDE DEF h, o
  <2> QED BY <1>4, <1>5, <1>7, <1>9
<1>11. IsSeq(bytes) /\ Len(bytes) = k
  BY <1>10, FunctionIsSeq
<1>12. BytesAt(bytes, o)
  <2>1. \A x \in 1..k : bytes[x] = data[o + x]
    BY <1>7, <1>8, <1>9
  <2> HIDE DEF bytes
  <2> QED BY <1>11, <2>1 DEF BytesAt
<1>13. Decoded(bytes, 2) /\ 2 \in Nat
  BY <1>2
<1> HIDE DEF bytes
<1> QED BY <1>1, <1>7, <1>10, <1>11, <1>12, <1>13, UnpacksOn

\* A literal is not cut: it is whole, and all of it is wanted.
LEMMA WholeLiteral ==
  ASSUME PackBitsSafe, ~foreign, More, NEW m, NEW n, NEW pos, NEW off, Unpacking(m, n, pos, off),
         NEW h, h = Header, h >= 0
  PROVE  /\ h \in Nat /\ Cut(h + 1) = h + 1
         /\ pos[m + 2] = bp + h + 2 /\ off[m + 2] = off[m + 1] + h + 1
         /\ \A x \in 1..(h + 1) : stream[bp + 1 + x] = data[off[m + 1] + x]
<1> DEFINE o == off[m + 1]
<1>1. h = stream[bp + 1]
  BY DEF Header
<1>2. /\ Packet(stream, data, bp, o, pos[m + 2], off[m + 2])
      /\ off[m + 2] - o <= occ /\ occ = asked - Len(buf)
  BY NextPacket
<1>3. bp \in Nat /\ o \in Nat /\ asked \in Nat /\ Len(buf) \in Nat
  BY UnpackingIs
<1>4. LiteralPacket(stream, data, bp, o, pos[m + 2], off[m + 2])
  BY <1>1, <1>2, <1>3, HeaderIs
<1>5. /\ h \in 0..(Limit - 1) /\ pos[m + 2] = bp + h + 2 /\ off[m + 2] = o + h + 1
      /\ \A x \in 1..(h + 1) : stream[bp + 1 + x] = data[o + x]
  BY <1>1, <1>4 DEF LiteralPacket
<1> HIDE DEF o
<1>6. h \in Nat
  BY <1>5, Sizes
<1>7. h + 1 <= occ /\ occ \in Int
  BY <1>2, <1>3, <1>5, <1>6
<1>8. Cut(h + 1) = h + 1
  BY <1>6, <1>7 DEF Cut
<1> QED BY <1>5, <1>6, <1>8 DEF o

LEMMA CopyUnpacks ==
  ASSUME PackBitsSafe, Copy, ~foreign, NEW m, NEW n, NEW pos, NEW off, Unpacking(m, n, pos, off)
  PROVE  Unpacking(m + 1, n, pos, off)'
<1> DEFINE h == Header
           o == off[m + 1]
           k == Cut(h + 1)
           bytes == SubSeq(stream, bp + 2, bp + 1 + k)
<1>1. More /\ h >= 0 /\ Decoded(bytes, 1 + k)
  BY DEF Copy
<1>2. pos[m + 2] \in Nat /\ pos[m + 2] <= Len(stream) /\ off[m + 2] \in Nat
  BY <1>1, NextPacket
<1>3. bp \in Nat /\ o \in Nat /\ Len(stream) \in Nat /\ stream \in Seq(RawBytes)
  BY UnpackingIs
<1>4. /\ h \in Nat /\ k = h + 1 /\ pos[m + 2] = bp + h + 2 /\ off[m + 2] = o + h + 1
      /\ \A x \in 1..(h + 1) : stream[bp + 1 + x] = data[o + x]
  BY <1>1, WholeLiteral
<1> HIDE DEF k
<1>8. /\ k \in Nat /\ off[m + 2] = o + k /\ pos[m + 2] = bp + (1 + k)
      /\ \A x \in 1..k : stream[bp + 1 + x] = data[o + x]
  <2>1. \A x \in 1..k : stream[bp + 1 + x] = data[o + x]
    BY <1>4
  <2> HIDE DEF h, o
  <2> QED BY <1>3, <1>4, <2>1
<1>9. IsSeq(bytes) /\ Len(bytes) = k /\ \A x \in 1..k : bytes[x] = stream[bp + 1 + x]
  <2>1. /\ bp + 2 \in 1..(Len(stream) + 1) /\ bp + 1 + k \in 0..Len(stream)
        /\ bp + 1 + k - (bp + 2) + 1 = k
    <3> HIDE DEF h, o
    <3> QED BY <1>2, <1>3, <1>8
  <2>2. bytes \in Seq(RawBytes) /\ Len(bytes) = k
    BY <1>3, <1>8, <2>1, MiddlePart
  <2>3. \A x \in 1..k : bytes[x] = stream[bp + 1 + x]
    <3>1. \A x \in 1..k : (bp + 2) + x - 1 = bp + 1 + x
      BY <1>3
    <3>2. \A x \in 1..k : bytes[x] = stream[(bp + 2) + x - 1]
      BY <1>3, <1>8, <2>1
    <3> QED BY <3>1, <3>2
  <2> QED BY <2>2, <2>3, SeqIs
<1> HIDE DEF bytes
<1>10. BytesAt(bytes, o)
  BY <1>8, <1>9 DEF BytesAt
<1>11. 1 + k \in Nat
  BY <1>8
<1> QED BY <1>1, <1>8, <1>9, <1>10, <1>11, UnpacksOn

\* A call asks for whole rows, or for the whole strip.
LEMMA PackBitsAskUnpacks ==
  ASSUME PackBitsSafe, PackBitsAsk, ~foreign, NEW m, NEW n, NEW pos, NEW off,
         Unpacking(m, n, pos, off)
  PROVE  Unpacking(m, n, pos, off)'
<1>1. /\ pc = "idle" /\ pc' = "call" /\ buf' = <<>> /\ taken + asked' <= StripSize
      /\ asked' \in {k \in 1..StripSize : k % RowSize = 0 \/ k = StripSize}
      /\ data' = data /\ bp' = bp /\ UNCHANGED <<stream, taken, failed>>
  BY DEF PackBitsAsk, Ask, stripVars, packbitsVars
<1>2. taken \in Nat /\ off[m + 1] \in Nat /\ StripSize = Len(data) /\ Len(data) \in Nat
  BY UnpackingIs
<1>3. /\ Packets(stream, data, n, pos, off) /\ pos[n + 1] = Len(stream) /\ off[n + 1] = Len(data)
      /\ m \in 0..n /\ bp = pos[m + 1] /\ IsEnd(data, taken) /\ ~failed /\ off[m + 1] = taken
  BY <1>1 DEF Unpacking
<1> DEFINE a == asked'
<1>4. a \in Nat /\ a >= 1 /\ a <= Len(data) /\ taken + a <= Len(data)
      /\ (a % RowSize = 0 \/ a = Len(data))
  BY <1>1, <1>2
<1>5. IsEnd(data, taken + a)
  <2>1. CASE a = Len(data)
    <3> HIDE DEF a
    <3>1. taken + a = Len(data)
      BY <1>2, <1>4, <2>1
    <3> QED BY <3>1 DEF IsEnd
  <2>2. CASE a % RowSize = 0
    <3> HIDE DEF a
    <3>1. taken # Len(data)
      BY <1>2, <1>4
    <3>2. taken % RowSize = 0
      BY <1>3, <3>1 DEF IsEnd
    <3>3. (taken + a) % RowSize = 0
      BY <1>2, <1>4, <2>2, <3>2, EndsAdd
    <3> QED BY <3>3 DEF IsEnd
  <2> QED BY <1>4, <2>1, <2>2
<1>6. BytesAt(buf, taken)' /\ off[m + 1] = taken' + Len(buf')
  <2>1. IsSeq(<<>>) /\ Len(<<>>) = 0
    BY EmptyIsSeq
  <2>2. BytesAt(<<>>, taken)
    BY <2>1 DEF BytesAt
  <2> QED BY <1>1, <1>2, <1>3, <2>1, <2>2 DEF BytesAt
<1> QED BY <1>1, <1>3, <1>5, <1>6 DEF Unpacking

\* A call returns when it has filled the buffer.
LEMMA PackBitsReturnUnpacks ==
  ASSUME PackBitsSafe, PackBitsReturn, ~foreign, NEW m, NEW n, NEW pos, NEW off,
         Unpacking(m, n, pos, off)
  PROVE  Unpacking(m, n, pos, off)'
<1> DEFINE cutOff == More /\ Header >= 0 /\ Cut(Header + 1) >= cc
<1>1. /\ pc = "call" /\ (~More \/ cutOff) /\ Return(buf)
      /\ bp' = (IF cutOff THEN bp + 1 ELSE bp)
      /\ data' = data /\ UNCHANGED <<stream, asked>>
  BY DEF PackBitsReturn, stripVars
<1>2. /\ n \in Nat /\ m \in Nat /\ bp = pos[m + 1] /\ pos[m + 1] \in Nat /\ off[m + 1] \in Nat
      /\ Len(stream) \in Nat /\ data \in Seq(Values) /\ Len(data) \in Nat
      /\ taken \in Nat /\ asked \in Nat /\ Len(buf) \in Nat /\ Len(buf) <= asked /\ IsSeq(buf)
      /\ taken + asked <= Len(data)
  BY <1>1, UnpackingIs
<1>3. /\ Packets(stream, data, n, pos, off) /\ pos[n + 1] = Len(stream) /\ off[n + 1] = Len(data)
      /\ m \in 0..n /\ ~failed /\ off[m + 1] = taken + Len(buf)
      /\ BytesAt(buf, taken) /\ IsEnd(data, taken + asked)
  BY <1>1 DEF Unpacking
<1>4. ~cutOff
  <2> SUFFICES ASSUME cutOff PROVE FALSE
    OBVIOUS
  <2> DEFINE h == Header
  <2>1. h \in Nat /\ Cut(h + 1) = h + 1 /\ pos[m + 2] = bp + h + 2
    BY WholeLiteral
  <2>2. pos[m + 2] <= Len(stream)
    BY NextPacket
  <2>3. Cut(h + 1) >= Len(stream) - bp
    BY DEF cc
  <2> HIDE DEF h
  <2> QED BY <1>2, <2>1, <2>2, <2>3, SMTT(30)
<1>5. ~More
  BY <1>1, <1>4
<1>6. Len(buf) = asked
  <2>1. CASE cc > 0
    <3>1. ~(occ > 0)
      BY <1>1, <1>5, <2>1 DEF More
    <3> QED BY <1>2, <3>1 DEF occ
  <2>2. CASE ~(cc > 0)
    <3>1. m = n
      <4> SUFFICES ASSUME m # n PROVE FALSE
        OBVIOUS
      <4>1. m + 1 \in 1..n /\ m + 2 \in 1..(n + 1) /\ (m + 1) + 1 = m + 2
        BY <1>2, <1>3
      <4>2. Packet(stream, data, bp, off[m + 1], pos[m + 2], off[m + 2])
        BY <1>2, <1>3, <4>1, PacketsAre
      <4>3. bp + 2 <= pos[m + 2] /\ pos[m + 2] <= Len(stream) /\ pos[m + 2] \in Nat
        BY <1>2, <4>2, HeaderIs
      <4>4. bp >= Len(stream)
        BY <1>2, <2>2 DEF cc
      <4> QED BY <1>2, <4>3, <4>4, SMTT(30)
    <3>2. taken + Len(buf) = Len(data)
      BY <1>3, <3>1
    <3> QED BY <1>2, <3>2
  <2> QED BY <2>1, <2>2
<1>7. \A x \in 1..asked : buf[x] = data[taken + x]
  BY <1>3, <1>6 DEF BytesAt
<1>8. Given' /\ ~failed' /\ taken' = taken + asked /\ buf' = buf /\ pc' = "idle"
  BY <1>1, <1>2, <1>3, <1>6, <1>7, CallReturns
<1>9. bp' = bp /\ IsEnd(data', taken') /\ off[m + 1] = taken'
  BY <1>1, <1>3, <1>4, <1>6, <1>8
<1> QED BY <1>1, <1>2, <1>3, <1>8, <1>9 DEF Unpacking

-----------------------------------------------------------------------------
(***************************************************************************)
(* PackBits.                                                               *)
(***************************************************************************)
LEMMA PackStarts ==
  ASSUME PackBitsInit(Strips(PackBitsLengths), PackBitsStreams)
  PROVE  PackTrips
<1> SUFFICES ASSUME ~foreign PROVE \E n, pos, off : PackTrip(n, pos, off)
  BY DEF PackTrips
<1>1. /\ pc = "row" /\ given = 0 /\ buf = <<>> /\ taken = 0 /\ ret = 1 /\ ~failed
      /\ stream = <<>> /\ raw = <<>> /\ state = "BASE" /\ run = NoRun /\ bp = 0
      /\ data \in Strips(PackBitsLengths)
  BY DEF PackBitsInit, CodecInit, PackBitsIdle
<1> DEFINE zero == [i \in 1..1 |-> 0]
<1>2. zero \in [1..1 -> Nat] /\ zero[1] = 0
  OBVIOUS
<1> HIDE DEF zero
<1>3. stream \o raw = <<>> /\ Len(stream) = 0 /\ Len(raw) = 0
  BY <1>1
<1>4. Packets(stream \o raw, data, 0, zero, zero)
  BY <1>2 DEF Packets
<1>5. FromEnd = 0 /\ ~Growing /\ run.n = 0
  BY <1>1 DEF FromEnd, Growing, NoRun
<1>6. InRow(data, 0, 0)
  BY DEF InRow
<1>7. LastOK(0, zero, zero)
  BY <1>1, <1>2, <1>5, <1>6 DEF LastOK
<1>8. Packing(0, zero, zero)
  BY <1>1, <1>2, <1>3, <1>4, <1>5, <1>7 DEF Packing
<1>9. PackTrip(0, zero, zero)
  BY <1>1, <1>8 DEF PackTrip, PackingPcs
<1> QED BY <1>9

LEMMA PackBitsEncodeTrips ==
  ASSUME PackBitsSafe, PackBitsEncode, NEW n, NEW pos, NEW off, PackTrip(n, pos, off)
  PROVE  \E n2, pos2, off2 : PackTrip(n2, pos2, off2)'
<1>1. pc \in PackingPcs /\ (pc' \in PackingPcs \/ PackBitsPostEncode)
  BY DEF PackBitsEncode, StartRow, FindRun, Flush, PutRun, StartLiteral, ExtendLiteral,
         MergeLiterals, PackBitsPostEncode, AfterRun, PackingPcs
<1>2. Packing(n, pos, off)
  BY <1>1 DEF PackTrip
<1>3. CASE PackBitsPostEncode
  <2>1. Unpacking(0, n, pos, off)' /\ pc' = "idle"
    BY <1>2, <1>3, PostEncodeUnpacks DEF PackBitsPostEncode
  <2>2. PackTrip(n, pos, off)'
    BY <2>1 DEF PackTrip, PackingPcs
  <2> QED BY <2>2
<1>4. ASSUME pc' \in PackingPcs, NEW n2, NEW pos2, NEW off2, Packing(n2, pos2, off2)'
      PROVE  \E n3, pos3, off3 : PackTrip(n3, pos3, off3)'
  <2>1. PackTrip(n2, pos2, off2)'
    BY <1>4 DEF PackTrip
  <2> QED BY <2>1
<1>5. CASE StartRow \/ FindRun
  BY <1>1, <1>2, <1>4, <1>5, StartRowPacks, FindRunPacks DEF StartRow, FindRun, PackingPcs
<1>6. CASE ~(StartRow \/ FindRun \/ PackBitsPostEncode)
  <2>1. \E n2, pos2, off2 : Packing(n2, pos2, off2)'
    BY <1>2, <1>6, FlushPacks, PutRunPacks, StartLiteralPacks, ExtendLiteralPacks,
       MergeLiteralsPacks DEF PackBitsEncode
  <2> QED BY <1>1, <1>4, <1>6, <2>1
<1> QED BY <1>3, <1>5, <1>6

LEMMA PackBitsDecodeTrips ==
  ASSUME PackBitsSafe, PackBitsAsk \/ PackBitsDecode, ~foreign,
         NEW n, NEW pos, NEW off, PackTrip(n, pos, off)
  PROVE  PackTrip(n, pos, off)'
<1>1. pc \notin PackingPcs /\ pc' \notin PackingPcs
  BY DEF PackBitsAsk, Ask, PackBitsDecode, Skip, Repeat, Copy, More, Decoded, PackBitsReturn,
         Return, Finish, PackingPcs
<1>2. PICK m : Unpacking(m, n, pos, off)
  BY <1>1 DEF PackTrip
<1>3. \E m2 : Unpacking(m2, n, pos, off)'
  <2>1. CASE PackBitsAsk
    BY <1>2, <2>1, PackBitsAskUnpacks
  <2>2. CASE Skip
    BY <1>2, <2>2, SkipUnpacks
  <2>3. CASE Repeat
    BY <1>2, <2>3, RepeatUnpacks
  <2>4. CASE Copy
    BY <1>2, <2>4, CopyUnpacks
  <2>5. CASE PackBitsReturn
    BY <1>2, <2>5, PackBitsReturnUnpacks
  <2> QED BY <2>1, <2>2, <2>3, <2>4, <2>5 DEF PackBitsDecode
<1> QED BY <1>1, <1>3 DEF PackTrip

LEMMA PackBitsNextTrips == PackBitsSafe /\ PackTrips /\ PackBitsNext => PackTrips'
<1> SUFFICES ASSUME PackBitsSafe, PackTrips, PackBitsNext, ~foreign'
             PROVE  (\E n, pos, off : PackTrip(n, pos, off))'
  BY DEF PackTrips
<1>1. ~foreign
  BY PackBitsKeepsStrip DEF NotFax, stripVars
<1>2. PICK n, pos, off : PackTrip(n, pos, off)
  BY <1>1 DEF PackTrips
<1>3. CASE PackBitsEncode
  BY <1>2, <1>3, PackBitsEncodeTrips
<1>4. CASE PackBitsAsk \/ PackBitsDecode
  BY <1>1, <1>2, <1>4, PackBitsDecodeTrips
<1> QED BY <1>3, <1>4 DEF PackBitsNext

LEMMA PackTripsUnchanged == PackTrips /\ UNCHANGED vars => PackTrips'
<1> SUFFICES ASSUME PackTrips, UNCHANGED vars, ~foreign'
             PROVE  (\E n, pos, off : PackTrip(n, pos, off))'
  BY DEF PackTrips
<1>1. UNCHANGED <<codecVars, packbitsVars>>
  BY DEF vars
<1>2. /\ UNCHANGED <<foreign, data, given, stream, pc, asked, buf, taken, ret, failed>>
      /\ UNCHANGED <<raw, lastliteral, state, run, bp>>
  BY <1>1 DEF codecVars, stripVars, clientVars, packbitsVars
<1>3. PICK n, pos, off : PackTrip(n, pos, off)
  BY <1>2 DEF PackTrips
<1>4. Packing(n, pos, off)' = Packing(n, pos, off)
  BY <1>2 DEF Packing, LastOK, FromEnd, Growing
<1>5. \A m : Unpacking(m, n, pos, off) => Unpacking(m, n, pos, off)'
  BY <1>2 DEF Unpacking, Given, BytesAt
<1>6. PackTrip(n, pos, off)'
  BY <1>2, <1>3, <1>4, <1>5 DEF PackTrip
<1> QED BY <1>6

LEMMA PackTripsAlways == Spec => [](scheme = "packbits" => PackTrips)
<1>1. Init => (scheme = "packbits" => PackTrips)
  BY PackStarts DEF Init, FaxSchemes
<1>2. CodecsSafe /\ (scheme = "packbits" => PackTrips) /\ [Next]_vars
        => (scheme = "packbits" => PackTrips)'
  <2> SUFFICES ASSUME CodecsSafe, scheme = "packbits" => PackTrips, [Next]_vars,
                      scheme' = "packbits"
               PROVE  PackTrips'
    OBVIOUS
  <2>1. scheme = "packbits" /\ ((PackBitsNext /\ UNCHANGED lzwVars) \/ UNCHANGED vars)
    BY SchemeStays
  <2>2. PackBitsSafe /\ PackTrips
    BY <2>1 DEF CodecsSafe
  <2> QED BY <2>1, <2>2, PackBitsNextTrips, PackTripsUnchanged
<1> QED BY <1>1, <1>2, CodecsAlways, PTL DEF Spec

-----------------------------------------------------------------------------
(***************************************************************************)
(* The results.                                                            *)
(***************************************************************************)
\* Each code of a strip that this encoder wrote is read at the width it was written at,
\* though the decoder's table is one entry behind, and though the Clear code of a full
\* table is written before the width changes (tif_lzw.c:45-52, 485-490, 965, 980-984).
THEOREM WidthsAgree == Spec => []ReadAsWritten
<1>1. SchemeOK /\ CodecsSafe /\ FaxSafe /\ (scheme = "lzw" => LzwTrips) => ReadAsWritten
  <2> SUFFICES ASSUME SchemeOK, CodecsSafe, FaxSafe, scheme = "lzw" => LzwTrips, ~foreign
               PROVE  ~misread
    BY DEF ReadAsWritten
  <2>1. CASE scheme = "lzw"
    BY <2>1 DEF LzwTrips, LzwTrip
  <2>2. CASE scheme # "lzw"
    <3>1. LzwIdle
      BY <2>2 DEF SchemeOK, CodecsSafe, PackBitsSafe, FaxSafe, FaxInv
    <3> QED BY <3>1 DEF LzwIdle
  <2> QED BY <2>1, <2>2
<1> QED BY <1>1, SchemeAlways, CodecsAlways, FaxAlways, LzwTripsAlways, PTL

\* What PackBits and LZW have encoded is decoded again, byte for byte, however long the
\* strip is and however it is divided into calls of whole rows (PackBits) or of any
\* length (LZW): where the raw buffer is flushed, a row ends, a literal takes a run in,
\* the table of strings is cleared or the client's buffer is full within a string, no
\* byte is lost, repeated or changed, and no call fails (tif_packbits.c:65-184, 213-262,
\* tif_lzw.c:360-568, 866-1055).
LEMMA BytesComeBack == Spec => [](scheme \in {"packbits", "lzw"} => RoundTrip)
<1>1. /\ CodecsSafe /\ (scheme = "packbits" => PackTrips) /\ (scheme = "lzw" => LzwTrips)
      => (scheme \in {"packbits", "lzw"} => RoundTrip)
  <2> SUFFICES ASSUME CodecsSafe, scheme = "packbits" => PackTrips, scheme = "lzw" => LzwTrips,
                      scheme \in {"packbits", "lzw"}, pc = "idle", ~foreign
               PROVE  Given
    BY DEF RoundTrip, Given
  <2>1. CASE scheme = "packbits"
    <3>1. PICK n, pos, off : PackTrip(n, pos, off)
      BY <2>1 DEF PackTrips
    <3>2. PICK m : Unpacking(m, n, pos, off)
      BY <3>1 DEF PackTrip, PackingPcs
    <3> QED BY <3>2 DEF Unpacking
  <2>2. CASE scheme = "lzw"
    <3>1. PICK n, off, seg, bits : LzwTrip(n, off, seg, bits)
      BY <2>2 DEF LzwTrips
    <3> QED BY <3>1 DEF LzwTrip
  <2> QED BY <2>1, <2>2
<1> QED BY <1>1, CodecsAlways, LzwTripsAlways, PackTripsAlways, PTL

\* Whatever a strip is coded with, what was encoded is what the client gets, however the
\* strip is divided into calls: PackBits and LZW give back its bytes, and the fax schemes
\* its rows, which the decoder tells from each other by the codes alone, whether EOLs
\* stand between them or not (tif_packbits.c:65-184, 213-262, tif_lzw.c:360-568, 866-1055,
\* tif_fax3.c:945-1075, 1380-1450).
THEOREM EveryStripComesBack == Spec => []RoundTrip
<1>1. /\ SchemeOK /\ (scheme \in {"packbits", "lzw"} => RoundTrip)
      /\ (scheme \in FaxSchemes => RoundTrip)
      => RoundTrip
  BY DEF SchemeOK
<1> QED BY <1>1, SchemeAlways, BytesComeBack, FaxComesBack, PTL
=============================================================================
