----------------------------- MODULE Fax3_proofs -----------------------------
(***************************************************************************)
(* Proofs about the fax codecs (Fax3, as Codecs composes it): a row is     *)
(* filled by runs that add up to its width, with one dimension no EOL is   *)
(* passed over, a row whose codes are read as they were written is right,  *)
(* and a stream that arrives as it was sent gives back the strip.          *)
(*                                                                         *)
(* The first argument is about sums of runs.  While a row is read, a0 is   *)
(* the sum of its complete runs and of the one that is not, and b1 is the  *)
(* sum of the runs of the reference line that have been passed.  The       *)
(* reference line goes as far as the row ends before its last run, so that *)
(* the search for b1 ends within it.  When the row has ended, by whatever  *)
(* code, CLEANUP_RUNS leaves runs that go as far as its end, and the fill  *)
(* routine cuts them to it.                                                *)
(*                                                                         *)
(* The second is about what a code means where it stands.  A spot is a     *)
(* place in the strip: a row, a column, a color and a mode.  CodeFits says *)
(* which code may stand at a spot and to which spot it leads; each code the*)
(* encoders put fits where the ones before it lead, and the decoder, which *)
(* has read as far in the row as its spot, is led the same way (RowsInv).  *)
(*                                                                         *)
(* The third is that there is one way only: at a spot one code fits, and it*)
(* leads to one spot.  A stream that is whole therefore leads the decoder  *)
(* through every row to the end of the strip, no row is damaged, and the   *)
(* rows the client has been given are the first ones (RowsTrip).           *)
(*                                                                         *)
(* Sums are recursive functions; what is proved of them is proved by the   *)
(* least number for which it would not hold.                               *)
(***************************************************************************)
EXTENDS Codecs, WellFoundedInduction, TLAPS

-----------------------------------------------------------------------------
(***************************************************************************)
(* Sequences of the codes of the fax schemes.                              *)
(***************************************************************************)
FaxCodes == {PassCode, HorizCode, ExtCode, NullCode}
              \cup [type : {"vert"}, n : Int]
              \cup [type : {"term"}, c : Int, n : Nat]
              \cup [type : {"makeup"}, c : Int, n : Nat]
              \cup [type : {"eol"}, is1D : BOOLEAN, n : Nat]

LEMMA CodeTypes ==
  /\ PassCode \in FaxCodes /\ HorizCode \in FaxCodes
  /\ ExtCode \in FaxCodes /\ NullCode \in FaxCodes
  /\ \A n \in Int : VertCode(n) \in FaxCodes
  /\ \A c \in Int, n \in Nat : TermCode(c, n) \in FaxCodes /\ MakeUpCode(c, n) \in FaxCodes
  /\ \A b \in BOOLEAN, n \in Nat : EolCode(b, n) \in FaxCodes
BY DEF FaxCodes, PassCode, HorizCode, ExtCode, NullCode, VertCode, TermCode, MakeUpCode, EolCode

-----------------------------------------------------------------------------
(***************************************************************************)
(* Numbers.                                                                *)
(***************************************************************************)
\* A set of natural numbers has a least one.
LEMMA LeastOf ==
  ASSUME NEW S \in SUBSET Nat, S # {}
  PROVE  \E m \in S : \A k \in S : m <= k
<1> DEFINE R == OpToRel(<, Nat)
<1>1. IsWellFoundedOn(R, Nat)
  BY NatLessThanWellFounded
<1>2. \E x \in S : \A y \in S : ~ (<<y, x>> \in R)
  <2> HIDE DEF R
  <2> QED BY <1>1, WFMin
<1>3. \A x \in Nat, y \in Nat : y < x => <<y, x>> \in R
  BY DEF OpToRel
<1> HIDE DEF R
<1>4. PICK x \in S : \A y \in S : ~ (<<y, x>> \in R)
  BY <1>2
<1>5. S \subseteq Nat
  OBVIOUS
<1>6. \A y \in S : ~(y < x)
  BY <1>3, <1>4, <1>5, Zenon
<1>7. \A y \in S : x <= y
  BY <1>5, <1>6
<1> QED
  BY <1>7

LEMMA MinOf ==
  ASSUME NEW S \in SUBSET Nat, S # {}
  PROVE  Min(S) \in S /\ \A k \in S : Min(S) <= k
<1>1. \E m \in S : \A k \in S : m <= k
  BY LeastOf
<1> QED
  BY <1>1 DEF Min

\* Division and remainder.
LEMMA Divided ==
  ASSUME NEW a \in Nat, NEW b \in Nat \ {0}
  PROVE  /\ a \div b \in Nat /\ (a % b) \in 0..(b - 1)
         /\ a = b * (a \div b) + (a % b)
         /\ (a % b) <= a
OBVIOUS

LEMMA SpanTypes ==
  ASSUME NEW span \in Nat, NEW c \in Int
  PROVE  PutSpan(span, c) \in Seq(FaxCodes)
<1> DEFINE long == IF span < LongMakeUp + MakeUp THEN 0 ELSE (span - MakeUp) \div LongMakeUp
           rest == span - long * LongMakeUp
           longs == [i \in 1..long |-> MakeUpCode(c, LongMakeUp)]
           middle == IF rest < MakeUp THEN <<>> ELSE <<MakeUpCode(c, rest - (rest % MakeUp))>>
<1>1. long \in Nat /\ long * LongMakeUp \in Nat /\ long * LongMakeUp <= span
  BY FaxAssumption, Divided
<1>2. rest \in Nat
  BY <1>1
<1>3. longs \in Seq(FaxCodes)
  BY <1>1, CodeTypes, FaxAssumption
<1>4. (rest % MakeUp) \in Nat /\ (rest % MakeUp) <= rest
  <2> HIDE DEF rest
  <2> QED BY <1>2, FaxAssumption, Divided
<1>5. middle \in Seq(FaxCodes)
  BY <1>2, <1>4, CodeTypes
<1>6. <<TermCode(c, rest % MakeUp)>> \in Seq(FaxCodes)
  BY <1>4, CodeTypes
<1>7. PutSpan(span, c) = longs \o middle \o <<TermCode(c, rest % MakeUp)>>
  BY DEF PutSpan
<1> HIDE DEF long, rest, longs, middle
<1> QED
  BY <1>3, <1>5, <1>6, <1>7

-----------------------------------------------------------------------------
(***************************************************************************)
(* Rows and their changes.                                                 *)
(***************************************************************************)
LEMMA DiffRange ==
  ASSUME NEW row, NEW s \in 0..lastx, NEW c
  PROVE  FindDiff(row, s, c) \in s..lastx
<1> DEFINE S == {i \in s..lastx : i = lastx \/ row[i + 1] # c}
<1>1. lastx \in Nat
  BY CodecAssumption DEF lastx
<1>2. S \in SUBSET Nat /\ lastx \in S
  BY <1>1
<1>3. Min(S) \in S
  <2> HIDE DEF S
  <2> QED BY <1>2, MinOf
<1> QED
  BY <1>3 DEF FindDiff

LEMMA Diff2Range ==
  ASSUME NEW row, NEW s \in 0..lastx
  PROVE  FindDiff2(row, s) \in s..lastx
<1>1. lastx \in Nat
  BY CodecAssumption DEF lastx
<1> QED
  BY <1>1, DiffRange DEF FindDiff2

-----------------------------------------------------------------------------
(***************************************************************************)
(* Sums of runs.                                                           *)
(***************************************************************************)
IsSum(f, runs, i, j) ==
  f = [k \in i..j |-> IF k = i THEN 0 ELSE f[k - 1] + Run(runs, k - 1)]

LEMMA SumExists ==
  ASSUME NEW runs, NEW i \in Nat, NEW j \in Nat, i <= j
  PROVE  \E f : IsSum(f, runs, i, j)
<1> DEFINE S == {m \in Nat : i <= m /\ ~ \E f : IsSum(f, runs, i, m)}
<1>1. SUFFICES ASSUME S # {} PROVE FALSE
  BY <1>1
<1>2. PICK m \in S : \A k \in S : m <= k
  <2>1. S \in SUBSET Nat
    OBVIOUS
  <2> HIDE DEF S
  <2> QED BY <1>1, <2>1, LeastOf
<1>3. m \in Nat /\ i <= m /\ ~ \E f : IsSum(f, runs, i, m)
  BY <1>2
<1>4. CASE m = i
  <2>1. IsSum([k \in i..i |-> 0], runs, i, i)
    BY DEF IsSum
  <2> QED BY <1>3, <1>4, <2>1
<1>5. CASE m # i
  <2>1. m - 1 \in Nat /\ i <= m - 1 /\ ~(m <= m - 1)
    BY <1>3, <1>5
  <2>2. PICK f : IsSum(f, runs, i, m - 1)
    BY <1>2, <2>1
  <2> DEFINE g == [k \in i..m |-> IF k = i THEN 0 ELSE f[k - 1] + Run(runs, k - 1)]
  <2>3. \A k \in i..(m - 1) : g[k] = f[k]
    BY <1>3, <2>1, <2>2 DEF IsSum
  <2>4. \A k \in i..m : k # i => k - 1 \in i..(m - 1)
    BY <1>3
  <2>5. \A k \in i..m : (IF k = i THEN 0 ELSE f[k - 1] + Run(runs, k - 1))
                          = (IF k = i THEN 0 ELSE g[k - 1] + Run(runs, k - 1))
    <3> HIDE DEF g
    <3> QED BY <2>3, <2>4
  <2>6. g = [k \in i..m |-> IF k = i THEN 0 ELSE g[k - 1] + Run(runs, k - 1)]
    <3>1. g = [k \in i..m |-> IF k = i THEN 0 ELSE f[k - 1] + Run(runs, k - 1)]
      OBVIOUS
    <3> HIDE DEF g
    <3> QED BY <2>5, <3>1, Zenon
  <2>7. IsSum(g, runs, i, m)
    BY <2>6 DEF IsSum
  <2> QED BY <1>3, <2>7
<1> QED BY <1>4, <1>5

LEMMA SumFirst ==
  ASSUME NEW f, NEW runs, NEW i \in Nat, NEW j \in Nat, i <= j, IsSum(f, runs, i, j)
  PROVE  f[i] = 0
BY DEF IsSum

LEMMA SumNext ==
  ASSUME NEW f, NEW runs, NEW i \in Nat, NEW j \in Nat, IsSum(f, runs, i, j),
         NEW k \in (i + 1)..j
  PROVE  f[k] = f[k - 1] + Run(runs, k - 1)
BY DEF IsSum

LEMMA SumOf ==
  ASSUME NEW runs, NEW i \in Nat, NEW j \in Nat, i <= j
  PROVE  \E f : IsSum(f, runs, i, j) /\ SumRuns(runs, i, j) = f[j]
<1> DEFINE sum == CHOOSE f : IsSum(f, runs, i, j)
<1>1. IsSum(sum, runs, i, j)
  BY SumExists, Zenon
<1>2. SumRuns(runs, i, j) = sum[j]
  BY DEF SumRuns, IsSum
<1> QED BY <1>1, <1>2

LEMMA RunType ==
  ASSUME NEW runs \in Seq(Nat), NEW k \in Nat
  PROVE  Run(runs, k) \in Nat
BY DEF Run

LEMMA SumsAgree ==
  ASSUME NEW runs \in Seq(Nat), NEW i \in Nat, NEW a \in Nat, NEW b \in Nat, i <= a, a <= b,
         NEW f, IsSum(f, runs, i, a), NEW g, IsSum(g, runs, i, b)
  PROVE  f[a] = g[a] /\ f[a] \in Nat
<1> DEFINE P(k) == f[k] = g[k] /\ f[k] \in Nat
           S == {k \in i..a : ~P(k)}
<1>1. SUFFICES ASSUME S # {} PROVE FALSE
  <2>1. a \in i..a
    OBVIOUS
  <2>2. a \notin S
    BY <1>1
  <2>3. P(a)
    BY <2>1, <2>2
  <2> QED BY <2>3
<1>2. PICK k \in S : \A m \in S : k <= m
  <2>1. S \in SUBSET Nat
    OBVIOUS
  <2> HIDE DEF S
  <2> QED BY <1>1, <2>1, LeastOf
<1>3. k \in i..a /\ ~P(k)
  BY <1>2
<1>4. CASE k = i
  BY <1>3, <1>4, SumFirst
<1>5. CASE k # i
  <2>1. k - 1 \in i..a /\ k - 1 \in Nat /\ ~(k <= k - 1)
    BY <1>3, <1>5
  <2>2. P(k - 1)
    BY <1>2, <2>1
  <2>3. k \in (i + 1)..a /\ k \in (i + 1)..b
    BY <1>3, <1>5
  <2>4. f[k] = f[k - 1] + Run(runs, k - 1)
    BY <2>3, SumNext
  <2>5. g[k] = g[k - 1] + Run(runs, k - 1)
    BY <2>3, SumNext
  <2>6. Run(runs, k - 1) \in Nat
    BY <2>1, RunType
  <2> QED BY <1>3, <2>2, <2>4, <2>5, <2>6
<1> QED BY <1>4, <1>5

\* A sum is that of one run less, and the last.
LEMMA SumStep ==
  ASSUME NEW runs \in Seq(Nat), NEW i \in Nat, NEW j \in Nat, i <= j
  PROVE  /\ SumRuns(runs, i, i) = 0
         /\ SumRuns(runs, i, j) \in Nat
         /\ SumRuns(runs, i, j + 1) = SumRuns(runs, i, j) + Run(runs, j)
<1>1. PICK k \in Nat : k = j + 1
  OBVIOUS
<1>2. i <= k /\ j <= k /\ k - 1 = j /\ k \in (i + 1)..k
  BY <1>1
<1>3. PICK f : IsSum(f, runs, i, j) /\ SumRuns(runs, i, j) = f[j]
  BY SumOf
<1>4. PICK g : IsSum(g, runs, i, k) /\ SumRuns(runs, i, k) = g[k]
  BY <1>1, <1>2, SumOf
<1>5. PICK h : IsSum(h, runs, i, i) /\ SumRuns(runs, i, i) = h[i]
  BY SumOf
<1>6. SumRuns(runs, i, i) = 0
  BY <1>5, SumFirst
<1>7. f[j] = g[j] /\ f[j] \in Nat
  BY <1>1, <1>2, <1>3, <1>4, SumsAgree
<1>8. g[k] = g[k - 1] + Run(runs, k - 1)
  BY <1>1, <1>2, <1>4 DEF IsSum
<1> QED BY <1>1, <1>2, <1>3, <1>4, <1>6, <1>7, <1>8

\* The sum up to a later place is as large, and is what lies between them more.
LEMMA SumSplit ==
  ASSUME NEW runs \in Seq(Nat), NEW i \in Nat, NEW m \in Nat, NEW j \in Nat, i <= m, m <= j
  PROVE  /\ SumRuns(runs, i, j) = SumRuns(runs, i, m) + SumRuns(runs, m, j)
         /\ SumRuns(runs, i, m) <= SumRuns(runs, i, j)
<1> DEFINE P(k) == SumRuns(runs, i, k) = SumRuns(runs, i, m) + SumRuns(runs, m, k)
           S == {k \in m..j : ~P(k)}
<1>1. SUFFICES ASSUME S # {} PROVE FALSE
  <2>1. P(j)
    BY <1>1
  <2>2. SumRuns(runs, i, m) \in Nat /\ SumRuns(runs, m, j) \in Nat
    BY SumStep
  <2> QED BY <2>1, <2>2
<1>2. PICK k \in S : \A n \in S : k <= n
  <2>1. S \in SUBSET Nat
    OBVIOUS
  <2> HIDE DEF S
  <2> QED BY <1>1, <2>1, LeastOf
<1>3. k \in m..j /\ ~P(k)
  BY <1>2
<1>4. CASE k = m
  <2>1. SumRuns(runs, m, m) = 0 /\ SumRuns(runs, i, m) \in Nat
    BY SumStep
  <2> QED BY <1>3, <1>4, <2>1
<1>5. CASE k # m
  <2>1. PICK n \in Nat : n = k - 1
    BY <1>3, <1>5
  <2>2. n \in m..j /\ ~(k <= n) /\ n + 1 = k /\ m <= n /\ i <= n
    BY <1>3, <1>5, <2>1
  <2>3. P(n)
    BY <1>2, <2>2
  <2>4. SumRuns(runs, i, k) = SumRuns(runs, i, n) + Run(runs, n)
    BY <2>1, <2>2, SumStep
  <2>5. SumRuns(runs, m, k) = SumRuns(runs, m, n) + Run(runs, n) /\ SumRuns(runs, m, n) \in Nat
    <3>1. /\ SumRuns(runs, m, n) \in Nat
          /\ SumRuns(runs, m, n + 1) = SumRuns(runs, m, n) + Run(runs, n)
      BY <2>1, <2>2, SumStep
    <3> QED BY <2>2, <3>1
  <2>6. SumRuns(runs, i, m) \in Nat
    BY SumStep
  <2>7. Run(runs, n) \in Nat
    BY <2>1, RunType
  <2> QED BY <1>3, <2>3, <2>4, <2>5, <2>6, <2>7
<1> QED BY <1>4, <1>5

Sum(runs, j) == SumRuns(runs, 0, j)

\* Sums depend on the runs they are over only.
LEMMA SumSame ==
  ASSUME NEW a \in Seq(Nat), NEW b \in Seq(Nat), NEW j \in Nat,
         \A k \in 0..(j - 1) : Run(a, k) = Run(b, k)
  PROVE  Sum(a, j) = Sum(b, j)
<1> DEFINE P(k) == Sum(a, k) = Sum(b, k)
           S == {k \in 0..j : ~P(k)}
<1>1. SUFFICES ASSUME S # {} PROVE FALSE
  <2>1. j \in 0..j /\ j \notin S
    BY <1>1
  <2> QED BY <2>1
<1>2. PICK k \in S : \A n \in S : k <= n
  <2>1. S \in SUBSET Nat
    OBVIOUS
  <2> HIDE DEF S
  <2> QED BY <1>1, <2>1, LeastOf
<1>3. k \in 0..j /\ ~P(k)
  BY <1>2
<1>4. CASE k = 0
  <2>1. SumRuns(a, 0, 0) = 0 /\ SumRuns(b, 0, 0) = 0
    BY SumStep
  <2> QED BY <1>3, <1>4, <2>1 DEF Sum
<1>5. CASE k # 0
  <2>1. PICK n \in Nat : n = k - 1
    BY <1>3, <1>5
  <2>2. n \in 0..j /\ n \in 0..(j - 1) /\ ~(k <= n) /\ n + 1 = k
    BY <1>3, <1>5, <2>1
  <2>3. P(n)
    BY <1>2, <2>2
  <2>4. SumRuns(a, 0, n + 1) = SumRuns(a, 0, n) + Run(a, n)
    BY <2>1, SumStep
  <2>5. SumRuns(b, 0, n + 1) = SumRuns(b, 0, n) + Run(b, n)
    BY <2>1, SumStep
  <2> QED BY <1>3, <2>2, <2>3, <2>4, <2>5 DEF Sum
<1> QED BY <1>4, <1>5

LEMMA SumRange ==
  ASSUME NEW runs \in Seq(Nat), NEW j \in Nat
  PROVE  /\ Sum(runs, 0) = 0 /\ Sum(runs, j) \in Nat
         /\ Sum(runs, j + 1) = Sum(runs, j) + Run(runs, j)
         /\ \A k \in 0..j : Sum(runs, k) <= Sum(runs, j)
<1>1. \A k \in 0..j : Sum(runs, k) <= Sum(runs, j)
  BY SumSplit DEF Sum
<1> QED BY <1>1, SumStep DEF Sum

\* A run is put at the end of the runs, or in the place of one that was there.
LEMMA SetRunIs ==
  ASSUME NEW runs \in Seq(Nat), NEW i \in 0..Len(runs), NEW n \in Nat
  PROVE  /\ SetRun(runs, i, n) \in Seq(Nat)
         /\ Len(SetRun(runs, i, n)) \in Nat
         /\ Len(SetRun(runs, i, n)) >= i + 1 /\ Len(SetRun(runs, i, n)) >= Len(runs)
         /\ Run(SetRun(runs, i, n), i) = n
         /\ \A k \in 0..(i - 1) : Run(SetRun(runs, i, n), k) = Run(runs, k)
<1>1. Len(runs) \in Nat
  OBVIOUS
<1>2. CASE i < Len(runs)
  <2>1. SetRun(runs, i, n) = [runs EXCEPT ![i + 1] = n]
    BY <1>2 DEF SetRun
  <2> QED BY <1>1, <1>2, <2>1 DEF Run
<1>3. CASE i = Len(runs)
  <2>1. SetRun(runs, i, n) = Append(runs, n)
    BY <1>3 DEF SetRun
  <2> QED BY <1>1, <1>3, <2>1 DEF Run
<1> QED BY <1>1, <1>2, <1>3

LEMMA SetRunSum ==
  ASSUME NEW runs \in Seq(Nat), NEW i \in 0..Len(runs), NEW n \in Nat
  PROVE  /\ \A k \in 0..i : Sum(SetRun(runs, i, n), k) = Sum(runs, k)
         /\ Sum(SetRun(runs, i, n), i + 1) = Sum(runs, i) + n
<1> DEFINE set == SetRun(runs, i, n)
<1>1. /\ set \in Seq(Nat) /\ Run(set, i) = n
      /\ \A k \in 0..(i - 1) : Run(set, k) = Run(runs, k)
  BY SetRunIs
<1> HIDE DEF set
<1>2. ASSUME NEW k \in 0..i
      PROVE  Sum(set, k) = Sum(runs, k)
  <2>1. \A m \in 0..(k - 1) : Run(set, m) = Run(runs, m)
    BY <1>1
  <2> QED BY <1>1, <2>1, SumSame
<1>3. Sum(set, i) = Sum(runs, i)
  BY <1>2
<1>4. Sum(set, i + 1) = Sum(set, i) + Run(set, i)
  BY <1>1, SumRange
<1> QED BY <1>1, <1>2, <1>3, <1>4 DEF set

-----------------------------------------------------------------------------
(***************************************************************************)
(* The runs of a row, cut to the row.                                      *)
(***************************************************************************)
IsRow(a) == a.runs \in Seq(Nat) /\ a.pa \in 0..Len(a.runs)

LEMMA EndOfRunIs ==
  ASSUME NEW a, IsRow(a), NEW i \in Nat
  PROVE  /\ EndOfRun(a, 0) = 0 /\ EndOfRun(a, i) \in 0..lastx
         /\ EndOfRun(a, i) <= EndOfRun(a, i + 1)
         /\ (Sum(a.runs, i) >= lastx => EndOfRun(a, i) = lastx)
<1>1. lastx \in Nat
  BY CodecAssumption DEF lastx
<1>2. /\ Sum(a.runs, 0) = 0 /\ Sum(a.runs, i) \in Nat /\ Sum(a.runs, i + 1) \in Nat
      /\ Sum(a.runs, i) <= Sum(a.runs, i + 1)
  <2>1. i + 1 \in Nat /\ i \in 0..(i + 1)
    OBVIOUS
  <2> QED BY <2>1, SumRange DEF IsRow
<1> QED BY <1>1, <1>2 DEF EndOfRun, Smaller, Sum

LEMMA FillRunsIs ==
  ASSUME NEW a, IsRow(a)
  PROVE  /\ FillRuns(a) \in Seq(Nat) /\ Len(FillRuns(a)) >= Len(a.runs)
         /\ \A i \in 0..(a.pa - 1) :
              Run(FillRuns(a), i) = EndOfRun(a, i + 1) - EndOfRun(a, i)
<1> DEFINE runs == IF a.pa % 2 = 1 THEN SetRun(a.runs, a.pa, 0) ELSE a.runs
           filled(i) == IF i > a.pa THEN runs[i] ELSE EndOfRun(a, i) - EndOfRun(a, i - 1)
<1>1. runs \in Seq(Nat) /\ Len(runs) >= Len(a.runs) /\ Len(runs) \in Nat
  BY SetRunIs DEF IsRow
<1>2. FillRuns(a) = [i \in 1..Len(runs) |-> filled(i)]
  BY DEF FillRuns
<1>3. a.pa \in 0..Len(runs) /\ a.pa \in Nat /\ Len(a.runs) \in Nat
  BY <1>1 DEF IsRow
<1>4. \A i \in Nat : EndOfRun(a, i) \in Nat /\ EndOfRun(a, i) <= EndOfRun(a, i + 1)
  <2>1. lastx \in Nat
    BY CodecAssumption DEF lastx
  <2> QED BY <2>1, EndOfRunIs
<1> HIDE DEF runs
<1>5. \A i \in 1..Len(runs) : filled(i) \in Nat
  <2>1. SUFFICES ASSUME NEW i \in 1..Len(runs) PROVE filled(i) \in Nat
    OBVIOUS
  <2>2. CASE i > a.pa
    BY <1>1, <2>2
  <2>3. CASE ~(i > a.pa)
    <3>1. PICK k \in Nat : k = i - 1 /\ i = k + 1
      BY <1>1
    <3>2. EndOfRun(a, k) \in Nat /\ EndOfRun(a, k) <= EndOfRun(a, k + 1)
      BY <1>4, <3>1
    <3>3. i \in Nat /\ EndOfRun(a, i) \in Nat
      BY <1>1, <1>4
    <3> QED BY <2>3, <3>1, <3>2, <3>3
  <2> QED BY <2>2, <2>3
<1>6. FillRuns(a) \in Seq(Nat) /\ Len(FillRuns(a)) = Len(runs)
  <2> HIDE DEF filled
  <2> QED BY <1>1, <1>2, <1>5
<1>7. ASSUME NEW i \in 0..(a.pa - 1)
      PROVE  Run(FillRuns(a), i) = EndOfRun(a, i + 1) - EndOfRun(a, i)
  <2>1. i + 1 \in 1..Len(runs) /\ i < Len(runs) /\ ~(i + 1 > a.pa) /\ (i + 1) - 1 = i
    BY <1>1, <1>3
  <2>2. FillRuns(a)[i + 1] = filled(i + 1)
    <3> HIDE DEF filled
    <3> QED BY <1>2, <2>1
  <2> QED BY <1>6, <2>1, <2>2 DEF Run
<1> QED BY <1>1, <1>6, <1>7

\* The runs that are left add up to where the last of them ends.
LEMMA FillRunsSum ==
  ASSUME NEW a, IsRow(a), NEW j \in 0..a.pa
  PROVE  Sum(FillRuns(a), j) = EndOfRun(a, j)
<1> DEFINE P(k) == Sum(FillRuns(a), k) = EndOfRun(a, k)
           S == {k \in 0..j : ~P(k)}
<1>0. FillRuns(a) \in Seq(Nat) /\ a.pa \in Nat
  BY FillRunsIs DEF IsRow
<1>1. SUFFICES ASSUME S # {} PROVE FALSE
  <2>1. j \in 0..j /\ j \notin S
    BY <1>0, <1>1
  <2> QED BY <2>1
<1>2. PICK k \in S : \A n \in S : k <= n
  <2>1. S \in SUBSET Nat
    OBVIOUS
  <2> HIDE DEF S
  <2> QED BY <1>1, <2>1, LeastOf
<1>3. k \in 0..j /\ ~P(k) /\ j \in Nat /\ j <= a.pa
  BY <1>0, <1>2
<1>4. CASE k = 0
  BY <1>0, <1>3, <1>4, SumRange, EndOfRunIs
<1>5. CASE k # 0
  <2>1. PICK n \in Nat : n = k - 1
    BY <1>3, <1>5
  <2>2. n \in 0..j /\ n \in 0..(a.pa - 1) /\ ~(k <= n) /\ n + 1 = k
    BY <1>0, <1>3, <1>5, <2>1
  <2>3. P(n)
    BY <1>2, <2>2
  <2>4. Sum(FillRuns(a), n + 1) = Sum(FillRuns(a), n) + Run(FillRuns(a), n)
    BY <1>0, <2>1, SumRange
  <2>5. Run(FillRuns(a), n) = EndOfRun(a, n + 1) - EndOfRun(a, n)
    BY <2>2, FillRunsIs
  <2>6. EndOfRun(a, n) \in Int /\ EndOfRun(a, n + 1) \in Int
    <3>1. lastx \in Nat /\ n + 1 \in Nat
      BY CodecAssumption, <2>1 DEF lastx
    <3> QED BY <2>1, <3>1, EndOfRunIs
  <2> QED BY <1>3, <2>2, <2>3, <2>4, <2>5, <2>6
<1> QED BY <1>4, <1>5

\* However a row has ended, it is filled when its runs go as far as its end, and
\* then it can be the next one's reference line.
LEMMA RowFilled ==
  ASSUME NEW a, IsRow(a), Sum(a.runs, a.pa) >= lastx
  PROVE  /\ Sum(FillRuns(a), a.pa) = lastx
         /\ EndMark(a) \in Seq(Nat)
         /\ \E e \in 0..(Len(EndMark(a)) - 1) : Sum(EndMark(a), e) >= lastx
<1>1. lastx \in Nat /\ a.pa \in Nat /\ a.pa \in 0..a.pa
  BY CodecAssumption DEF lastx, IsRow
<1>2. Sum(FillRuns(a), a.pa) = lastx
  BY <1>1, FillRunsSum, EndOfRunIs
<1>3. FillRuns(a) \in Seq(Nat) /\ a.pa \in 0..Len(FillRuns(a))
  <2>1. Len(a.runs) \in Nat /\ a.pa <= Len(a.runs)
    BY DEF IsRow
  <2>2. FillRuns(a) \in Seq(Nat) /\ Len(FillRuns(a)) >= Len(a.runs)
    BY FillRunsIs
  <2>3. Len(FillRuns(a)) \in Nat
    BY <2>2
  <2> QED BY <1>1, <2>1, <2>2, <2>3
<1>4. Sum(EndMark(a), a.pa) = lastx /\ EndMark(a) \in Seq(Nat)
  BY <1>1, <1>2, <1>3, SetRunIs, SetRunSum DEF EndMark
<1>5. Len(EndMark(a)) \in Nat /\ Len(EndMark(a)) >= a.pa + 1
  BY <1>3, SetRunIs DEF EndMark
<1>6. a.pa \in 0..(Len(EndMark(a)) - 1)
  BY <1>1, <1>5
<1> QED BY <1>1, <1>2, <1>4, <1>6

-----------------------------------------------------------------------------
(***************************************************************************)
(* What the macros of the decoder do to a row.                             *)
(***************************************************************************)
RowType == [a0 : Nat, b1 : Nat, RunLength : Nat, pa : Nat, pb : Nat, runs : Seq(Nat),
            left : 0..2, no : Int]

LEMMA RowIs ==
  ASSUME NEW a \in RowType, a.pa <= Len(a.runs)
  PROVE  IsRow(a)
BY DEF RowType, IsRow

LEMMA SetValueIs ==
  ASSUME NEW a \in RowType, a.pa <= Len(a.runs), NEW x \in Int,
         a.RunLength + x \in Nat, a.a0 + x \in Nat
  PROVE  /\ SetValue(a, x) \in RowType /\ SetValue(a, x).pa <= Len(SetValue(a, x).runs)
         /\ SetValue(a, x).a0 = a.a0 + x /\ SetValue(a, x).RunLength = 0
         /\ SetValue(a, x).pa = a.pa + 1
         /\ SetValue(a, x).b1 = a.b1 /\ SetValue(a, x).pb = a.pb
         /\ SetValue(a, x).left = a.left /\ SetValue(a, x).no = a.no
         /\ Sum(SetValue(a, x).runs, a.pa + 1) = Sum(a.runs, a.pa) + (a.RunLength + x)
<1> DEFINE set == SetRun(a.runs, a.pa, a.RunLength + x)
           b == SetValue(a, x)
<1>1. a.runs \in Seq(Nat) /\ a.pa \in 0..Len(a.runs)
  BY DEF RowType
<1>2. set \in Seq(Nat) /\ Len(set) >= a.pa + 1
  BY <1>1, SetRunIs
<1>3. Sum(set, a.pa + 1) = Sum(a.runs, a.pa) + (a.RunLength + x)
  BY <1>1, SetRunSum
<1>4. b = [a EXCEPT !.runs = set, !.pa = @ + 1, !.a0 = @ + x, !.RunLength = 0]
  BY DEF SetValue
<1> HIDE DEF set, b
<1>5. /\ b.a0 = a.a0 + x /\ b.RunLength = 0 /\ b.pa = a.pa + 1 /\ b.runs = set
      /\ b.b1 = a.b1 /\ b.pb = a.pb /\ b.left = a.left /\ b.no = a.no
  BY <1>4 DEF RowType
<1>6. b \in RowType
  <2>1. a.pa + 1 \in Nat
    BY DEF RowType
  <2> QED BY <1>2, <1>4, <2>1 DEF RowType
<1>7. b.pa <= Len(b.runs)
  BY <1>2, <1>5
<1> QED BY <1>3, <1>5, <1>6, <1>7 DEF b

\* What is known of the reference line, and of the place in it.
RefIs(ref) == /\ ref \in Seq(Nat)
              /\ \E e \in 0..(Len(ref) - 1) : Sum(ref, e) >= lastx
PlaceIs(a, ref) == /\ a.b1 = Sum(ref, a.pb)
                   /\ a.pb <= Len(ref)
                   /\ a.pb = 0 => a.pa > 0

LEMMA Reached ==
  ASSUME NEW ref, RefIs(ref), NEW j \in Nat
  PROVE  /\ (j >= Len(ref) - 1 => Sum(ref, j) >= lastx)
         /\ (Sum(ref, j) < lastx => j + 1 < Len(ref))
         /\ Sum(ref, j) \in Nat /\ Len(ref) \in Nat /\ lastx \in Nat
<1>1. PICK e \in 0..(Len(ref) - 1) : Sum(ref, e) >= lastx
  BY DEF RefIs
<1>2. ref \in Seq(Nat) /\ Len(ref) \in Nat /\ lastx \in Nat
  BY CodecAssumption DEF RefIs, lastx
<1>3. Sum(ref, j) \in Nat /\ Sum(ref, e) \in Nat
  <2>1. e \in Nat
    BY <1>1, <1>2
  <2> QED BY <1>2, <2>1, SumRange
<1>4. j >= e => Sum(ref, e) <= Sum(ref, j)
  BY <1>1, <1>2, SumRange
<1> QED BY <1>1, <1>2, <1>3, <1>4

\* CHECK_b1 finds a place in the reference line, beyond a0 or at the end of the row.
LEMMA CheckB1Is ==
  ASSUME NEW a \in RowType, RefIs(dec3.refruns), PlaceIs(a, dec3.refruns)
  PROVE  /\ CheckB1(a) \in RowType /\ PlaceIs(CheckB1(a), dec3.refruns)
         /\ CheckB1(a).pb > 0
         /\ CheckB1(a).a0 = a.a0 /\ CheckB1(a).RunLength = a.RunLength
         /\ CheckB1(a).pa = a.pa /\ CheckB1(a).runs = a.runs /\ CheckB1(a).left = a.left
         /\ (a.pa = 0 => CheckB1(a) = a)
         /\ (a.pa > 0 => CheckB1(a).b1 > a.a0 \/ CheckB1(a).b1 >= lastx)
<1> DEFINE ref == dec3.refruns
           b1(m) == a.b1 + SumRuns(ref, a.pb, a.pb + 2 * m)
           M == {m \in 0..Len(ref) : b1(m) > a.a0 \/ b1(m) >= lastx}
           n == Min(M)
           c == [a EXCEPT !.b1 = b1(n), !.pb = @ + 2 * n]
<1>1. CheckB1(a) = IF a.pa = 0 THEN a ELSE c
  BY DEF CheckB1
<1>2. ref \in Seq(Nat) /\ Len(ref) \in Nat /\ lastx \in Nat /\ lastx > 0
  BY CodecAssumption DEF RefIs, lastx
<1>3. a.pb \in Nat /\ a.pa \in Nat /\ a.a0 \in Nat
  BY DEF RowType
<1>4. ASSUME NEW m \in Nat
      PROVE  b1(m) = Sum(ref, a.pb + 2 * m) /\ a.pb + 2 * m \in Nat
  <2>1. PICK j \in Nat : j = a.pb + 2 * m
    BY <1>3
  <2>2. 0 <= a.pb /\ a.pb <= j
    BY <1>3, <2>1
  <2>3. SumRuns(ref, 0, j) = SumRuns(ref, 0, a.pb) + SumRuns(ref, a.pb, j)
    BY <1>2, <1>3, <2>1, <2>2, SumSplit
  <2> QED BY <2>1, <2>3 DEF PlaceIs, Sum
<1>5. CASE a.pa = 0
  BY <1>1, <1>3, <1>5 DEF PlaceIs
<1>6. CASE a.pa # 0
  <2>1. Len(ref) \in M
    <3>1. a.pb + 2 * Len(ref) >= Len(ref) - 1 /\ a.pb + 2 * Len(ref) \in Nat
      BY <1>2, <1>3
    <3>2. b1(Len(ref)) >= lastx
      <4> HIDE DEF b1
      <4> QED BY <1>2, <1>4, <3>1, Reached
    <3> HIDE DEF b1
    <3> QED BY <1>2, <3>2
  <2>2. n \in M /\ \A m \in M : n <= m
    <3>1. M \in SUBSET Nat
      BY <1>2
    <3> HIDE DEF M
    <3> QED BY <2>1, <3>1, MinOf
  <2> HIDE DEF n, b1
  <2>3. n \in Nat /\ n <= Len(ref) /\ (b1(n) > a.a0 \/ b1(n) >= lastx)
    BY <1>2, <2>2
  <2>4. b1(n) = Sum(ref, a.pb + 2 * n) /\ a.pb + 2 * n \in Nat
    BY <1>4, <2>3
  <2>5. b1(n) \in Nat
    BY <1>2, <2>4, SumRange
  <2>6. a.pb + 2 * n <= Len(ref)
    <3>1. CASE n = 0
      BY <1>3, <3>1 DEF PlaceIs
    <3>2. CASE n # 0
      <4>1. PICK m \in Nat : m = n - 1 /\ m \in 0..Len(ref) /\ ~(n <= m)
        BY <1>2, <2>3, <3>2
      <4>2. m \notin M
        BY <2>2, <4>1
      <4>3. PICK j \in Nat : j = a.pb + 2 * m /\ b1(m) = Sum(ref, j)
        BY <1>4, <4>1
      <4>4. ~(Sum(ref, j) >= lastx)
        BY <4>1, <4>2, <4>3
      <4>5. Sum(ref, j) < lastx
        <5>1. Sum(ref, j) \in Nat
          BY <1>2, <4>3, SumRange
        <5> QED BY <1>2, <4>4, <5>1
      <4>6. j + 1 < Len(ref)
        BY <4>3, <4>5, Reached
      <4> QED BY <1>2, <1>3, <2>3, <4>1, <4>3, <4>6, SMTT(30)
    <3> QED BY <3>1, <3>2
  <2>7. a.pb + 2 * n > 0
    <3>1. SUFFICES ASSUME a.pb = 0, n = 0 PROVE FALSE
      BY <1>3, <2>3
    <3>2. b1(n) = Sum(ref, 0)
      BY <2>4, <3>1
    <3>3. Sum(ref, 0) = 0
      BY <1>2, SumRange
    <3> QED BY <1>2, <1>3, <2>3, <3>2, <3>3
  <2>8. CheckB1(a) = c
    BY <1>1, <1>6
  <2>9. /\ c \in RowType /\ c.b1 = b1(n) /\ c.pb = a.pb + 2 * n
        /\ c.a0 = a.a0 /\ c.RunLength = a.RunLength /\ c.pa = a.pa /\ c.runs = a.runs
        /\ c.left = a.left
    BY <2>4, <2>5 DEF RowType
  <2> HIDE DEF c
  <2> QED BY <1>3, <1>6, <2>3, <2>4, <2>6, <2>7, <2>8, <2>9 DEF PlaceIs
<1> QED BY <1>5, <1>6

-----------------------------------------------------------------------------
(***************************************************************************)
(* The inductive invariant.                                                *)
(***************************************************************************)
EncoderPcs == {"line", "encode1D", "encode2D", "sent"}
RunPcs == {"1D", "2D", "horiz"}
RowPcs == RunPcs \cup {"done", "eof", "fill", "fillLast"}
FaxPcs == EncoderPcs \cup {"idle", "call"} \cup RowPcs

IsSeq(s) == s \in Seq({s[i] : i \in DOMAIN s})
WholeRows(n) == \E k \in 0..n : n = k * RowSize

EncoderType == [tag : {"1D", "2D"}, k : 1..3, maxk : {2, 4}, refline : Seq(Nat),
                a0 : 0..lastx, color : Int, first : BOOLEAN]

\* The strip, and how far it has been encoded.
FaxStripOK ==
  /\ pc \in FaxPcs /\ foreign = FALSE
  /\ data \in Seq(Nat) /\ WholeRows(Len(data))
  /\ given \in 0..Len(data) /\ WholeRows(given)
  /\ pc \in {"encode1D", "encode2D"} => given < Len(data) /\ enc3.a0 < lastx
  /\ stream \in Seq(FaxCodes)
  /\ enc3 \in EncoderType
  /\ pc \in EncoderPcs => dec3 = StartFaxDecoder /\ at = StartFaxRow /\ asked = 0

DecoderRecords == [EOLcnt : {0, 1}, line : Nat, curruns : Seq(Nat), refruns : Seq(Nat),
                   bp : Nat, refno : Int, seen : SUBSET Nat]
\* An EOL that has ended a row has been read.
DecoderType == {d \in DecoderRecords : d.EOLcnt = 1 => d.bp > 0}

\* What the client has asked for, and what it has been given.
FaxClientOK ==
  /\ IsSeq(buf) /\ WholeRows(Len(buf)) /\ Len(buf) <= asked
  /\ asked \in 0..StripSize /\ WholeRows(asked)
  /\ taken \in 0..StripSize /\ WholeRows(taken)
  /\ pc \in {"call"} \cup RowPcs => taken + asked <= StripSize
  /\ pc \in RowPcs => Len(buf) < asked
  /\ ret \in {0, 1} /\ ~astray

\* The runs of the reference line go beyond the row before their last place.
FaxDecoderOK ==
  /\ dec3 \in DecoderType /\ dec3.bp <= Len(stream)
  /\ RefIs(dec3.refruns)

\* a0 is where the runs end that have been read, and b1 where those of the
\* reference line end that have been passed.
FaxRowOK ==
  /\ at \in RowType
  /\ at.pa <= Len(at.runs)
  /\ at.pb <= Len(dec3.refruns) + 2
  /\ pc \in RunPcs =>
       /\ at.a0 = Sum(at.runs, at.pa) + at.RunLength
       /\ PlaceIs(at, dec3.refruns)
  /\ pc = "1D" => at.pb > 0
  /\ pc = "2D" => at.a0 < lastx /\ (at.pa = 0 => at.a0 <= at.b1)
  /\ pc = "horiz" => at.left > 0
  /\ pc \in {"done", "eof"} =>
       \/ at.a0 = Sum(at.runs, at.pa) + at.RunLength
       \/ at.a0 < lastx /\ at.a0 <= Sum(at.runs, at.pa) + at.RunLength
  /\ pc \in {"fill", "fillLast"} => Sum(at.runs, at.pa) >= lastx

\* With one dimension no row is begun in the other mode, and none but after an EOL.
FaxEolOK ==
  scheme = "g3" =>
    /\ pc \notin {"2D", "horiz"}
    /\ pc = "1D" => dec3.EOLcnt = 0

FaxInv == /\ FaxStripOK /\ FaxClientOK /\ FaxDecoderOK /\ FaxRowOK /\ FaxEolOK
          /\ NoRowSkipped /\ PackBitsIdle /\ LzwIdle

-----------------------------------------------------------------------------
(***************************************************************************)
(* Whole rows.                                                             *)
(***************************************************************************)
LEMMA RowsTimes ==
  ASSUME NEW k \in Nat, NEW m \in Nat, k < m
  PROVE  /\ k * RowSize \in Nat /\ k <= k * RowSize
         /\ k * RowSize + RowSize <= m * RowSize
         /\ (k + 1) * RowSize = k * RowSize + RowSize
<1>1. RowSize \in Nat /\ RowSize >= 1
  BY CodecAssumption
<1>2. \A i, j \in Nat : i <= j => i * RowSize <= j * RowSize /\ i * RowSize \in Nat
  BY <1>1
<1>3. k * 1 <= k * RowSize
  BY <1>1
<1>4. (k + 1) * RowSize = k * RowSize + RowSize
  BY <1>1
<1>5. (k + 1) * RowSize <= m * RowSize
  BY <1>2
<1> QED BY <1>2, <1>3, <1>4, <1>5

LEMMA RowsAre ==
  ASSUME NEW n \in Nat, NEW k \in Nat, n = k * RowSize
  PROVE  WholeRows(n)
<1>1. k <= n
  BY RowsTimes
<1> QED BY <1>1 DEF WholeRows

LEMMA RowsAdded ==
  /\ WholeRows(0) /\ WholeRows(RowSize)
  /\ \A n \in Nat : WholeRows(n) => WholeRows(n + RowSize)
  /\ \A m, n \in Nat : WholeRows(m) /\ WholeRows(n) => WholeRows(m + n)
  /\ \A m, n \in Nat : WholeRows(m) /\ WholeRows(n) /\ n <= m => WholeRows(m - n)
  /\ \A m, n \in Nat : WholeRows(m) /\ WholeRows(n) /\ m < n => m + RowSize <= n
<1>1. RowSize \in Nat /\ RowSize >= 1
  BY CodecAssumption
<1>2. WholeRows(0) /\ WholeRows(RowSize)
  BY <1>1, RowsAre, 0 = 0 * RowSize, RowSize = 1 * RowSize
<1>3. ASSUME NEW m \in Nat, NEW n \in Nat, WholeRows(m), WholeRows(n)
      PROVE  WholeRows(m + n) /\ (n <= m => WholeRows(m - n)) /\ (m < n => m + RowSize <= n)
  <2>1. PICK k \in Nat : m = k * RowSize
    BY <1>3 DEF WholeRows
  <2>2. PICK j \in Nat : n = j * RowSize
    BY <1>3 DEF WholeRows
  <2>3. m + n = (k + j) * RowSize
    BY <1>1, <2>1, <2>2
  <2>4. WholeRows(m + n)
    BY <2>1, <2>2, <2>3, RowsAre, k + j \in Nat, m + n \in Nat
  <2>5. ASSUME n <= m PROVE WholeRows(m - n)
    <3>1. j <= k
      BY <1>1, <2>1, <2>2, <2>5, RowsTimes
    <3>2. m - n = (k - j) * RowSize
      BY <1>1, <2>1, <2>2
    <3> QED BY <2>1, <2>2, <2>5, <3>1, <3>2, RowsAre, k - j \in Nat, m - n \in Nat
  <2>6. ASSUME m < n PROVE m + RowSize <= n
    <3>1. k < j
      <4>1. CASE j < k
        BY <1>1, <2>1, <2>2, <2>6, <4>1, RowsTimes
      <4>2. CASE j = k
        BY <2>1, <2>2, <2>6, <4>2
      <4> QED BY <2>1, <2>2, <4>1, <4>2
    <3> QED BY <2>1, <2>2, <3>1, RowsTimes
  <2> QED BY <2>4, <2>5, <2>6
<1> QED BY <1>1, <1>2, <1>3

LEMMA SeqIs ==
  ASSUME NEW S, NEW u \in Seq(S)
  PROVE  IsSeq(u)
<1> DEFINE T == {u[i] : i \in DOMAIN u}
<1>1. Len(u) \in Nat /\ DOMAIN u = 1..Len(u) /\ u = [i \in 1..Len(u) |-> u[i]]
  OBVIOUS
<1>2. \A i \in 1..Len(u) : u[i] \in T
  BY <1>1
<1>3. u \in [1..Len(u) -> T]
  <2> HIDE DEF T
  <2> QED BY <1>1, <1>2
<1>4. u \in Seq(T)
  <2> HIDE DEF T
  <2> QED BY <1>1, <1>3
<1> QED BY <1>4 DEF IsSeq

LEMMA SeqsJoined ==
  ASSUME NEW s, NEW t, IsSeq(s), IsSeq(t)
  PROVE  /\ IsSeq(s \o t) /\ Len(s) \in Nat /\ Len(t) \in Nat
         /\ Len(s \o t) = Len(s) + Len(t)
<1> DEFINE S == {s[i] : i \in DOMAIN s} \cup {t[i] : i \in DOMAIN t}
<1>1. s \in Seq(S) /\ t \in Seq(S)
  BY DEF IsSeq
<1> HIDE DEF S
<1>2. s \o t \in Seq(S) /\ Len(s \o t) = Len(s) + Len(t) /\ Len(s) \in Nat /\ Len(t) \in Nat
  BY <1>1
<1>3. IsSeq(s \o t)
  BY <1>2, SeqIs
<1> QED BY <1>2, <1>3

LEMMA FunctionIsSeq ==
  ASSUME NEW n \in Nat, NEW s, s = [i \in 1..n |-> s[i]]
  PROVE  IsSeq(s) /\ Len(s) = n
BY DEF IsSeq

-----------------------------------------------------------------------------
(***************************************************************************)
(* The invariant holds at first.                                           *)
(***************************************************************************)
LEMMA Joined ==
  ASSUME NEW S, NEW s \in Seq(S), NEW t \in Seq(S)
  PROVE  /\ s \o t \in Seq(S) /\ Len(s) \in Nat /\ Len(t) \in Nat
         /\ Len(s \o t) = Len(s) + Len(t)
OBVIOUS

\* The pixels of a strip are white or black.
Bilevel == data \in Seq({White, Black})

LEMMA FunctionIn ==
  ASSUME NEW n \in Nat, NEW f \in [1..n -> {White, Black}]
  PROVE  f \in Seq({White, Black}) /\ Len(f) = n
OBVIOUS

LEMMA FaxStrips ==
  ASSUME data \in ShortStrips \cup Pairs
  PROVE  data \in Seq(Nat) /\ WholeRows(Len(data)) /\ Len(data) > 0 /\ Bilevel
<1>1. RowSize \in Nat \ {0} /\ {White, Black} = {0, 1}
  BY CodecAssumption DEF White, Black
<1> DEFINE Pixel == {White, Black}
<1>4. Bilevel => data \in Seq(Nat)
  BY <1>1 DEF Bilevel
<1>2. CASE data \in ShortStrips
  <2>1. PICK a \in FaxRows, b \in FaxRows : data = a \o b \o a
    BY <1>2 DEF ShortStrips
  <2>2. a \in Seq(Pixel) /\ b \in Seq(Pixel) /\ Len(a) = RowSize /\ Len(b) = RowSize
    BY <1>1, <2>1, FunctionIn, FaxAssumption
  <2> HIDE DEF Pixel
  <2>3. data \in Seq(Pixel) /\ Len(data) = RowSize + RowSize + RowSize
    <3>1. a \o b \in Seq(Pixel) /\ Len(a \o b) = RowSize + RowSize
      BY <2>2, Joined
    <3>2. a \o b \o a \in Seq(Pixel) /\ Len(a \o b \o a) = RowSize + RowSize + RowSize
      BY <2>2, <3>1, Joined
    <3> QED BY <2>1, <3>2
  <2>4. WholeRows(RowSize + RowSize)
    BY <1>1, RowsAdded
  <2>5. RowSize + RowSize \in Nat /\ WholeRows(RowSize + RowSize + RowSize)
    BY <1>1, <2>4, RowsAdded
  <2>6. Bilevel
    BY <2>3 DEF Bilevel, Pixel
  <2> QED BY <1>1, <1>4, <2>3, <2>5, <2>6
<1>3. CASE data \in Pairs
  <2>1. data \in [1..(2 * RowSize) -> {White, Black}]
    BY <1>3 DEF Pairs
  <2>2. Bilevel /\ Len(data) = 2 * RowSize
    BY <1>1, <2>1, 2 * RowSize \in Nat, FunctionIn DEF Bilevel
  <2>3. WholeRows(RowSize + RowSize)
    BY <1>1, RowsAdded
  <2> QED BY <1>1, <1>4, <2>2, <2>3
<1> QED BY <1>2, <1>3

LEMMA FaxStart ==
  /\ StartFaxDecoder \in DecoderType
  /\ StartFaxDecoder.bp = 0 /\ StartFaxDecoder.seen = {} /\ StartFaxDecoder.EOLcnt = 0
  /\ RefIs(StartFaxDecoder.refruns)
  /\ StartFaxRow \in RowType /\ StartFaxRow.pa = 0 /\ StartFaxRow.pb = 0
  /\ Len(StartFaxRow.runs) = 0
  /\ \A k \in {2, 4} : StartFaxEncoder(k) \in EncoderType
<1>1. lastx \in Nat /\ RowSize \in Nat /\ lastx = RowSize
  BY CodecAssumption DEF lastx
<1>2. <<lastx, 0>> \in Seq(Nat) /\ Len(<<lastx, 0>>) = 2
  BY <1>1
<1>3. RefIs(<<lastx, 0>>)
  <2>1. Sum(<<lastx, 0>>, 0 + 1) = Sum(<<lastx, 0>>, 0) + Run(<<lastx, 0>>, 0)
    BY <1>2, SumRange
  <2>2. Sum(<<lastx, 0>>, 0) = 0
    BY <1>2, SumRange
  <2>3. Run(<<lastx, 0>>, 0) = lastx
    BY <1>2 DEF Run
  <2>4. Sum(<<lastx, 0>>, 1) = lastx
    BY <1>1, <2>1, <2>2, <2>3
  <2>5. 1 \in 0..(Len(<<lastx, 0>>) - 1)
    BY <1>2
  <2> QED BY <1>1, <1>2, <2>4, <2>5 DEF RefIs
<1>4. \A k \in {2, 4} : StartFaxEncoder(k) \in EncoderType
  <2>1. [i \in 1..RowSize |-> White] \in Seq(Nat)
    BY <1>1 DEF White
  <2>2. 0 \in 0..lastx /\ White \in Int
    BY <1>1 DEF White
  <2> QED BY <2>1, <2>2 DEF StartFaxEncoder, EncoderType
<1>5. /\ StartFaxRow \in RowType /\ StartFaxRow.pa = 0 /\ StartFaxRow.pb = 0
      /\ Len(StartFaxRow.runs) = 0
  BY DEF StartFaxRow, RowType
<1>6. /\ StartFaxDecoder \in DecoderType
      /\ StartFaxDecoder.bp = 0 /\ StartFaxDecoder.seen = {} /\ StartFaxDecoder.EOLcnt = 0
      /\ StartFaxDecoder.refruns = <<lastx, 0>>
  BY <1>1, <1>2 DEF StartFaxDecoder, DecoderType, DecoderRecords
<1> QED BY <1>3, <1>4, <1>5, <1>6

LEMMA FaxInitInv ==
  ASSUME scheme \in FaxSchemes, FaxInit, PackBitsIdle, LzwIdle
  PROVE  FaxInv
<1>1. /\ foreign = FALSE /\ stream = <<>> /\ pc = "line" /\ given = 0 /\ asked = 0
      /\ buf = <<>> /\ taken = 0 /\ ret = 1 /\ astray = FALSE
      /\ dec3 = StartFaxDecoder /\ at = StartFaxRow
  BY DEF FaxInit, CodecInit
<1>2. data \in Seq(Nat) /\ WholeRows(Len(data)) /\ Len(data) \in Nat
  BY FaxStrips DEF FaxInit
<1>3. PICK k \in {2, 4} : enc3 = StartFaxEncoder(k)
  BY DEF FaxInit
<1>4. WholeRows(0)
  BY RowsAdded
<1>5. stream \in Seq(FaxCodes) /\ IsSeq(buf) /\ Len(buf) = 0 /\ Len(stream) = 0
  <2>1. <<>> \in Seq({}) /\ <<>> \in Seq(FaxCodes) /\ Len(<<>>) = 0
    OBVIOUS
  <2>2. IsSeq(<<>>)
    BY <2>1, SeqIs
  <2> QED BY <1>1, <2>1, <2>2
<1>6. FaxStripOK
  BY <1>1, <1>2, <1>3, <1>4, <1>5, FaxStart DEF FaxStripOK, FaxPcs, EncoderPcs
<1>7. FaxClientOK
  BY <1>1, <1>2, <1>4, <1>5 DEF FaxClientOK, RowPcs, RunPcs, StripSize
<1>8. FaxDecoderOK
  BY <1>1, <1>5, FaxStart DEF FaxDecoderOK
<1>9. FaxRowOK
  <2>1. Len(dec3.refruns) \in Nat
    BY <1>1, FaxStart DEF RefIs
  <2> QED BY <1>1, <2>1, FaxStart DEF FaxRowOK, RunPcs
<1>10. FaxEolOK /\ NoRowSkipped
  BY <1>1, FaxStart DEF FaxEolOK, NoRowSkipped
<1> QED BY <1>6, <1>7, <1>8, <1>9, <1>10 DEF FaxInv

-----------------------------------------------------------------------------
(***************************************************************************)
(* The encoder.                                                            *)
(***************************************************************************)
OthersIdle == UNCHANGED <<packbitsVars, lzwVars>>

LEMMA IdleKept ==
  ASSUME FaxInv, OthersIdle
  PROVE  PackBitsIdle' /\ LzwIdle'
BY DEF FaxInv, OthersIdle, PackBitsIdle, LzwIdle, packbitsVars, lzwVars

\* What every step of the encoder leaves as it is.
LEMMA EncoderKeeps ==
  ASSUME FaxInv, OthersIdle, pc \in EncoderPcs, pc' \in EncoderPcs \cup {"idle"},
         UNCHANGED <<stripVars, clientVars, dec3, at>>,
         stream' \in Seq(FaxCodes), enc3' \in EncoderType,
         given' \in 0..Len(data), WholeRows(given'),
         pc' \in {"encode1D", "encode2D"} => given' < Len(data) /\ enc3'.a0 < lastx
  PROVE  FaxInv'
<1>1. FaxStripOK /\ FaxClientOK /\ FaxDecoderOK /\ FaxRowOK /\ FaxEolOK
  BY DEF FaxInv
<1>2. /\ scheme' = scheme /\ foreign' = foreign /\ data' = data
      /\ asked' = asked /\ buf' = buf /\ taken' = taken /\ ret' = ret /\ astray' = astray
      /\ dec3' = dec3 /\ at' = at
  BY DEF stripVars, clientVars
<1>3. dec3 = StartFaxDecoder /\ at = StartFaxRow /\ asked = 0
  BY <1>1 DEF FaxStripOK
<1>4. FaxStripOK'
  <2>1. pc' \in FaxPcs
    BY DEF FaxPcs
  <2> QED BY <1>1, <1>2, <1>3, <2>1 DEF FaxStripOK, WholeRows
<1>5. pc' \notin RowPcs \cup {"call"}
  BY DEF EncoderPcs, RowPcs, RunPcs
<1>6. FaxClientOK'
  <2>1. StripSize' = StripSize
    BY <1>2 DEF StripSize
  <2>2. IsSeq(buf)' /\ (Len(buf) <= asked)' /\ WholeRows(Len(buf))' /\ WholeRows(asked)' /\ WholeRows(taken)'
    BY <1>1, <1>2 DEF FaxClientOK, IsSeq, WholeRows
  <2> QED BY <1>1, <1>2, <1>5, <2>1, <2>2 DEF FaxClientOK
<1>7. FaxDecoderOK'
  <2>1. Len(stream') \in Nat
    OBVIOUS
  <2>2. StartFaxDecoder \in DecoderType /\ StartFaxDecoder.bp <= Len(stream')
    BY <2>1, FaxStart
  <2>3. RefIs(dec3.refruns)'
    BY <1>1, <1>2 DEF FaxDecoderOK
  <2> QED BY <1>2, <1>3, <2>2, <2>3 DEF FaxDecoderOK
<1>8. FaxRowOK'
  BY <1>1, <1>2, <1>5 DEF FaxRowOK, RowPcs, RunPcs
<1>9. FaxEolOK' /\ NoRowSkipped'
  BY <1>2, <1>3, <1>5, FaxStart DEF FaxEolOK, NoRowSkipped, RowPcs, RunPcs
<1> QED BY <1>4, <1>6, <1>7, <1>8, <1>9, IdleKept DEF FaxInv

\* The row that is encoded is one of the strip.
LEMMA RowNow ==
  ASSUME FaxInv, given < Len(data)
  PROVE  /\ ThisRow \in Seq(Nat) /\ Len(ThisRow) = lastx
         /\ given + RowSize \in 0..Len(data) /\ WholeRows(given + RowSize)
<1>1. /\ data \in Seq(Nat) /\ WholeRows(Len(data)) /\ given \in 0..Len(data) /\ WholeRows(given)
      /\ Len(data) \in Nat /\ given \in Nat
  BY DEF FaxInv, FaxStripOK
<1>2. RowSize \in Nat /\ RowSize > 0
  BY CodecAssumption
<1>3. given + RowSize <= Len(data) /\ WholeRows(given + RowSize)
  BY <1>1, <1>2, RowsAdded
<1>4. PICK k \in Nat : given = k * RowSize
  BY <1>1 DEF WholeRows
<1>5. given \div RowSize = k
  BY <1>2, <1>4
<1>6. ((k + 1) - 1) * RowSize = given /\ (k + 1) * RowSize = given + RowSize
  BY <1>2, <1>4
<1>7. ThisRow = SubSeq(data, given + 1, given + RowSize)
  BY <1>5, <1>6 DEF ThisRow, Row
<1>8. ThisRow \in Seq(Nat) /\ Len(ThisRow) = lastx
  BY <1>1, <1>2, <1>3, <1>7 DEF lastx
<1> QED BY <1>1, <1>2, <1>3, <1>8

LEMMA NextTagIs ==
  ASSUME NEW e \in EncoderType, ThisRow \in Seq(Nat)
  PROVE  NextTag(e) \in EncoderType
<1> DEFINE k == IF e.tag = "2D" THEN e.k - 1 ELSE e.k
<1>1. k \in 0..3 /\ e.maxk - 1 \in 1..3
  BY DEF EncoderType
<1>2. \/ NextTag(e) \in {[e EXCEPT !.refline = ThisRow], e,
                         [e EXCEPT !.tag = "1D", !.k = e.maxk - 1]}
      \/ k # 0 /\ NextTag(e) = [e EXCEPT !.tag = "2D", !.k = k, !.refline = ThisRow]
  BY DEF NextTag
<1>3. [e EXCEPT !.refline = ThisRow] \in EncoderType
  BY DEF EncoderType
<1>4. [e EXCEPT !.tag = "1D", !.k = e.maxk - 1] \in EncoderType
  BY <1>1 DEF EncoderType
<1>5. k # 0 => [e EXCEPT !.tag = "2D", !.k = k, !.refline = ThisRow] \in EncoderType
  <2>1. k # 0 => k \in 1..3
    <3> HIDE DEF k
    <3> QED BY <1>1
  <2> HIDE DEF k
  <2> QED BY <2>1 DEF EncoderType
<1> QED BY <1>2, <1>3, <1>4, <1>5

LEMMA PutCodesKeeps ==
  ASSUME FaxInv, OthersIdle, pc \in {"encode1D", "encode2D"},
         NEW codes \in Seq(FaxCodes), NEW e \in EncoderType, PutCodes(codes, e)
  PROVE  FaxInv'
<1>1. /\ given \in 0..Len(data) /\ WholeRows(given) /\ given < Len(data)
      /\ stream \in Seq(FaxCodes) /\ Len(data) \in Nat
  BY DEF FaxInv, FaxStripOK
<1>2. /\ ThisRow \in Seq(Nat)
      /\ given + RowSize \in 0..Len(data) /\ WholeRows(given + RowSize)
  BY <1>1, RowNow
<1>3. stream' \in Seq(FaxCodes)
  BY <1>1, Joined DEF PutCodes
<1>4. /\ UNCHANGED <<stripVars, clientVars, dec3, at>>
  BY DEF PutCodes
<1>5. CASE e.a0 = lastx
  <2>1. enc3' = NextTag(e) /\ given' = given + RowSize /\ pc' = "line"
    BY <1>5 DEF PutCodes
  <2> QED BY <1>2, <1>3, <1>4, <2>1, NextTagIs, EncoderKeeps DEF EncoderPcs
<1>6. CASE e.a0 # lastx
  <2>1. enc3' = e /\ given' = given /\ pc' = pc
    BY <1>6 DEF PutCodes
  <2>2. enc3'.a0 < lastx
    BY <1>6, <2>1, CodecAssumption DEF EncoderType, lastx
  <2> QED BY <1>1, <1>3, <1>4, <2>1, <2>2, EncoderKeeps DEF EncoderPcs
<1> QED BY <1>5, <1>6

LEMMA Encode1DRowKeeps == FaxInv /\ OthersIdle /\ Encode1DRow => FaxInv'
<1> SUFFICES ASSUME FaxInv, OthersIdle, Encode1DRow PROVE FaxInv'
  OBVIOUS
<1> DEFINE end == FindDiff(ThisRow, enc3.a0, enc3.color)
<1>1. pc = "encode1D" /\ PutCodes(PutSpan(end - enc3.a0, enc3.color),
                                  [enc3 EXCEPT !.a0 = end, !.color = 1 - @])
  BY DEF Encode1DRow
<1>2. enc3 \in EncoderType /\ enc3.a0 \in 0..lastx /\ enc3.color \in Int
  BY DEF FaxInv, FaxStripOK, EncoderType
<1>3. end \in enc3.a0..lastx /\ lastx \in Nat
  BY <1>2, DiffRange, CodecAssumption DEF lastx
<1> HIDE DEF end
<1>4. PutSpan(end - enc3.a0, enc3.color) \in Seq(FaxCodes)
  <2>1. end - enc3.a0 \in Nat
    BY <1>2, <1>3
  <2> QED BY <1>2, <2>1, SpanTypes
<1>5. [enc3 EXCEPT !.a0 = end, !.color = 1 - @] \in EncoderType
  <2>1. 1 - enc3.color \in Int /\ end \in 0..lastx
    BY <1>2, <1>3
  <2> QED BY <1>2, <2>1 DEF EncoderType
<1> QED BY <1>1, <1>4, <1>5, PutCodesKeeps

LEMMA PlacesIn2D ==
  ASSUME FaxInv
  PROVE  /\ enc3 \in EncoderType /\ enc3.a0 \in 0..lastx /\ lastx \in Nat
         /\ A1 \in enc3.a0..lastx /\ A2 \in A1..lastx
         /\ B1 \in 0..lastx /\ B2 \in B1..lastx
<1>1. /\ enc3 \in EncoderType /\ enc3.a0 \in 0..lastx /\ lastx \in Nat
  BY CodecAssumption DEF FaxInv, FaxStripOK, EncoderType, lastx
<1>2. A1 \in enc3.a0..lastx
  BY <1>1, DiffRange DEF A1
<1>3. A2 \in A1..lastx
  BY <1>1, <1>2, Diff2Range DEF A2
<1>4. B1 \in 0..lastx
  <2>1. 0 \in 0..lastx
    BY <1>1
  <2>2. FindDiff(enc3.refline, 0, White) \in 0..lastx
    BY <2>1, DiffRange
  <2>3. FindDiff(enc3.refline, enc3.a0, 1 - A0Color) \in 0..lastx
    BY <1>1, DiffRange
  <2>4. FindDiff(enc3.refline, FindDiff(enc3.refline, enc3.a0, 1 - A0Color), A0Color) \in 0..lastx
    BY <1>1, <2>3, DiffRange
  <2> QED BY <2>2, <2>4 DEF B1
<1>5. B2 \in B1..lastx
  BY <1>1, <1>4, Diff2Range DEF B2
<1> QED BY <1>1, <1>2, <1>3, <1>4, <1>5

LEMMA EncodedColor ==
  ASSUME FaxInv, pc = "encode2D"
  PROVE  A0Color \in Int /\ 1 - A0Color \in Int
<1>1. given < Len(data) /\ enc3.a0 \in 0..lastx /\ enc3.a0 < lastx /\ lastx \in Nat
  BY PlacesIn2D DEF FaxInv, FaxStripOK
<1>2. ThisRow \in Seq(Nat) /\ Len(ThisRow) = lastx
  BY <1>1, RowNow
<1>3. ThisRow[enc3.a0 + 1] \in Nat
  BY <1>1, <1>2
<1> QED BY <1>3 DEF A0Color, White

LEMMA PassModeKeeps == FaxInv /\ OthersIdle /\ PassMode => FaxInv'
<1> SUFFICES ASSUME FaxInv, OthersIdle, PassMode PROVE FaxInv'
  OBVIOUS
<1>1. /\ pc = "encode2D"
      /\ PutCodes(<<PassCode>>, [enc3 EXCEPT !.a0 = B2, !.first = FALSE])
  BY DEF PassMode
<1>2. [enc3 EXCEPT !.a0 = B2, !.first = FALSE] \in EncoderType
  <2>1. B2 \in 0..lastx
    BY PlacesIn2D
  <2> QED BY <2>1, PlacesIn2D DEF EncoderType
<1>3. <<PassCode>> \in Seq(FaxCodes)
  BY CodeTypes
<1> QED BY <1>1, <1>2, <1>3, PutCodesKeeps

LEMMA VerticalModeKeeps == FaxInv /\ OthersIdle /\ VerticalMode => FaxInv'
<1> SUFFICES ASSUME FaxInv, OthersIdle, VerticalMode PROVE FaxInv'
  OBVIOUS
<1>1. /\ pc = "encode2D"
      /\ PutCodes(<<VertCode(A1 - B1)>>, [enc3 EXCEPT !.a0 = A1, !.first = FALSE])
  BY DEF VerticalMode
<1>2. A1 \in 0..lastx /\ A1 - B1 \in Int
  BY PlacesIn2D
<1>3. [enc3 EXCEPT !.a0 = A1, !.first = FALSE] \in EncoderType
  BY <1>2, PlacesIn2D DEF EncoderType
<1>4. <<VertCode(A1 - B1)>> \in Seq(FaxCodes)
  BY <1>2, CodeTypes
<1> QED BY <1>1, <1>3, <1>4, PutCodesKeeps

LEMMA HorizontalModeKeeps == FaxInv /\ OthersIdle /\ HorizontalMode => FaxInv'
<1> SUFFICES ASSUME FaxInv, OthersIdle, HorizontalMode PROVE FaxInv'
  OBVIOUS
<1> DEFINE codes == <<HorizCode>> \o PutSpan(A1 - enc3.a0, A0Color)
                      \o PutSpan(A2 - A1, 1 - A0Color)
<1>1. pc = "encode2D" /\ PutCodes(codes, [enc3 EXCEPT !.a0 = A2, !.first = FALSE])
  BY DEF HorizontalMode
<1>2. A2 \in 0..lastx /\ A1 - enc3.a0 \in Nat /\ A2 - A1 \in Nat
  BY PlacesIn2D
<1>3. [enc3 EXCEPT !.a0 = A2, !.first = FALSE] \in EncoderType
  BY <1>2, PlacesIn2D DEF EncoderType
<1>4. codes \in Seq(FaxCodes)
  <2>1. <<HorizCode>> \in Seq(FaxCodes)
    BY CodeTypes
  <2>2. PutSpan(A1 - enc3.a0, A0Color) \in Seq(FaxCodes)
    BY <1>1, <1>2, EncodedColor, SpanTypes
  <2>3. PutSpan(A2 - A1, 1 - A0Color) \in Seq(FaxCodes)
    BY <1>1, <1>2, EncodedColor, SpanTypes
  <2> QED BY <2>1, <2>2, <2>3, Joined
<1> HIDE DEF codes
<1> QED BY <1>1, <1>3, <1>4, PutCodesKeeps

LEMMA StartLineKeeps == FaxInv /\ OthersIdle /\ StartLine => FaxInv'
<1> SUFFICES ASSUME FaxInv, OthersIdle, StartLine PROVE FaxInv'
  OBVIOUS
<1>1. /\ pc = "line" /\ given < Len(data) /\ given \in 0..Len(data) /\ WholeRows(given)
      /\ stream \in Seq(FaxCodes) /\ enc3 \in EncoderType /\ lastx \in Nat \ {0}
      /\ RowSize \in Nat \ {0}
  BY CodecAssumption DEF FaxInv, FaxStripOK, StartLine, lastx
<1>2. pc' \in {"encode1D", "encode2D"} /\ given' = given
      /\ UNCHANGED <<stripVars, clientVars, dec3, at>>
  BY DEF StartLine
<1>3. enc3' \in EncoderType /\ enc3'.a0 < lastx
  <2>1. enc3' = [enc3 EXCEPT !.a0 = 0, !.color = White, !.first = TRUE]
    BY DEF StartLine
  <2>2. 0 \in 0..lastx /\ 0 < lastx /\ White \in Int
    BY <1>1 DEF White
  <2> QED BY <1>1, <2>1, <2>2 DEF EncoderType
<1>4. stream' \in Seq(FaxCodes)
  <2>1. (given \div RowSize) + 1 \in Nat
    <3>1. given \in Nat
      BY <1>1
    <3>2. given \div RowSize \in Nat
      BY <1>1, <3>1, Divided
    <3> QED BY <3>2
  <2>2. EolCode(enc3.tag = "1D", (given \div RowSize) + 1) \in FaxCodes
    BY <2>1, CodeTypes, (enc3.tag = "1D") \in BOOLEAN
  <2> QED BY <1>1, <2>2 DEF StartLine
<1> QED BY <1>1, <1>2, <1>3, <1>4, EncoderKeeps DEF EncoderPcs

LEMMA FaxPostEncodeKeeps == FaxInv /\ OthersIdle /\ FaxPostEncode => FaxInv'
<1> SUFFICES ASSUME FaxInv, OthersIdle, FaxPostEncode PROVE FaxInv'
  OBVIOUS
<1>1. /\ pc = "line" /\ pc' = "sent" /\ given' = given
      /\ given \in 0..Len(data) /\ WholeRows(given) /\ stream \in Seq(FaxCodes)
      /\ UNCHANGED <<stripVars, clientVars, dec3, at>>
  BY DEF FaxInv, FaxStripOK, FaxPostEncode
<1>2. enc3' \in EncoderType
  BY FaxStart DEF FaxPostEncode
<1>3. stream' \in Seq(FaxCodes)
  <2>1. Eofb \in Seq(FaxCodes)
    <3> DEFINE e == EolCode(FALSE, 0)
    <3>1. e \in FaxCodes
      BY CodeTypes
    <3>2. Eofb = <<e, e>>
      BY DEF Eofb
    <3> HIDE DEF e
    <3> QED BY <3>1, <3>2
  <2> QED BY <1>1, <2>1, Joined DEF FaxPostEncode
<1> QED BY <1>1, <1>2, <1>3, EncoderKeeps DEF EncoderPcs

LEMMA ArriveKeeps == FaxInv /\ OthersIdle /\ Arrive => FaxInv'
<1> SUFFICES ASSUME FaxInv, OthersIdle, Arrive PROVE FaxInv'
  OBVIOUS
<1>1. /\ pc = "sent" /\ pc' = "idle" /\ given' = given /\ enc3' = enc3
      /\ given \in 0..Len(data) /\ WholeRows(given) /\ stream \in Seq(FaxCodes)
      /\ enc3 \in EncoderType
      /\ UNCHANGED <<stripVars, clientVars, dec3, at>>
  BY DEF FaxInv, FaxStripOK, Arrive
<1>2. stream' = stream \/ \E i \in 1..(Len(stream) - 1) : stream' = SubSeq(stream, 1, i)
  BY DEF Arrive
<1>3. stream' \in Seq(FaxCodes)
  BY <1>1, <1>2
<1> QED BY <1>1, <1>3, EncoderKeeps DEF EncoderPcs

-----------------------------------------------------------------------------
(***************************************************************************)
(* The row that is decoded, after each of the macros.                      *)
(***************************************************************************)
RunsAre(a) == a \in RowType /\ a.pa <= Len(a.runs)
                /\ a.a0 = Sum(a.runs, a.pa) + a.RunLength
Between(a, ref) == RunsAre(a) /\ PlaceIs(a, ref)
\* Where EXPAND2D goes on from, or ends the row.
Turned(a, ref) ==
  /\ RunsAre(a) /\ a.pb <= Len(ref) + 2
  /\ a.a0 < lastx => PlaceIs(a, ref) /\ (a.pa = 0 => a.a0 <= a.b1)

LEMMA RowNumbers ==
  ASSUME NEW a \in RowType
  PROVE  /\ a.a0 \in Nat /\ a.b1 \in Nat /\ a.RunLength \in Nat /\ a.pa \in Nat /\ a.pb \in Nat
         /\ a.runs \in Seq(Nat) /\ Len(a.runs) \in Nat /\ Sum(a.runs, a.pa) \in Nat
<1>1. /\ a.a0 \in Nat /\ a.b1 \in Nat /\ a.RunLength \in Nat /\ a.pa \in Nat /\ a.pb \in Nat
      /\ a.runs \in Seq(Nat)
  BY DEF RowType
<1>2. Sum(a.runs, a.pa) \in Nat
  BY <1>1, SumRange
<1> QED BY <1>1, <1>2

\* A make-up code is part of a run.
LEMMA MakeUpGrows ==
  ASSUME NEW a, NEW ref, Between(a, ref), NEW n \in Nat
  PROVE  Between([a EXCEPT !.a0 = @ + n, !.RunLength = @ + n], ref)
<1> DEFINE b == [a EXCEPT !.a0 = @ + n, !.RunLength = @ + n]
<1>1. a \in RowType /\ a.pa <= Len(a.runs) /\ a.a0 = Sum(a.runs, a.pa) + a.RunLength
  BY DEF Between, RunsAre
<1>2a. /\ b.pa = a.pa /\ b.runs = a.runs /\ b.b1 = a.b1 /\ b.pb = a.pb
       /\ b.a0 = a.a0 + n /\ b.RunLength = a.RunLength + n
  BY <1>1 DEF RowType
<1>2b. b \in RowType
  <2>1. a.a0 + n \in Nat /\ a.RunLength + n \in Nat
    BY <1>1, RowNumbers
  <2> QED BY <1>1, <2>1 DEF RowType
<1> HIDE DEF b
<1>2. /\ b \in RowType /\ b.pa = a.pa /\ b.runs = a.runs /\ b.b1 = a.b1 /\ b.pb = a.pb
      /\ b.a0 = a.a0 + n /\ b.RunLength = a.RunLength + n
  BY <1>2a, <1>2b
<1>3. b.a0 = Sum(b.runs, b.pa) + b.RunLength
  BY <1>1, <1>2, RowNumbers
<1>4. RunsAre(b)
  BY <1>1, <1>2, <1>3 DEF RunsAre
<1>5. PlaceIs(b, ref)
  BY <1>2 DEF Between, PlaceIs
<1> QED BY <1>4, <1>5 DEF Between, b

\* A run that is complete.
LEMMA RunEnds ==
  ASSUME NEW a, RunsAre(a), NEW x \in Int, a.RunLength + x \in Nat, a.a0 + x \in Nat
  PROVE  /\ RunsAre(SetValue(a, x)) /\ SetValue(a, x).pa > 0
         /\ SetValue(a, x).a0 = a.a0 + x /\ SetValue(a, x).RunLength = 0
         /\ SetValue(a, x).pa = a.pa + 1
         /\ SetValue(a, x).b1 = a.b1 /\ SetValue(a, x).pb = a.pb
         /\ SetValue(a, x).left = a.left
<1> DEFINE b == SetValue(a, x)
<1>1. a \in RowType /\ a.pa <= Len(a.runs) /\ a.a0 = Sum(a.runs, a.pa) + a.RunLength
  BY DEF RunsAre
<1>2. /\ b \in RowType /\ b.pa <= Len(b.runs) /\ b.a0 = a.a0 + x /\ b.RunLength = 0
      /\ b.pa = a.pa + 1 /\ b.b1 = a.b1 /\ b.pb = a.pb /\ b.left = a.left
      /\ Sum(b.runs, a.pa + 1) = Sum(a.runs, a.pa) + (a.RunLength + x)
  BY <1>1, SetValueIs
<1> HIDE DEF b
<1>3. b.a0 = Sum(b.runs, b.pa) + b.RunLength
  BY <1>1, <1>2, RowNumbers, SMTT(30)
<1>4. b.pa > 0
  BY <1>1, <1>2, RowNumbers
<1> QED BY <1>2, <1>3, <1>4 DEF b, RunsAre

LEMMA RunEndsBetween ==
  ASSUME NEW a, NEW ref, Between(a, ref), NEW n \in Nat
  PROVE  Between(SetValue(a, n), ref) /\ SetValue(a, n).pa > 0
         /\ SetValue(a, n).left = a.left
<1>1. RunsAre(a) /\ PlaceIs(a, ref)
  BY DEF Between
<1>2. a.RunLength + n \in Nat /\ a.a0 + n \in Nat
  BY <1>1, RowNumbers DEF RunsAre
<1>3. /\ RunsAre(SetValue(a, n)) /\ SetValue(a, n).pa > 0
      /\ SetValue(a, n).b1 = a.b1 /\ SetValue(a, n).pb = a.pb
      /\ SetValue(a, n).left = a.left
  BY <1>1, <1>2, RunEnds
<1> QED BY <1>1, <1>3 DEF Between, PlaceIs

\* Two runs of no length can be left out.
LEMMA EmptyLeftOut ==
  ASSUME NEW a, NEW ref, Between(a, ref), a.pa > 0, a.pb > 0
  PROVE  Between(WithoutEmpty(a), ref) /\ WithoutEmpty(a).pb = a.pb
<1>1. a \in RowType /\ a.pa <= Len(a.runs) /\ a.a0 = Sum(a.runs, a.pa) + a.RunLength
  BY DEF Between, RunsAre
<1>2. a.pa \in Nat /\ a.runs \in Seq(Nat) /\ Len(a.runs) \in Nat
  BY <1>1, RowNumbers
<1>3. CASE a.pa % 2 = 0 /\ a.runs[a.pa] = 0 /\ a.runs[a.pa - 1] = 0
  <2>1. PICK k \in Nat : k = a.pa - 2
    BY <1>2, <1>3
  <2>2. Run(a.runs, k) = 0 /\ Run(a.runs, k + 1) = 0
    <3>1. /\ k \in Nat /\ a.pa = k + 2 /\ a.pa - 1 = k + 1 /\ (k + 1) + 1 = a.pa
          /\ k < Len(a.runs) /\ k + 1 < Len(a.runs)
      BY <1>1, <1>2, <2>1, SMTT(30)
    <3> QED BY <1>3, <3>1 DEF Run
  <2>3. Sum(a.runs, k + 1) = Sum(a.runs, k) + Run(a.runs, k) /\ Sum(a.runs, k) \in Nat
    BY <1>2, <2>1, SumRange
  <2>4. Sum(a.runs, k + 1 + 1) = Sum(a.runs, k + 1) + Run(a.runs, k + 1)
    <3>1. k + 1 \in Nat
      BY <2>1
    <3> QED BY <1>2, <3>1, SumRange
  <2>5. Sum(a.runs, a.pa) = Sum(a.runs, k)
    <3>1. a.pa = k + 1 + 1
      BY <1>2, <2>1
    <3> QED BY <2>2, <2>3, <2>4, <3>1
  <2> DEFINE b == [a EXCEPT !.pa = @ - 2]
  <2>6. /\ b.pa = k /\ b.runs = a.runs /\ b.a0 = a.a0 /\ b.RunLength = a.RunLength
        /\ b.b1 = a.b1 /\ b.pb = a.pb /\ b \in RowType
    BY <1>1, <2>1 DEF RowType
  <2>7. WithoutEmpty(a) = b
    BY <1>3 DEF WithoutEmpty
  <2> HIDE DEF b
  <2>8. b.pa <= Len(b.runs)
    BY <1>1, <1>2, <2>1, <2>6
  <2>9. RunsAre(b)
    BY <1>1, <2>5, <2>6, <2>8 DEF RunsAre
  <2>10. PlaceIs(b, ref)
    BY <2>6 DEF Between, PlaceIs
  <2> QED BY <2>6, <2>7, <2>9, <2>10 DEF Between
<1>4. CASE ~(a.pa % 2 = 0 /\ a.runs[a.pa] = 0 /\ a.runs[a.pa - 1] = 0)
  BY <1>4 DEF WithoutEmpty
<1> QED BY <1>3, <1>4

\* CHECK_b1 leaves the runs alone.
LEMMA CheckB1Between ==
  ASSUME NEW a, RefIs(dec3.refruns), Between(a, dec3.refruns)
  PROVE  /\ Between(CheckB1(a), dec3.refruns) /\ CheckB1(a).pb > 0
         /\ CheckB1(a).a0 = a.a0 /\ CheckB1(a).pa = a.pa /\ CheckB1(a).left = a.left
         /\ CheckB1(a).RunLength = a.RunLength
         /\ (a.pa = 0 => CheckB1(a) = a)
         /\ (a.pa > 0 => CheckB1(a).b1 > a.a0 \/ CheckB1(a).b1 >= lastx)
<1>1. a \in RowType /\ PlaceIs(a, dec3.refruns) /\ RunsAre(a)
  BY DEF Between, RunsAre
<1> DEFINE c == CheckB1(a)
<1>2. /\ c \in RowType /\ PlaceIs(c, dec3.refruns) /\ c.pb > 0
      /\ c.a0 = a.a0 /\ c.RunLength = a.RunLength
      /\ c.pa = a.pa /\ c.runs = a.runs /\ c.left = a.left
      /\ (a.pa = 0 => c = a)
      /\ (a.pa > 0 => c.b1 > a.a0 \/ c.b1 >= lastx)
  BY <1>1, CheckB1Is
<1> HIDE DEF c
<1>3. RunsAre(c)
  BY <1>1, <1>2 DEF RunsAre
<1> QED BY <1>2, <1>3 DEF c, Between

\* One run of the reference line is passed, or the last of them taken back.
LEMMA NextRefIs ==
  ASSUME NEW a, RefIs(dec3.refruns), RunsAre(a), a.b1 = Sum(dec3.refruns, a.pb)
  PROVE  /\ RunsAre(NextRef(a)) /\ NextRef(a).pb = a.pb + 1
         /\ NextRef(a).b1 = Sum(dec3.refruns, a.pb + 1) /\ NextRef(a).b1 >= a.b1
         /\ NextRef(a).a0 = a.a0 /\ NextRef(a).pa = a.pa
         /\ NextRef(a).RunLength = a.RunLength /\ NextRef(a).runs = a.runs
<1> DEFINE r == Run(dec3.refruns, a.pb)
           c == [a EXCEPT !.b1 = @ + r, !.pb = @ + 1]
<1>1. a \in RowType /\ dec3.refruns \in Seq(Nat)
  BY DEF RunsAre, RefIs
<1>2. a.b1 \in Nat /\ a.pb \in Nat
  BY <1>1, RowNumbers
<1>3. r \in Nat
  BY <1>1, <1>2, RunType
<1>4. Sum(dec3.refruns, a.pb + 1) = a.b1 + r
  BY <1>1, <1>2, SumRange
<1>5. NextRef(a) = c
  BY DEF NextRef
<1> HIDE DEF r
<1>6. /\ c.b1 = a.b1 + r /\ c.pb = a.pb + 1 /\ c.a0 = a.a0 /\ c.pa = a.pa
      /\ c.RunLength = a.RunLength /\ c.runs = a.runs
  BY <1>1 DEF RowType
<1>7. c \in RowType
  <2>1. a.b1 + r \in Nat /\ a.pb + 1 \in Nat
    BY <1>2, <1>3
  <2> QED BY <1>1, <2>1 DEF RowType
<1> HIDE DEF c
<1>8. RunsAre(c)
  BY <1>6, <1>7 DEF RunsAre
<1> QED BY <1>2, <1>3, <1>4, <1>5, <1>6, <1>8

LEMMA PreviousRefIs ==
  ASSUME NEW a, RefIs(dec3.refruns), RunsAre(a), a.b1 = Sum(dec3.refruns, a.pb), a.pb > 0
  PROVE  /\ RunsAre(PreviousRef(a)) /\ PreviousRef(a).pb = a.pb - 1
         /\ PreviousRef(a).b1 = Sum(dec3.refruns, a.pb - 1)
         /\ PreviousRef(a).a0 = a.a0 /\ PreviousRef(a).pa = a.pa
<1> DEFINE r == Run(dec3.refruns, a.pb - 1)
           c == [a EXCEPT !.b1 = @ - r, !.pb = @ - 1]
<1>1. a \in RowType /\ dec3.refruns \in Seq(Nat)
  BY DEF RunsAre, RefIs
<1>2. a.b1 \in Nat /\ a.pb \in Nat /\ a.pb - 1 \in Nat
  BY <1>1, RowNumbers
<1>3. PICK k \in Nat : k = a.pb - 1 /\ a.pb = k + 1
  BY <1>2
<1>4. /\ Sum(dec3.refruns, k + 1) = Sum(dec3.refruns, k) + Run(dec3.refruns, k)
      /\ Sum(dec3.refruns, k) \in Nat /\ Run(dec3.refruns, k) \in Nat
  BY <1>1, <1>3, SumRange, RunType
<1>5. r \in Nat /\ a.b1 - r = Sum(dec3.refruns, a.pb - 1) /\ a.b1 - r \in Nat
  BY <1>3, <1>4
<1>6. PreviousRef(a) = c
  BY DEF PreviousRef
<1> HIDE DEF r
<1>7. c.b1 = a.b1 - r /\ c.pb = a.pb - 1 /\ c.a0 = a.a0 /\ c.pa = a.pa
      /\ c.RunLength = a.RunLength /\ c.runs = a.runs
  BY <1>1 DEF RowType
<1>8. c \in RowType
  BY <1>1, <1>2, <1>5 DEF RowType
<1> HIDE DEF c
<1>9. RunsAre(c)
  BY <1>7, <1>8 DEF RunsAre
<1> QED BY <1>5, <1>6, <1>7, <1>9

\* Where b1 is when a code is read: nowhere before a0.
LEMMA B1Beyond ==
  ASSUME NEW a, RefIs(dec3.refruns), Between(a, dec3.refruns), a.a0 < lastx,
         a.pa = 0 => a.a0 <= a.b1
  PROVE  CheckB1(a).b1 >= a.a0
<1>1. a \in RowType /\ RunsAre(CheckB1(a))
  BY CheckB1Between DEF Between, RunsAre
<1>2. a.pa \in Nat /\ a.a0 \in Nat /\ CheckB1(a).b1 \in Nat /\ a.b1 \in Nat /\ lastx \in Nat
  BY <1>1, RowNumbers, CodecAssumption DEF RunsAre, lastx
<1>3. CASE a.pa = 0
  BY <1>2, <1>3, CheckB1Between
<1>4. CASE a.pa > 0
  BY <1>2, <1>4, CheckB1Between
<1> QED BY <1>2, <1>3, <1>4

LEMMA PassTurns ==
  ASSUME NEW a, RefIs(dec3.refruns), Between(a, dec3.refruns), a.a0 < lastx,
         a.pa = 0 => a.a0 <= a.b1
  PROVE  Turned(NextRef(Pass(NextRef(CheckB1(a)))), dec3.refruns)
<1> DEFINE ref == dec3.refruns
           b == CheckB1(a)
           c == NextRef(b)
           d == Pass(c)
           e == NextRef(d)
<1>1. RunsAre(b) /\ PlaceIs(b, ref) /\ b.a0 = a.a0 /\ b.b1 >= a.a0
  BY CheckB1Between, B1Beyond DEF Between
<1> HIDE DEF b
<1>2. /\ RunsAre(c) /\ c.pb = b.pb + 1 /\ c.b1 = Sum(ref, b.pb + 1) /\ c.b1 >= b.b1
      /\ c.a0 = b.a0
  BY <1>1, NextRefIs DEF PlaceIs
<1> HIDE DEF c
<1>3. /\ c \in RowType /\ c.pa <= Len(c.runs) /\ c.a0 = Sum(c.runs, c.pa) + c.RunLength
      /\ b \in RowType
  BY <1>1, <1>2 DEF RunsAre
<1>4. /\ c.a0 \in Nat /\ c.b1 \in Nat /\ c.RunLength \in Nat /\ Sum(c.runs, c.pa) \in Nat
      /\ c.pb \in Nat /\ b.pb \in Nat /\ b.b1 \in Nat
  BY <1>3, RowNumbers
<1>5. d = [c EXCEPT !.RunLength = @ + c.b1 - c.a0, !.a0 = c.b1]
  BY DEF Pass
<1> HIDE DEF d
<1>6. /\ d.a0 = c.b1 /\ d.RunLength = c.RunLength + c.b1 - c.a0 /\ d.pa = c.pa
      /\ d.runs = c.runs /\ d.b1 = c.b1 /\ d.pb = c.pb
  BY <1>3, <1>5 DEF RowType
<1>7. c.RunLength + c.b1 - c.a0 \in Nat
  BY <1>1, <1>2, <1>4
<1>8. d \in RowType
  BY <1>3, <1>4, <1>5, <1>7 DEF RowType
<1>9. RunsAre(d)
  <2>1. d.a0 = Sum(d.runs, d.pa) + d.RunLength
    BY <1>3, <1>4, <1>6
  <2> QED BY <1>3, <1>6, <1>8, <2>1 DEF RunsAre
<1>10. /\ RunsAre(e) /\ e.pb = d.pb + 1 /\ e.b1 = Sum(ref, d.pb + 1) /\ e.b1 >= d.b1
       /\ e.a0 = d.a0
  <2>1. d.b1 = Sum(ref, d.pb)
    BY <1>2, <1>6
  <2> QED BY <1>9, <2>1, NextRefIs
<1> HIDE DEF e
<1>11. Len(ref) \in Nat /\ b.pb <= Len(ref)
  BY <1>1 DEF RefIs, PlaceIs
<1>12. e.pb = b.pb + 2
  BY <1>2, <1>4, <1>6, <1>10
<1>13. ASSUME e.a0 < lastx
       PROVE  PlaceIs(e, ref) /\ e.a0 <= e.b1
  <2>1. Sum(ref, c.pb) < lastx
    BY <1>2, <1>6, <1>10, <1>13
  <2>2. c.pb + 1 < Len(ref)
    BY <1>4, <2>1, Reached
  <2>3. e.pb <= Len(ref) /\ e.pb # 0
    BY <1>2, <1>4, <1>11, <1>12, <2>2
  <2>4. e.b1 = Sum(ref, e.pb)
    BY <1>10
  <2>5. e.a0 <= e.b1
    BY <1>4, <1>6, <1>10, RowNumbers DEF RunsAre
  <2> QED BY <2>3, <2>4, <2>5 DEF PlaceIs
<1>14. e.pb <= Len(ref) + 2
  BY <1>4, <1>11, <1>12
<1> QED BY <1>10, <1>13, <1>14 DEF Turned, b, c, d, e

\* A change in vertical mode, to the right or to the left of b1.
LEMMA VerticalTurns ==
  ASSUME NEW a, RefIs(dec3.refruns), Between(a, dec3.refruns), a.a0 < lastx,
         a.pa = 0 => a.a0 <= a.b1, NEW n \in Int
  PROVE  LET b == CheckB1(a)
         IN  /\ n >= 0 => Turned(NextRef(Change(b, n)), dec3.refruns)
             /\ n < 0 /\ ~BadVL(b, n) => Turned(PreviousRef(Change(b, n)), dec3.refruns)
             /\ RunsAre(b) /\ b.pb <= Len(dec3.refruns)
<1> DEFINE ref == dec3.refruns
           b == CheckB1(a)
           x == b.b1 - b.a0 + n
           v == SetValue(b, x)
<1>1. /\ RunsAre(b) /\ PlaceIs(b, ref) /\ b.a0 = a.a0 /\ b.b1 >= b.a0 /\ b.pb > 0
  BY CheckB1Between, B1Beyond DEF Between
<1> HIDE DEF b
<1>2. /\ b.a0 \in Nat /\ b.b1 \in Nat /\ b.RunLength \in Nat /\ b.pb \in Nat
      /\ Len(ref) \in Nat /\ b.pb <= Len(ref) /\ b.b1 = Sum(ref, b.pb)
  BY <1>1, RowNumbers, SMTT(30) DEF RunsAre, PlaceIs, RefIs
<1>3. Change(b, n) = v
  BY DEF Change
<1>4. n < 0 /\ ~BadVL(b, n) => x >= 0
  <2>1. ~BadVL(b, n) => ~(b.b1 + n < b.a0)
    BY DEF BadVL
  <2> QED BY <1>2, <2>1
<1>5. n >= 0 => x >= 0
  BY <1>1, <1>2
<1>6. ASSUME x >= 0
      PROVE  /\ RunsAre(v) /\ v.pa > 0 /\ v.a0 = b.b1 + n
             /\ v.b1 = b.b1 /\ v.pb = b.pb
  <2>1. x \in Int /\ b.RunLength + x \in Nat /\ b.a0 + x \in Nat /\ b.a0 + x = b.b1 + n
    BY <1>2, <1>6, SMTT(30)
  <2> HIDE DEF x
  <2>2. /\ RunsAre(v) /\ v.pa > 0 /\ v.a0 = b.a0 + x /\ v.b1 = b.b1 /\ v.pb = b.pb
    BY <1>1, <2>1, RunEnds
  <2> QED BY <2>1, <2>2
<1> HIDE DEF x, v
<1>7. ASSUME n >= 0 PROVE Turned(NextRef(v), ref)
  <2>1. /\ RunsAre(v) /\ v.pa > 0 /\ v.a0 = b.b1 + n /\ v.b1 = b.b1 /\ v.pb = b.pb
    BY <1>5, <1>6, <1>7
  <2> DEFINE c == NextRef(v)
  <2>2. /\ RunsAre(c) /\ c.pb = b.pb + 1 /\ c.b1 = Sum(ref, b.pb + 1)
        /\ c.a0 = b.b1 + n /\ c.pa = v.pa
    BY <1>2, <2>1, NextRefIs
  <2> HIDE DEF c
  <2>3. ASSUME c.a0 < lastx PROVE PlaceIs(c, ref)
    <3>1. Sum(ref, b.pb) < lastx
      BY <1>2, <1>7, <2>2, <2>3, Reached
    <3>2. b.pb + 1 < Len(ref)
      BY <1>2, <3>1, Reached
    <3>3. c.pb <= Len(ref) /\ c.pb # 0
      BY <1>2, <2>2, <3>2
    <3> QED BY <2>2, <3>3 DEF PlaceIs
  <2>4. c.pb <= Len(ref) + 2 /\ c.pa # 0
    <3>1. v.pa \in Nat
      BY <2>1, RowNumbers DEF RunsAre
    <3> QED BY <1>2, <2>1, <2>2, <3>1
  <2> QED BY <2>2, <2>3, <2>4 DEF Turned, c
<1>8. ASSUME n < 0, ~BadVL(b, n) PROVE Turned(PreviousRef(v), ref)
  <2>1. /\ RunsAre(v) /\ v.pa > 0 /\ v.b1 = b.b1 /\ v.pb = b.pb
    BY <1>4, <1>6, <1>8
  <2> DEFINE c == PreviousRef(v)
  <2>2. RunsAre(c) /\ c.pb = b.pb - 1 /\ c.b1 = Sum(ref, b.pb - 1) /\ c.pa = v.pa
    BY <1>1, <1>2, <2>1, PreviousRefIs
  <2> HIDE DEF c
  <2>3. v.pa \in Nat
    BY <2>1, RowNumbers DEF RunsAre
  <2>4. c.pb <= Len(ref) /\ c.pb <= Len(ref) + 2 /\ c.pa # 0 /\ c.pa > 0
    BY <1>2, <2>1, <2>2, <2>3
  <2>5. PlaceIs(c, ref)
    BY <2>2, <2>4 DEF PlaceIs
  <2> QED BY <2>2, <2>4, <2>5 DEF Turned, c
<1> QED BY <1>1, <1>2, <1>3, <1>7, <1>8 DEF b

\* A run of horizontal mode; after the second of them b1 is looked for again.
LEMMA HorizTurns ==
  ASSUME NEW a, RefIs(dec3.refruns), Between(a, dec3.refruns), NEW n \in Nat, a.left > 0
  PROVE  LET b == [SetValue(a, n) EXCEPT !.left = @ - 1]
         IN  /\ Between(b, dec3.refruns)
             /\ Turned(CheckB1(b), dec3.refruns)
<1> DEFINE ref == dec3.refruns
           v == SetValue(a, n)
           b == [v EXCEPT !.left = @ - 1]
           c == CheckB1(b)
<1>1. Between(v, ref) /\ v.pa > 0 /\ v.left = a.left /\ a \in RowType
  BY RunEndsBetween DEF Between, RunsAre
<1> HIDE DEF v
<1>2. v \in RowType /\ v.left - 1 \in 0..2
  BY <1>1 DEF RowType, Between, RunsAre
<1>3. b \in RowType
  BY <1>2 DEF RowType
<1>4. /\ b.a0 = v.a0 /\ b.b1 = v.b1 /\ b.RunLength = v.RunLength /\ b.pa = v.pa
      /\ b.pb = v.pb /\ b.runs = v.runs
  BY <1>2 DEF RowType
<1> HIDE DEF b
<1>5. Between(b, ref)
  BY <1>1, <1>3, <1>4 DEF Between, RunsAre, PlaceIs
<1>6. Between(c, ref) /\ c.pa = b.pa
  BY <1>5, CheckB1Between
<1> HIDE DEF c
<1>7. c.pa # 0 /\ c.pb \in Nat /\ Len(ref) \in Nat
  <2>1. v.pa \in Nat /\ c.pb \in Nat
    BY <1>2, <1>6, RowNumbers DEF Between, RunsAre
  <2> QED BY <1>1, <1>4, <1>6, <2>1 DEF RefIs
<1>8. Turned(c, ref)
  BY <1>6, <1>7 DEF Turned, Between, PlaceIs
<1> QED BY <1>5, <1>8 DEF c, b, v

\* The rest of the row is a run: its runs then go beyond a0.
LEMMA RestIs ==
  ASSUME NEW a, RunsAre(a), a.a0 < lastx
  PROVE  /\ Rest(a) \in RowType /\ Rest(a).pa <= Len(Rest(a).runs)
         /\ Rest(a).pb = a.pb /\ Rest(a).a0 < lastx
         /\ Rest(a).a0 <= Sum(Rest(a).runs, Rest(a).pa) + Rest(a).RunLength
<1> DEFINE n == lastx - a.a0
           set == SetRun(a.runs, a.pa, n)
           b == [a EXCEPT !.runs = set, !.pa = @ + 1]
<1>1. a \in RowType /\ a.pa <= Len(a.runs) /\ a.a0 = Sum(a.runs, a.pa) + a.RunLength
  BY DEF RunsAre
<1>2. /\ a.a0 \in Nat /\ a.RunLength \in Nat /\ a.pa \in Nat /\ a.runs \in Seq(Nat)
      /\ Sum(a.runs, a.pa) \in Nat /\ lastx \in Nat /\ Len(a.runs) \in Nat
  BY <1>1, RowNumbers, CodecAssumption DEF lastx
<1>3. n \in Nat /\ a.pa \in 0..Len(a.runs) /\ a.pa + 1 \in Nat
  BY <1>1, <1>2
<1>4. Rest(a) = b
  BY DEF Rest
<1> HIDE DEF n
<1>5. set \in Seq(Nat) /\ Len(set) >= a.pa + 1
  BY <1>2, <1>3, SetRunIs
<1>6. Sum(set, a.pa + 1) = Sum(a.runs, a.pa) + n
  BY <1>2, <1>3, SetRunSum
<1> HIDE DEF set
<1>7. b \in RowType
  BY <1>1, <1>3, <1>5 DEF RowType
<1>8. /\ b.runs = set /\ b.pa = a.pa + 1 /\ b.a0 = a.a0 /\ b.RunLength = a.RunLength
      /\ b.pb = a.pb
  BY <1>1 DEF RowType
<1> HIDE DEF b
<1>9. b.a0 <= Sum(b.runs, b.pa) + b.RunLength
  <2>1. Sum(b.runs, b.pa) = Sum(a.runs, a.pa) + n
    BY <1>6, <1>8
  <2> QED BY <1>1, <1>2, <1>3, <1>8, <2>1
<1> QED BY <1>4, <1>5, <1>7, <1>8, <1>9

-----------------------------------------------------------------------------
(***************************************************************************)
(* The steps of the decoder.                                               *)
(***************************************************************************)
\* What a step leaves as it is that changes no more than the row and the decoder.
LEMMA RowStep ==
  ASSUME FaxInv, OthersIdle, NEW a, NEW dec, FaxStep(a, dec),
         pc \in {"call"} \cup RowPcs, pc' \in RowPcs, Len(buf) < asked,
         dec \in DecoderType, dec.bp <= Len(stream), dec.refruns = dec3.refruns,
         FaxRowOK', FaxEolOK', NoRowSkipped'
  PROVE  FaxInv'
<1>1. FaxStripOK /\ FaxClientOK /\ FaxDecoderOK
  BY DEF FaxInv
<1>2. /\ scheme' = scheme /\ foreign' = foreign /\ data' = data /\ given' = given
      /\ stream' = stream /\ enc3' = enc3 /\ dec3' = dec
      /\ asked' = asked /\ buf' = buf /\ taken' = taken /\ ret' = ret /\ astray' = astray
  BY DEF FaxStep, stripVars, clientVars
<1>3. pc' \in FaxPcs /\ pc' \notin EncoderPcs
  BY DEF FaxPcs, RowPcs, RunPcs, EncoderPcs
<1>4. FaxStripOK'
  BY <1>1, <1>2, <1>3 DEF FaxStripOK, WholeRows, EncoderPcs
<1>5. FaxClientOK'
  <2>1. StripSize' = StripSize
    BY <1>2 DEF StripSize
  <2>2. IsSeq(buf)' /\ (Len(buf) <= asked)' /\ WholeRows(Len(buf))' /\ WholeRows(asked)'
        /\ WholeRows(taken)'
    BY <1>1, <1>2 DEF FaxClientOK, IsSeq, WholeRows
  <2> QED BY <1>1, <1>2, <2>1, <2>2 DEF FaxClientOK
<1>6. FaxDecoderOK'
  <2>1. RefIs(dec3.refruns)'
    BY <1>1, <1>2 DEF FaxDecoderOK
  <2> QED BY <1>2, <2>1 DEF FaxDecoderOK
<1> QED BY <1>4, <1>5, <1>6, IdleKept DEF FaxInv

\* What has to be known of the row that a step leaves.
LEMMA RowLeft ==
  ASSUME NEW a, NEW dec, FaxStep(a, dec), FaxInv,
         dec.refruns = dec3.refruns, pc' \in RunPcs \cup {"done", "eof"},
         RunsAre(a), a.pb <= Len(dec3.refruns) + 2,
         pc' \in RunPcs => PlaceIs(a, dec3.refruns),
         pc' = "1D" => a.pb > 0,
         pc' = "2D" => a.a0 < lastx /\ (a.pa = 0 => a.a0 <= a.b1),
         pc' = "horiz" => a.left > 0
  PROVE  FaxRowOK'
<1>1. at' = a /\ dec3' = dec /\ dec3'.refruns = dec3.refruns
  BY DEF FaxStep
<1>2. a \in RowType /\ a.pa <= Len(a.runs) /\ a.a0 = Sum(a.runs, a.pa) + a.RunLength
  BY DEF RunsAre
<1>3. pc' \notin {"fill", "fillLast"}
  BY DEF RunPcs
<1>4. (at.pb <= Len(dec3.refruns) + 2)' /\ (pc' \in RunPcs => PlaceIs(at, dec3.refruns)')
  BY <1>1
<1> QED BY <1>1, <1>2, <1>3, <1>4 DEF FaxRowOK

LEMMA TurnedLeft ==
  ASSUME NEW a, NEW dec, Next2D(a, dec), FaxInv,
         dec.refruns = dec3.refruns, Turned(a, dec3.refruns)
  PROVE  FaxRowOK' /\ pc' \in {"2D", "done"} /\ FaxStep(a, dec)
<1>1. FaxStep(a, dec) /\ pc' \in {"2D", "done"} /\ (pc' = "2D" => a.a0 < lastx)
  BY DEF Next2D
<1>2. RunsAre(a) /\ a.pb <= Len(dec3.refruns) + 2
      /\ (a.a0 < lastx => PlaceIs(a, dec3.refruns) /\ (a.pa = 0 => a.a0 <= a.b1))
  BY DEF Turned
<1> QED BY <1>1, <1>2, RowLeft DEF RunPcs

\* The row that a code is read into.
LEMMA ReadInto ==
  ASSUME FaxInv, pc \in RunPcs, NEW table, NEW l \in Lookup(table)
  PROVE  /\ Between(l.at, dec3.refruns) /\ Len(buf) < asked
         /\ l.at.pb = at.pb /\ l.at.left = at.left /\ l.at.a0 = at.a0 /\ l.at.pa = at.pa
         /\ l.at.b1 = at.b1
         /\ RefIs(dec3.refruns)
<1>1. /\ at \in RowType /\ at.pa <= Len(at.runs) /\ RefIs(dec3.refruns) /\ Len(buf) < asked
      /\ at.a0 = Sum(at.runs, at.pa) + at.RunLength /\ PlaceIs(at, dec3.refruns)
  BY DEF FaxInv, FaxRowOK, FaxDecoderOK, FaxClientOK, RowPcs
<1>2. l.at \in {at, [at EXCEPT !.no = -1]}
  BY DEF Lookup
<1>3. /\ l.at \in RowType /\ l.at.pb = at.pb /\ l.at.left = at.left /\ l.at.a0 = at.a0
      /\ l.at.pa = at.pa /\ l.at.b1 = at.b1 /\ l.at.runs = at.runs
      /\ l.at.RunLength = at.RunLength
  <2>1. CASE l.at = at
    BY <1>1, <2>1
  <2>2. CASE l.at = [at EXCEPT !.no = -1]
    BY <1>1, <2>2 DEF RowType
  <2> QED BY <1>2, <2>1, <2>2
<1> QED BY <1>1, <1>3 DEF Between, RunsAre, PlaceIs

\* A code that is not damaged and is an EOL is read as one.
LEMMA CodeRead ==
  ASSUME FaxInv, pc \in RunPcs, NEW table, NEW l \in Lookup(table), table \subseteq FaxCodes
  PROVE  /\ l.code \in FaxCodes
         /\ dec3.bp + 1 <= Len(stream)
         /\ IsEol(dec3.bp + 1) => l.code.type = "eol"
<1>1. /\ stream \in Seq(FaxCodes) /\ Len(stream) \in Nat
      /\ dec3.bp \in Nat /\ dec3.bp <= Len(stream)
  BY DEF FaxInv, FaxStripOK, FaxDecoderOK, DecoderType, DecoderRecords
<1>2. ~AtEnd /\ l.code \in Readings(table)
  BY DEF Lookup
<1>3. dec3.bp + 1 \in 1..Len(stream)
  BY <1>1, <1>2 DEF AtEnd
<1> DEFINE i == dec3.bp + 1
<1>4. i \in 1..Len(stream) /\ stream[i] \in FaxCodes
  BY <1>1, <1>3
<1>5. Readings(table) = IF i \in damaged THEN table
                        ELSE IF stream[i] \in table \/ IsEol(i) THEN {stream[i]}
                        ELSE {IF pc = "2D" THEN ExtCode ELSE NullCode}
  BY DEF Readings
<1> HIDE DEF i
<1>6. l.code \in FaxCodes
  BY <1>2, <1>4, <1>5, CodeTypes
<1>7. IsEol(i) => l.code.type = "eol"
  BY <1>2, <1>5 DEF IsEol
<1> QED BY <1>1, <1>3, <1>6, <1>7 DEF i

LEMMA TablesTypes ==
  /\ MainTable \subseteq FaxCodes
  /\ \A c \in {White, Black} : SpanTable[c] \subseteq FaxCodes
<1>1. MainTable \subseteq FaxCodes
  <2>1. \A n \in -Reach..Reach : n \in Int
    OBVIOUS
  <2>2. PassCode \in FaxCodes /\ HorizCode \in FaxCodes /\ ExtCode \in FaxCodes
        /\ EolCode(TRUE, 0) \in FaxCodes
    BY CodeTypes
  <2> QED BY <2>1, <2>2, CodeTypes DEF MainTable
<1>2. ASSUME NEW c \in {White, Black}
      PROVE  SpanTable[c] \subseteq FaxCodes
  <2>1. c \in Int /\ lastx \in Nat /\ LongMakeUp \in Nat
    BY CodecAssumption, FaxAssumption DEF White, Black, lastx
  <2>2. SpanTable[c] = {TermCode(c, n) : n \in Lengths}
                \cup {MakeUpCode(c, n) : n \in MakeUps} \cup {EolCode(TRUE, 0), NullCode}
    BY DEF SpanTable
  <2>3. Lengths \subseteq Nat /\ MakeUps \subseteq Nat
    BY <2>1 DEF Lengths, MakeUps
  <2>4. EolCode(TRUE, 0) \in FaxCodes /\ NullCode \in FaxCodes
    BY CodeTypes
  <2> QED BY <2>1, <2>2, <2>3, <2>4, CodeTypes
<1> QED BY <1>1, <1>2

\* The decoder after a code.
LEMMA ConsumedIs ==
  ASSUME FaxInv, dec3.bp + 1 <= Len(stream), NEW read
  PROVE  /\ Consumed(read) \in DecoderType /\ Consumed(read).refruns = dec3.refruns
         /\ Consumed(read).bp <= Len(stream) /\ Consumed(read).EOLcnt = dec3.EOLcnt
         /\ Consumed(read).bp \in {dec3.bp, dec3.bp + 1}
         /\ (read # NullCode => Consumed(read).bp = dec3.bp + 1)
         /\ Consumed(read).seen = dec3.seen
         /\ read # NullCode => [Consumed(read) EXCEPT !.EOLcnt = 1] \in DecoderType
         /\ [Consumed(read) EXCEPT !.EOLcnt = 1].refruns = dec3.refruns
         /\ [Consumed(read) EXCEPT !.EOLcnt = 1].bp = Consumed(read).bp
         /\ [Consumed(read) EXCEPT !.EOLcnt = 1].EOLcnt = 1
         /\ [Consumed(read) EXCEPT !.EOLcnt = 1].seen = dec3.seen
<1> DEFINE place == IF read = NullCode THEN dec3.bp ELSE dec3.bp + 1
           d == [dec3 EXCEPT !.bp = place]
           e == [d EXCEPT !.EOLcnt = 1]
<1>1. dec3 \in DecoderType /\ dec3.bp \in Nat /\ dec3.bp <= Len(stream) /\ Len(stream) \in Nat
  BY DEF FaxInv, FaxStripOK, FaxDecoderOK, DecoderType, DecoderRecords
<1>2. place \in Nat /\ place <= Len(stream) /\ place \in {dec3.bp, dec3.bp + 1}
      /\ (read # NullCode => place = dec3.bp + 1)
  BY <1>1
<1>3. Consumed(read) = d
  BY DEF Consumed
<1> HIDE DEF place
<1>4. d \in DecoderRecords
  BY <1>1, <1>2 DEF DecoderType, DecoderRecords
<1>5. d.bp = place /\ d.refruns = dec3.refruns /\ d.EOLcnt = dec3.EOLcnt /\ d.seen = dec3.seen
  BY <1>1 DEF DecoderType, DecoderRecords
<1> HIDE DEF d
<1>6. d \in DecoderType
  BY <1>1, <1>2, <1>4, <1>5 DEF DecoderType
<1>7. e \in DecoderRecords
  BY <1>4 DEF DecoderRecords
<1>8. e.bp = d.bp /\ e.refruns = d.refruns /\ e.EOLcnt = 1 /\ e.seen = d.seen
  BY <1>4 DEF DecoderRecords
<1> HIDE DEF e
<1>9. read # NullCode => e \in DecoderType
  BY <1>1, <1>2, <1>5, <1>7, <1>8 DEF DecoderType
<1> QED BY <1>2, <1>3, <1>5, <1>6, <1>8, <1>9 DEF e

\* What has been said of the EOLs that are behind goes on being true.
LEMMA EolsKept ==
  ASSUME FaxInv, NEW a, NEW dec, FaxStep(a, dec),
         dec.bp = dec3.bp, dec.EOLcnt = dec3.EOLcnt, dec.seen = dec3.seen
  PROVE  NoRowSkipped'
<1>1. /\ scheme' = scheme /\ stream' = stream /\ damaged' = damaged /\ dec3' = dec
  BY DEF FaxStep, stripVars
<1>2. \A i : IsEol(i)' = IsEol(i)
  BY <1>1 DEF IsEol
<1> QED BY <1>1, <1>2 DEF FaxInv, NoRowSkipped

LEMMA EolPassed ==
  ASSUME FaxInv, NEW a, NEW dec, FaxStep(a, dec), scheme = "g3" => dec3.EOLcnt = 0,
         dec.bp = dec3.bp + 1, dec.seen = dec3.seen,
         IsEol(dec3.bp + 1) => dec.EOLcnt = 1
  PROVE  NoRowSkipped'
<1>1. /\ scheme' = scheme /\ stream' = stream /\ damaged' = damaged /\ dec3' = dec
  BY DEF FaxStep, stripVars
<1>2. dec3.bp \in Nat
  BY DEF FaxInv, FaxDecoderOK, DecoderType, DecoderRecords
<1> SUFFICES ASSUME scheme = "g3", NEW i \in 1..(dec3.bp + 1), IsEol(i),
                    ~(i = dec3.bp + 1 /\ dec.EOLcnt = 1)
             PROVE  stream[i].n \in dec3.seen
  <2>1. \A i : IsEol(i)' = IsEol(i)
    BY <1>1 DEF IsEol
  <2> QED BY <1>1, <2>1 DEF NoRowSkipped
<1>3. i # dec3.bp + 1
  OBVIOUS
<1>4. i \in 1..dec3.bp
  BY <1>2, <1>3
<1>5. ~(i = dec3.bp /\ dec3.EOLcnt = 1)
  OBVIOUS
<1> QED BY <1>4, <1>5 DEF FaxInv, NoRowSkipped

\* The numbers that codes have.
LEMMA CodeArguments ==
  ASSUME NEW read \in FaxCodes
  PROVE  /\ read.type \in {"term", "makeup"} => read.n \in Nat
         /\ read.type = "vert" => read.n \in Int
         /\ read.type # "null" => read # NullCode
BY DEF FaxCodes, PassCode, HorizCode, ExtCode, NullCode

LEMMA ColorIs ==
  ASSUME FaxInv
  PROVE  Color(at) \in {White, Black}
<1>1. at.pa \in Nat
  BY DEF FaxInv, FaxRowOK, RowType
<1>2. at.pa % 2 \in {0, 1}
  BY <1>1
<1> QED BY <1>2 DEF Color, White, Black

\* With one dimension.
LEMMA EolsOf1D ==
  ASSUME FaxInv, pc = "1D", NEW a, NEW dec, FaxStep(a, dec), pc' \in {"1D", "done"},
         pc' = "1D" => dec.EOLcnt = dec3.EOLcnt
  PROVE  FaxEolOK' /\ (scheme = "g3" => dec3.EOLcnt = 0)
<1>1. scheme' = scheme /\ dec3' = dec
  BY DEF FaxStep, stripVars
<1>2. FaxEolOK
  BY DEF FaxInv
<1> QED BY <1>1, <1>2 DEF FaxEolOK

LEMMA Span1DKeeps == FaxInv /\ OthersIdle /\ Span1D => FaxInv'
<1> SUFFICES ASSUME FaxInv, OthersIdle, Span1D PROVE FaxInv'
  OBVIOUS
<1> DEFINE table == SpanTable[Color(at)]
           ref == dec3.refruns
<1>1. pc = "1D" /\ pc \in RunPcs /\ pc \in {"call"} \cup RowPcs
  BY DEF Span1D, RunPcs, RowPcs
<1>2. PICK l \in Lookup(table) : Expand1D(l.code, l.at)
  BY DEF Span1D
<1>3. table \subseteq FaxCodes
  BY ColorIs, TablesTypes
<1> HIDE DEF table
<1> DEFINE read == l.code
           a == l.at
           used == Consumed(read)
<1>4. /\ read \in FaxCodes /\ dec3.bp + 1 <= Len(stream)
      /\ IsEol(dec3.bp + 1) => read.type = "eol"
  BY <1>1, <1>2, <1>3, CodeRead
<1>5. Between(a, ref) /\ Len(buf) < asked /\ a.pb = at.pb /\ RefIs(ref)
  BY <1>1, <1>2, ReadInto
<1>6. at.pb > 0
  BY <1>1 DEF FaxInv, FaxRowOK
<1>7. /\ used \in DecoderType /\ used.refruns = ref /\ used.bp <= Len(stream)
      /\ used.EOLcnt = dec3.EOLcnt /\ used.seen = dec3.seen
      /\ read # NullCode => used.bp = dec3.bp + 1
  BY <1>4, ConsumedIs
<1> DEFINE usedEol == [used EXCEPT !.EOLcnt = 1]
<1>8. /\ read # NullCode => usedEol \in DecoderType
      /\ usedEol.refruns = ref /\ usedEol.bp = used.bp
      /\ usedEol.EOLcnt = 1 /\ usedEol.seen = dec3.seen
  BY <1>4, ConsumedIs
<1>9. Expand1D(read, a)
  BY <1>2
<1>10. dec3 \in DecoderType /\ dec3.bp <= Len(stream)
  BY DEF FaxInv, FaxDecoderOK
<1>11. Len(ref) \in Nat /\ "1D" \in RunPcs /\ "1D" \in RowPcs /\ "done" \in RowPcs
       /\ "done" \notin RunPcs
  BY <1>5 DEF RefIs, RunPcs, RowPcs
<1> HIDE DEF read, a, used, usedEol, ref
<1>12. \A b : Between(b, ref) => RunsAre(b) /\ PlaceIs(b, ref) /\ b.pb <= Len(ref) + 2
  BY <1>11 DEF Between, PlaceIs, RunsAre, RowType
<1>13. CASE MakeUpRead(read, a)
  <2> DEFINE b == [a EXCEPT !.a0 = @ + read.n, !.RunLength = @ + read.n]
  <2>1. read.type = "makeup" /\ pc' = pc /\ FaxStep(b, used)
    BY <1>13 DEF MakeUpRead, used
  <2>2. read.n \in Nat /\ read # NullCode
    BY <1>4, <2>1, CodeArguments
  <2>3. Between(b, ref) /\ b.pb = a.pb
    <3>1. Between(b, ref)
      BY <1>5, <2>2, MakeUpGrows
    <3> QED BY <1>5, <3>1 DEF Between, RunsAre, RowType
  <2> HIDE DEF b
  <2>4. FaxRowOK'
    BY <1>1, <1>5, <1>6, <1>7, <1>11, <1>12, <2>1, <2>3, RowLeft DEF ref
  <2>5. FaxEolOK' /\ (scheme = "g3" => dec3.EOLcnt = 0)
    BY <1>1, <1>7, <2>1, EolsOf1D
  <2>6. NoRowSkipped'
    BY <1>4, <1>7, <2>1, <2>2, <2>5, EolPassed
  <2> QED BY <1>1, <1>5, <1>7, <1>11, <2>1, <2>4, <2>5, <2>6, RowStep DEF ref
<1>14. CASE read.type = "term" /\ \E b \in {SetValue(a, read.n)} :
          IF b.a0 >= lastx THEN RowDone(b, Consumed(read))
          ELSE UNCHANGED pc /\ FaxStep(WithoutEmpty(b), Consumed(read))
  <2>2. read.n \in Nat /\ read # NullCode
    BY <1>4, <1>14, CodeArguments
  <2> DEFINE b == SetValue(a, read.n)
  <2>3. Between(b, ref) /\ b.pa > 0
    BY <1>5, <2>2, RunEndsBetween
  <2>4. b.pb = a.pb
    BY <1>5 DEF SetValue, Between, RunsAre, RowType
  <2>5. IF b.a0 >= lastx THEN RowDone(b, used)
        ELSE UNCHANGED pc /\ FaxStep(WithoutEmpty(b), used)
    BY <1>14 DEF used
  <2> HIDE DEF b
  <2>6. CASE b.a0 >= lastx
    <3>1. pc' = "done" /\ FaxStep(b, used)
      BY <2>5, <2>6 DEF RowDone
    <3>4. FaxRowOK'
      BY <1>1, <1>5, <1>7, <1>11, <1>12, <2>3, <3>1, RowLeft DEF ref
    <3>5. FaxEolOK' /\ (scheme = "g3" => dec3.EOLcnt = 0)
      BY <1>1, <1>7, <3>1, EolsOf1D
    <3>6. NoRowSkipped'
      BY <1>4, <1>7, <1>14, <2>2, <3>1, <3>5, EolPassed
    <3> QED BY <1>1, <1>5, <1>7, <1>11, <3>1, <3>4, <3>5, <3>6, RowStep DEF ref
  <2>7. CASE ~(b.a0 >= lastx)
    <3> DEFINE c == WithoutEmpty(b)
    <3>1. pc' = pc /\ FaxStep(c, used)
      BY <2>5, <2>7
    <3>2. Between(c, ref) /\ c.pb = b.pb
      BY <1>5, <1>6, <2>3, <2>4, EmptyLeftOut
    <3> HIDE DEF c
    <3>4. FaxRowOK'
      BY <1>1, <1>5, <1>6, <1>7, <1>11, <1>12, <2>4, <3>1, <3>2, RowLeft DEF ref
    <3>5. FaxEolOK' /\ (scheme = "g3" => dec3.EOLcnt = 0)
      BY <1>1, <1>7, <3>1, EolsOf1D
    <3>6. NoRowSkipped'
      BY <1>4, <1>7, <1>14, <2>2, <3>1, <3>5, EolPassed
    <3> QED BY <1>1, <1>5, <1>7, <1>11, <3>1, <3>4, <3>5, <3>6, RowStep DEF ref
  <2> QED BY <2>6, <2>7
<1>15. CASE read.type = "eol" /\ RowDone(a, [Consumed(read) EXCEPT !.EOLcnt = 1])
  <2>1. pc' = "done" /\ FaxStep(a, usedEol)
    BY <1>15 DEF RowDone, used, usedEol
  <2>2. read # NullCode
    BY <1>4, <1>15, CodeArguments
  <2>4. FaxRowOK'
    BY <1>1, <1>5, <1>8, <1>11, <1>12, <2>1, RowLeft DEF ref
  <2>5. FaxEolOK' /\ (scheme = "g3" => dec3.EOLcnt = 0)
    BY <1>1, <1>7, <2>1, EolsOf1D
  <2>6. NoRowSkipped'
    BY <1>7, <1>8, <2>1, <2>2, <2>5, EolPassed
  <2> QED BY <1>1, <1>5, <1>7, <1>8, <1>11, <2>1, <2>2, <2>4, <2>5, <2>6, RowStep DEF ref
<1>16. CASE read.type = "null" /\ RowDone(a, dec3)
  <2>1. pc' = "done" /\ FaxStep(a, dec3)
    BY <1>16 DEF RowDone
  <2>4. FaxRowOK'
    BY <1>1, <1>5, <1>11, <1>12, <2>1, RowLeft DEF ref
  <2>5. FaxEolOK'
    BY <1>1, <2>1, EolsOf1D
  <2>6. NoRowSkipped'
    BY <2>1, EolsKept
  <2> QED BY <1>1, <1>5, <1>10, <1>11, <2>1, <2>4, <2>5, <2>6, RowStep DEF ref
<1> QED BY <1>9, <1>13, <1>14, <1>15, <1>16 DEF Expand1D

\* With two dimensions nothing is promised of EOLs.
LEMMA TwoDimensions ==
  ASSUME FaxInv, pc \in {"2D", "horiz"}, NEW a, NEW dec, FaxStep(a, dec)
  PROVE  FaxEolOK' /\ NoRowSkipped'
<1>1. scheme' = scheme
  BY DEF FaxStep, stripVars
<1> QED BY <1>1 DEF FaxInv, FaxEolOK, NoRowSkipped

\* What is common to the steps that go on in two dimensions or end the row.
LEMMA TurnedKeeps ==
  ASSUME FaxInv, OthersIdle, pc \in {"2D", "horiz"}, Len(buf) < asked,
         NEW a, NEW dec, Next2D(a, dec), Turned(a, dec3.refruns),
         dec \in DecoderType, dec.bp <= Len(stream), dec.refruns = dec3.refruns
  PROVE  FaxInv'
<1>1. FaxRowOK' /\ pc' \in {"2D", "done"} /\ FaxStep(a, dec)
  BY TurnedLeft
<1>2. FaxEolOK' /\ NoRowSkipped'
  BY <1>1, TwoDimensions
<1>3. pc \in {"call"} \cup RowPcs /\ pc' \in RowPcs
  BY <1>1 DEF RowPcs, RunPcs
<1> QED BY <1>1, <1>2, <1>3, RowStep

LEMMA DoneKeeps ==
  ASSUME FaxInv, OthersIdle, pc \in {"2D", "horiz"}, Len(buf) < asked,
         NEW a, NEW dec, FaxStep(a, dec), pc' \in {"done", "eof"},
         \/ RunsAre(a)
         \/ /\ a \in RowType /\ a.pa <= Len(a.runs)
            /\ a.a0 < lastx /\ a.a0 <= Sum(a.runs, a.pa) + a.RunLength,
         a.pb <= Len(dec3.refruns) + 2,
         dec \in DecoderType, dec.bp <= Len(stream), dec.refruns = dec3.refruns
  PROVE  FaxInv'
<1>1. FaxRowOK'
  <2>1. at' = a /\ dec3'.refruns = dec3.refruns
    BY DEF FaxStep
  <2>2. (at.pb <= Len(dec3.refruns) + 2)'
    BY <2>1
  <2> QED BY <2>1, <2>2 DEF FaxRowOK, RunsAre, RunPcs
<1>2. FaxEolOK' /\ NoRowSkipped'
  BY TwoDimensions
<1>3. pc \in {"call"} \cup RowPcs /\ pc' \in RowPcs
  BY DEF RowPcs, RunPcs
<1> QED BY <1>1, <1>2, <1>3, RowStep

LEMMA Code2DKeeps == FaxInv /\ OthersIdle /\ Code2D => FaxInv'
<1> SUFFICES ASSUME FaxInv, OthersIdle, Code2D PROVE FaxInv'
  OBVIOUS
<1> DEFINE ref == dec3.refruns
<1>1. pc = "2D" /\ pc \in RunPcs /\ pc \in {"2D", "horiz"} /\ pc \in {"call"} \cup RowPcs
  BY DEF Code2D, RunPcs, RowPcs
<1>2. PICK l \in Lookup(MainTable) : Expand2D(l.code, l.at)
  BY DEF Code2D
<1> DEFINE read == l.code
           a == l.at
           used == Consumed(read)
           usedEol == [used EXCEPT !.EOLcnt = 1]
<1>3. read \in FaxCodes /\ dec3.bp + 1 <= Len(stream)
  BY <1>1, <1>2, TablesTypes, CodeRead
<1>4. Between(a, ref) /\ Len(buf) < asked /\ a.a0 = at.a0 /\ a.pa = at.pa /\ a.b1 = at.b1
      /\ RefIs(ref)
  BY <1>1, <1>2, ReadInto
<1>5. a.a0 < lastx /\ (a.pa = 0 => a.a0 <= a.b1)
  BY <1>1, <1>4 DEF FaxInv, FaxRowOK
<1>6. used \in DecoderType /\ used.refruns = ref /\ used.bp <= Len(stream)
  BY <1>3, ConsumedIs
<1>7. /\ read.type = "eol" => usedEol \in DecoderType
      /\ usedEol.refruns = ref /\ usedEol.bp <= Len(stream)
  BY <1>3, ConsumedIs, CodeArguments
<1>8. Expand2D(read, a)
  BY <1>2
<1>9. RunsAre(a) /\ PlaceIs(a, ref) /\ a \in RowType /\ Len(ref) \in Nat /\ a.pb \in Nat
  BY <1>4 DEF Between, RunsAre, RowType, RefIs
<1>10. a.pb <= Len(ref) + 2
  BY <1>9 DEF PlaceIs
<1> HIDE DEF read, a, used, usedEol
<1>11. CASE read.type = "pass"
            /\ \E b \in {NextRef(CheckB1(a))} : Next2D(NextRef(Pass(b)), Consumed(read))
  <2> DEFINE b == NextRef(Pass(NextRef(CheckB1(a))))
  <2>1. Next2D(b, used)
    BY <1>11 DEF used
  <2>2. Turned(b, ref)
    BY <1>4, <1>5, PassTurns
  <2> HIDE DEF b
  <2> QED BY <1>1, <1>4, <1>6, <2>1, <2>2, TurnedKeeps
<1>12. CASE read.type = "horiz" /\ pc' = "horiz" /\ FaxStep([a EXCEPT !.left = 2], Consumed(read))
  <2> DEFINE b == [a EXCEPT !.left = 2]
  <2>1. FaxStep(b, used) /\ pc' = "horiz"
    BY <1>12 DEF used
  <2>2. /\ b \in RowType /\ b.left = 2 /\ b.a0 = a.a0 /\ b.pa = a.pa /\ b.pb = a.pb
        /\ b.b1 = a.b1 /\ b.runs = a.runs /\ b.RunLength = a.RunLength
    <3>1. 2 \in 0..2
      OBVIOUS
    <3>2. b \in RowType
      BY <1>9, <3>1 DEF RowType
    <3>3. /\ b.left = 2 /\ b.a0 = a.a0 /\ b.pa = a.pa /\ b.pb = a.pb
          /\ b.b1 = a.b1 /\ b.runs = a.runs /\ b.RunLength = a.RunLength
      BY <1>9 DEF RowType
    <3> QED BY <3>2, <3>3
  <2>3. RunsAre(b) /\ PlaceIs(b, ref)
    BY <1>9, <2>2 DEF RunsAre, PlaceIs
  <2> HIDE DEF b
  <2>4. b.left > 0 /\ b.pb <= Len(ref) + 2 /\ pc' \in RunPcs \cup {"done", "eof"} /\ pc' \in RowPcs
    BY <1>10, <2>1, <2>2 DEF RunPcs, RowPcs
  <2>5. FaxRowOK'
    BY <1>6, <2>1, <2>3, <2>4, RowLeft
  <2>6. FaxEolOK' /\ NoRowSkipped'
    BY <1>1, <2>1, TwoDimensions
  <2> QED BY <1>1, <1>4, <1>6, <2>1, <2>4, <2>5, <2>6, RowStep
<1>13. CASE read.type = "vert" /\ \E b \in {CheckB1(a)} : Vertical(read, b)
  <2> DEFINE b == CheckB1(a)
             n == read.n
  <2>1. Vertical(read, b)
    BY <1>13
  <2>2. n \in Int
    BY <1>3, <1>13, CodeArguments
  <2>3. /\ n >= 0 => Turned(NextRef(Change(b, n)), ref)
        /\ n < 0 /\ ~BadVL(b, n) => Turned(PreviousRef(Change(b, n)), ref)
        /\ RunsAre(b) /\ b.pb <= Len(ref)
    BY <1>4, <1>5, <2>2, VerticalTurns
  <2>4. \/ n >= 0 /\ Next2D(NextRef(Change(b, n)), used)
        \/ n < 0 /\ ~BadVL(b, n) /\ Next2D(PreviousRef(Change(b, n)), used)
        \/ n < 0 /\ BadVL(b, n) /\ RowDone(b, used)
    BY <2>1 DEF Vertical, used
  <2> HIDE DEF b, n
  <2>5. CASE n >= 0 /\ Next2D(NextRef(Change(b, n)), used)
    BY <1>1, <1>4, <1>6, <2>3, <2>5, TurnedKeeps
  <2>6. CASE n < 0 /\ ~BadVL(b, n) /\ Next2D(PreviousRef(Change(b, n)), used)
    BY <1>1, <1>4, <1>6, <2>3, <2>6, TurnedKeeps
  <2>7. CASE n < 0 /\ BadVL(b, n) /\ RowDone(b, used)
    <3>1. pc' \in {"done", "eof"} /\ FaxStep(b, used)
      BY <2>7 DEF RowDone
    <3>2. b.pb <= Len(ref) + 2
      BY <1>9, <2>3, SMTT(30) DEF RunsAre, RowType
    <3> QED BY <1>1, <1>4, <1>6, <2>3, <3>1, <3>2, DoneKeeps
  <2> QED BY <2>4, <2>5, <2>6, <2>7
<1>14. /\ Rest(a) \in RowType /\ Rest(a).pa <= Len(Rest(a).runs)
       /\ Rest(a).pb <= Len(ref) + 2 /\ Rest(a).a0 < lastx
       /\ Rest(a).a0 <= Sum(Rest(a).runs, Rest(a).pa) + Rest(a).RunLength
  BY <1>5, <1>9, <1>10, RestIs
<1>15. CASE read.type \in {"ext", "eol"}
            /\ RowDone(Rest(a), [Consumed(read) EXCEPT !.EOLcnt =
                                    IF read.type = "eol" THEN 1 ELSE @])
  <2>1. pc' \in {"done", "eof"}
    BY <1>15 DEF RowDone
  <2>2. CASE read.type = "eol"
    <3>1. FaxStep(Rest(a), usedEol)
      BY <1>15, <2>2 DEF RowDone, used, usedEol
    <3> QED BY <1>1, <1>4, <1>7, <1>14, <2>1, <2>2, <3>1, DoneKeeps
  <2>3. CASE read.type = "ext"
    <3>1. FaxStep(Rest(a), [used EXCEPT !.EOLcnt = @])
      BY <1>15, <2>3 DEF RowDone, used
    <3>2. [used EXCEPT !.EOLcnt = @] = used
      BY <1>6 DEF DecoderType, DecoderRecords
    <3>3. FaxStep(Rest(a), used)
      BY <3>1, <3>2
    <3> QED BY <1>1, <1>4, <1>6, <1>14, <2>1, <3>3, DoneKeeps
  <2> QED BY <1>15, <2>2, <2>3
<1>16. CASE /\ read.type = "eol" /\ dec3.bp + 1 = Len(stream) /\ Len(stream) \in damaged
            /\ pc' = "eof" /\ FaxStep(Rest(a), Consumed(read))
  <2>1. pc' \in {"done", "eof"} /\ FaxStep(Rest(a), used)
    BY <1>16 DEF used
  <2> QED BY <1>1, <1>4, <1>6, <1>14, <2>1, DoneKeeps
<1> QED BY <1>8, <1>11, <1>12, <1>13, <1>15, <1>16 DEF Expand2D

LEMMA SpanHorizKeeps == FaxInv /\ OthersIdle /\ SpanHoriz => FaxInv'
<1> SUFFICES ASSUME FaxInv, OthersIdle, SpanHoriz PROVE FaxInv'
  OBVIOUS
<1> DEFINE table == SpanTable[Color(at)]
           ref == dec3.refruns
<1>1. pc = "horiz" /\ pc \in RunPcs /\ pc \in {"2D", "horiz"} /\ pc \in {"call"} \cup RowPcs
  BY DEF SpanHoriz, RunPcs, RowPcs
<1>2. PICK l \in Lookup(table) : ExpandHoriz(l.code, l.at)
  BY DEF SpanHoriz
<1>3. table \subseteq FaxCodes
  BY ColorIs, TablesTypes
<1> HIDE DEF table
<1> DEFINE read == l.code
           a == l.at
           used == Consumed(read)
<1>4. read \in FaxCodes /\ dec3.bp + 1 <= Len(stream)
  BY <1>1, <1>2, <1>3, CodeRead
<1>5. Between(a, ref) /\ Len(buf) < asked /\ a.left = at.left /\ RefIs(ref)
  BY <1>1, <1>2, ReadInto
<1>6. a.left > 0
  BY <1>1, <1>5 DEF FaxInv, FaxRowOK
<1>7. used \in DecoderType /\ used.refruns = ref /\ used.bp <= Len(stream)
  BY <1>4, ConsumedIs
<1>8. ExpandHoriz(read, a)
  BY <1>2
<1>9. Len(ref) \in Nat /\ "horiz" \in RunPcs /\ "horiz" \in RowPcs
  BY <1>5 DEF RefIs, RunPcs, RowPcs
<1> HIDE DEF read, a, used
<1>10. \A b : Between(b, ref) => RunsAre(b) /\ PlaceIs(b, ref) /\ b.pb <= Len(ref) + 2
  BY <1>9 DEF Between, PlaceIs, RunsAre, RowType
\* The step goes on with the runs of horizontal mode.
<1>11. ASSUME NEW b, FaxStep(b, used), pc' = pc, Between(b, ref), b.left > 0
       PROVE  FaxInv'
  <2>1. RunsAre(b) /\ PlaceIs(b, ref) /\ b.pb <= Len(ref) + 2
    BY <1>10, <1>11
  <2>2. FaxRowOK'
    BY <1>1, <1>7, <1>9, <1>11, <2>1, RowLeft
  <2>3. FaxEolOK' /\ NoRowSkipped'
    BY <1>1, <1>11, TwoDimensions
  <2> QED BY <1>1, <1>5, <1>7, <1>9, <1>11, <2>2, <2>3, RowStep
<1>12. CASE MakeUpRead(read, a)
  <2> DEFINE b == [a EXCEPT !.a0 = @ + read.n, !.RunLength = @ + read.n]
  <2>1. read.type = "makeup" /\ pc' = pc /\ FaxStep(b, used)
    BY <1>12 DEF MakeUpRead, used
  <2>2. read.n \in Nat
    BY <1>4, <2>1, CodeArguments
  <2>3. Between(b, ref)
    BY <1>5, <2>2, MakeUpGrows
  <2>4. b.left = a.left
    BY <1>5 DEF Between, RunsAre, RowType
  <2> HIDE DEF b
  <2> QED BY <1>6, <1>11, <2>1, <2>3, <2>4
<1>13. CASE read.type = "term"
            /\ \E b \in {[SetValue(a, read.n) EXCEPT !.left = @ - 1]} :
                 IF b.left > 0 THEN UNCHANGED pc /\ FaxStep(b, Consumed(read))
                               ELSE Next2D(CheckB1(b), Consumed(read))
  <2> DEFINE b == [SetValue(a, read.n) EXCEPT !.left = @ - 1]
  <2>1. IF b.left > 0 THEN UNCHANGED pc /\ FaxStep(b, used) ELSE Next2D(CheckB1(b), used)
    BY <1>13 DEF used
  <2>2. read.n \in Nat
    BY <1>4, <1>13, CodeArguments
  <2>3. Between(b, ref) /\ Turned(CheckB1(b), ref)
    BY <1>5, <1>6, <2>2, HorizTurns
  <2> HIDE DEF b
  <2>4. CASE b.left > 0
    BY <1>11, <2>1, <2>3, <2>4
  <2>5. CASE ~(b.left > 0)
    BY <1>1, <1>5, <1>7, <2>1, <2>3, <2>5, TurnedKeeps
  <2> QED BY <2>4, <2>5
<1>14. CASE read.type \in {"eol", "null"} /\ RowDone(a, Consumed(read))
  <2>1. pc' \in {"done", "eof"} /\ FaxStep(a, used)
    BY <1>14 DEF RowDone, used
  <2> QED BY <1>1, <1>5, <1>7, <1>10, <2>1, DoneKeeps
<1> QED BY <1>8, <1>12, <1>13, <1>14 DEF ExpandHoriz

\* The data end.
LEMMA DataEndKeeps == FaxInv /\ OthersIdle /\ DataEnd => FaxInv'
<1> SUFFICES ASSUME FaxInv, OthersIdle, DataEnd PROVE FaxInv'
  OBVIOUS
<1> DEFINE a == [at EXCEPT !.no = -1]
<1>1. pc \in RunPcs /\ pc' = "eof" /\ FaxStep(a, dec3) /\ pc \in {"call"} \cup RowPcs
      /\ pc' \in RunPcs \cup {"done", "eof"} /\ pc' \in RowPcs /\ pc' \notin RunPcs
  BY DEF DataEnd, RunPcs, RowPcs
<1>2. /\ at \in RowType /\ at.pa <= Len(at.runs) /\ Len(buf) < asked
      /\ at.a0 = Sum(at.runs, at.pa) + at.RunLength /\ at.pb <= Len(dec3.refruns) + 2
      /\ dec3 \in DecoderType /\ dec3.bp <= Len(stream)
  BY <1>1 DEF FaxInv, FaxRowOK, FaxDecoderOK, FaxClientOK, RowPcs
<1>3. /\ a \in RowType /\ a.a0 = at.a0 /\ a.pa = at.pa /\ a.pb = at.pb
      /\ a.runs = at.runs /\ a.RunLength = at.RunLength
  <2>1. a \in RowType
    BY <1>2, -1 \in Int DEF RowType
  <2>2. /\ a.a0 = at.a0 /\ a.pa = at.pa /\ a.pb = at.pb
        /\ a.runs = at.runs /\ a.RunLength = at.RunLength
    BY <1>2 DEF RowType
  <2> QED BY <2>1, <2>2
<1> HIDE DEF a
<1>4. RunsAre(a) /\ a.pb <= Len(dec3.refruns) + 2
  BY <1>2, <1>3 DEF RunsAre
<1>5. FaxRowOK'
  BY <1>1, <1>4, RowLeft
<1>6. NoRowSkipped'
  BY <1>1, EolsKept
<1>7. FaxEolOK'
  <2>1. scheme' = scheme
    BY <1>1 DEF FaxStep, stripVars
  <2> QED BY <1>1, <2>1 DEF FaxInv, FaxEolOK
<1> QED BY <1>1, <1>2, <1>5, <1>6, <1>7, RowStep

\* A row begins: the first run of the reference line is passed.
LEMMA NewRowIs ==
  ASSUME FaxInv, NEW no \in Int
  PROVE  /\ Between(NewRow(no), dec3.refruns) /\ NewRow(no).pb = 1
         /\ NewRow(no).a0 = 0 /\ NewRow(no).pa = 0
         /\ NewRow(no).pb <= Len(dec3.refruns) + 2
         /\ RunsAre(NewRow(no))
         /\ NewRow(no).a0 < lastx /\ NewRow(no).a0 <= NewRow(no).b1
<1> DEFINE ref == dec3.refruns
           r == Run(ref, 0)
           cur == dec3.curruns
           a == [StartFaxRow EXCEPT !.b1 = r, !.pb = 1, !.runs = cur, !.no = no]
<1>1. /\ ref \in Seq(Nat) /\ cur \in Seq(Nat) /\ RefIs(ref) /\ Len(ref) \in Nat
      /\ Len(cur) \in Nat /\ lastx \in Nat /\ lastx > 0
  BY CodecAssumption DEF FaxInv, FaxDecoderOK, DecoderType, DecoderRecords, lastx
<1>2. NewRow(no) = a
  BY DEF NewRow
<1>3. r \in Nat
  BY <1>1, RunType
<1>4. Sum(ref, 1) = r /\ Sum(cur, 0) = 0
  <2>1. Sum(ref, 0 + 1) = Sum(ref, 0) + Run(ref, 0) /\ Sum(ref, 0) = 0
    BY <1>1, SumRange
  <2>2. Sum(cur, 0) = 0
    BY <1>1, SumRange
  <2> QED BY <1>3, <2>1, <2>2
<1> HIDE DEF r, cur
<1>5. a \in RowType
  <2>1. StartFaxRow \in RowType
    BY FaxStart
  <2> QED BY <1>1, <1>3, <2>1 DEF RowType
<1>6. a.a0 = 0 /\ a.b1 = r /\ a.pb = 1 /\ a.pa = 0 /\ a.RunLength = 0 /\ a.runs = cur
  BY DEF StartFaxRow
<1> HIDE DEF a
<1>7. Len(ref) >= 1
  <2>1. PICK e \in 0..(Len(ref) - 1) : Sum(ref, e) >= lastx
    BY <1>1 DEF RefIs
  <2> QED BY <1>1, <2>1
<1>8. RunsAre(a)
  BY <1>1, <1>4, <1>5, <1>6 DEF RunsAre
<1>9. PlaceIs(a, ref)
  BY <1>4, <1>6, <1>7 DEF PlaceIs
<1> QED BY <1>1, <1>2, <1>3, <1>6, <1>8, <1>9 DEF Between

LEMMA RowBegins ==
  ASSUME FaxInv, NEW no \in Int, NEW dec, FaxStep(NewRow(no), dec),
         dec.refruns = dec3.refruns, pc' \in {"1D", "2D", "eof"}
  PROVE  FaxRowOK'
<1>1. /\ Between(NewRow(no), dec3.refruns) /\ NewRow(no).pb = 1
      /\ NewRow(no).pb <= Len(dec3.refruns) + 2
      /\ RunsAre(NewRow(no))
      /\ NewRow(no).a0 < lastx /\ NewRow(no).a0 <= NewRow(no).b1
  BY NewRowIs
<1>2. PlaceIs(NewRow(no), dec3.refruns) /\ NewRow(no).pb > 0
  BY <1>1 DEF Between
<1>3. pc' \in RunPcs \cup {"done", "eof"} /\ pc' # "horiz"
  BY DEF RunPcs
<1> QED BY <1>1, <1>2, <1>3, RowLeft

LEMMA Asking ==
  ASSUME FaxInv, occ > 0
  PROVE  Len(buf) < asked
<1>1. asked \in Int /\ Len(buf) \in Nat
  <2>1. asked \in Int
    <3>1. StripSize \in Int
      BY DEF StripSize, FaxInv, FaxStripOK
    <3> QED BY <3>1 DEF FaxInv, FaxClientOK
  <2>2. Len(buf) \in Nat
    BY DEF FaxInv, FaxClientOK, IsSeq
  <2> QED BY <2>1, <2>2
<1> QED BY <1>1 DEF occ

LEMMA BeginRowKeeps == FaxInv /\ OthersIdle /\ BeginRow => FaxInv'
<1> SUFFICES ASSUME FaxInv, OthersIdle, BeginRow PROVE FaxInv'
  OBVIOUS
<1>1. /\ pc = "call" /\ occ > 0 /\ pc' \in {"1D", "2D"} /\ scheme # "g3"
      /\ FaxStep(NewRow(NextNo), dec3)
  BY DEF BeginRow, HasEol
<1>2. dec3 \in DecoderType /\ dec3.bp <= Len(stream) /\ dec3.refno \in Int
  BY DEF FaxInv, FaxDecoderOK, DecoderType, DecoderRecords
<1>3. NextNo \in Int
  BY <1>2 DEF NextNo
<1>4. Len(buf) < asked
  BY <1>1, Asking
<1>5. FaxRowOK'
  BY <1>1, <1>3, RowBegins
<1>6. FaxEolOK' /\ NoRowSkipped'
  <2>1. scheme' = scheme
    BY <1>1 DEF FaxStep, stripVars
  <2> QED BY <1>1, <2>1 DEF FaxEolOK, NoRowSkipped
<1>7. pc' \in RowPcs
  BY <1>1 DEF RowPcs, RunPcs
<1> QED BY <1>1, <1>2, <1>4, <1>5, <1>6, <1>7, RowStep

LEMMA SyncKeeps == FaxInv /\ OthersIdle /\ Sync => FaxInv'
<1> SUFFICES ASSUME FaxInv, OthersIdle, Sync PROVE FaxInv'
  OBVIOUS
<1>1. pc = "call" /\ occ > 0 /\ Len(buf) < asked
  BY Asking DEF Sync
<1>2. PICK i \in EolToUse : \E is1D \in Tags(i) :
        /\ pc' = IF is1D THEN "1D" ELSE "2D"
        /\ LET known == IsEol(i) /\ (is1D \/ stream[i].n = NextNo)
           IN  FaxStep(NewRow(IF known THEN stream[i].n ELSE -1),
                       [dec3 EXCEPT !.EOLcnt = 0, !.bp = i,
                                    !.seen = IF IsEol(i) THEN @ \cup {stream[i].n} ELSE @])
  BY DEF Sync
<1>3. /\ dec3 \in DecoderType /\ dec3.bp \in Nat /\ dec3.bp <= Len(stream)
      /\ dec3 \in DecoderRecords /\ dec3.seen \subseteq Nat
      /\ dec3.EOLcnt \in {0, 1} /\ (dec3.EOLcnt = 1 => dec3.bp > 0)
      /\ stream \in Seq(FaxCodes) /\ Len(stream) \in Nat
  BY DEF FaxInv, FaxStripOK, FaxDecoderOK, DecoderType, DecoderRecords
<1>4. /\ dec3.EOLcnt = 1 => i = dec3.bp
      /\ dec3.EOLcnt # 1 => /\ i \in (dec3.bp + 1)..Len(stream)
                            /\ \A j \in (dec3.bp + 1)..(i - 1) : ~IsEol(j)
  BY <1>2 DEF EolToUse, Candidates
<1>5. i \in 1..Len(stream)
  BY <1>3, <1>4
<1>6. IsEol(i) => stream[i].n \in Nat
  <2>1. SUFFICES ASSUME IsEol(i) PROVE stream[i].n \in Nat
    OBVIOUS
  <2>2. stream[i] \in FaxCodes /\ stream[i].type = "eol"
    BY <1>3, <1>5, <2>1 DEF IsEol
  <2> QED BY <2>2 DEF FaxCodes, PassCode, HorizCode, ExtCode, NullCode
<1> DEFINE seen == IF IsEol(i) THEN dec3.seen \cup {stream[i].n} ELSE dec3.seen
           dec == [dec3 EXCEPT !.EOLcnt = 0, !.bp = i, !.seen = seen]
<1>7. \E is1D \in Tags(i), no \in Int : /\ pc' = IF is1D THEN "1D" ELSE "2D"
                                        /\ FaxStep(NewRow(no), dec)
  <2>1. PICK is1D \in Tags(i) :
          /\ pc' = IF is1D THEN "1D" ELSE "2D"
          /\ FaxStep(NewRow(IF IsEol(i) /\ (is1D \/ stream[i].n = NextNo)
                            THEN stream[i].n ELSE -1), dec)
    BY <1>2
  <2>2. (IF IsEol(i) /\ (is1D \/ stream[i].n = NextNo) THEN stream[i].n ELSE -1) \in Int
    BY <1>6
  <2> HIDE DEF dec
  <2> QED BY <2>1, <2>2
<1>8. seen \subseteq Nat /\ (IsEol(i) => stream[i].n \in seen) /\ dec3.seen \subseteq seen
  BY <1>3, <1>6
<1>9. dec \in DecoderRecords /\ dec.EOLcnt = 0 /\ dec.bp = i /\ dec.seen = seen
      /\ dec.refruns = dec3.refruns
  <2> HIDE DEF seen
  <2>1. i \in Nat
    BY <1>5
  <2>2. dec \in DecoderRecords
    BY <1>3, <1>8, <2>1 DEF DecoderRecords
  <2>3. dec.EOLcnt = 0 /\ dec.bp = i /\ dec.seen = seen /\ dec.refruns = dec3.refruns
    BY <1>3 DEF DecoderRecords
  <2> QED BY <2>2, <2>3
<1> HIDE DEF seen, dec
<1>10. dec \in DecoderType /\ dec.bp <= Len(stream)
  BY <1>3, <1>5, <1>9 DEF DecoderType
<1>11. PICK is1D \in Tags(i) : \E no \in Int : /\ pc' = IF is1D THEN "1D" ELSE "2D"
                                               /\ FaxStep(NewRow(no), dec)
  BY <1>7
<1>12. PICK no \in Int : FaxStep(NewRow(no), dec)
  BY <1>11
<1>13. pc' \in {"1D", "2D", "eof"} /\ pc' \in RowPcs /\ pc \in {"call"} \cup RowPcs
  BY <1>1, <1>11 DEF RowPcs, RunPcs
<1>14. FaxRowOK'
  BY <1>9, <1>12, <1>13, RowBegins
<1>15. scheme' = scheme /\ stream' = stream /\ damaged' = damaged /\ dec3' = dec
  BY <1>12 DEF FaxStep, stripVars
<1>16. FaxEolOK'
  <2>1. scheme = "g3" => is1D = TRUE
    BY <1>11 DEF Tags
  <2>2. scheme = "g3" => pc' = "1D"
    BY <1>11, <2>1
  <2> QED BY <1>9, <1>15, <2>2 DEF FaxEolOK
<1>17. NoRowSkipped'
  <2>1. SUFFICES ASSUME scheme = "g3", NEW j \in 1..i, IsEol(j)
                 PROVE  stream[j].n \in seen
    <3>1. \A j : IsEol(j)' = IsEol(j)
      BY <1>15 DEF IsEol
    <3> QED BY <1>9, <1>15, <3>1 DEF NoRowSkipped
  <2>2. \A k \in 1..dec3.bp : IsEol(k) /\ ~(k = dec3.bp /\ dec3.EOLcnt = 1)
                                => stream[k].n \in dec3.seen
    BY <2>1 DEF FaxInv, NoRowSkipped
  <2>3. CASE j = i
    BY <1>8, <2>1, <2>3
  <2>4. CASE j # i
    <3>1. j \in Nat /\ 1 <= j /\ j < i
      BY <1>5, <2>4
    <3>2. j <= dec3.bp
      <4>1. CASE dec3.EOLcnt = 1
        BY <1>3, <1>4, <3>1, <4>1
      <4>2. CASE dec3.EOLcnt # 1
        <5>1. j \notin (dec3.bp + 1)..(i - 1)
          BY <1>4, <2>1, <4>2
        <5> QED BY <1>3, <1>5, <3>1, <5>1
      <4> QED BY <4>1, <4>2
    <3>3. j \in 1..dec3.bp /\ ~(j = dec3.bp /\ dec3.EOLcnt = 1)
      BY <1>3, <1>4, <3>1, <3>2
    <3> QED BY <1>8, <2>1, <2>2, <3>3
  <2> QED BY <2>3, <2>4
<1> QED BY <1>1, <1>9, <1>10, <1>12, <1>13, <1>14, <1>16, <1>17, RowStep

LEMMA SyncFailsKeeps == FaxInv /\ OthersIdle /\ SyncFails => FaxInv'
<1> SUFFICES ASSUME FaxInv, OthersIdle, SyncFails PROVE FaxInv'
  OBVIOUS
<1> DEFINE end == Len(stream)
           dec == [dec3 EXCEPT !.bp = end]
<1>1. /\ pc = "call" /\ occ > 0 /\ Len(buf) < asked /\ pc' = "eof"
      /\ FaxStep(NewRow(-1), dec)
  BY Asking DEF SyncFails
<1>2. /\ dec3 \in DecoderType /\ dec3.bp \in Nat /\ dec3.bp <= Len(stream)
      /\ dec3 \in DecoderRecords /\ dec3.EOLcnt \in {0, 1}
      /\ (dec3.EOLcnt = 1 => dec3.bp > 0)
      /\ stream \in Seq(FaxCodes) /\ Len(stream) \in Nat
  BY DEF FaxInv, FaxStripOK, FaxDecoderOK, DecoderType, DecoderRecords
<1>3. /\ dec3.EOLcnt = 1 => dec3.bp = end
      /\ dec3.EOLcnt # 1 => \A i \in (dec3.bp + 1)..end : ~IsEol(i)
  BY DEF SyncFails, AtEnd
<1>4. end \in Nat
  BY <1>2
<1> HIDE DEF end
<1>5. dec \in DecoderRecords
  BY <1>2, <1>4 DEF DecoderRecords
<1>6. dec.EOLcnt = dec3.EOLcnt /\ dec.bp = end /\ dec.seen = dec3.seen
      /\ dec.refruns = dec3.refruns
  BY <1>2 DEF DecoderRecords
<1> HIDE DEF dec
<1>7. dec \in DecoderType /\ dec.bp <= Len(stream)
  BY <1>2, <1>3, <1>4, <1>5, <1>6 DEF DecoderType, end
<1>8. pc' \in {"1D", "2D", "eof"} /\ pc' \in RowPcs /\ pc \in {"call"} \cup RowPcs
  BY <1>1 DEF RowPcs, RunPcs
<1>9. FaxRowOK'
  BY <1>1, <1>6, <1>8, RowBegins
<1>10. scheme' = scheme /\ stream' = stream /\ damaged' = damaged /\ dec3' = dec
  BY <1>1 DEF FaxStep, stripVars
<1>11. FaxEolOK'
  BY <1>1, <1>10 DEF FaxEolOK
<1>12. NoRowSkipped'
  <2>1. SUFFICES ASSUME scheme = "g3", NEW j \in 1..end, IsEol(j),
                        ~(j = end /\ dec3.EOLcnt = 1)
                 PROVE  stream[j].n \in dec3.seen
    <3>1. \A j : IsEol(j)' = IsEol(j)
      BY <1>10 DEF IsEol
    <3> QED BY <1>6, <1>10, <3>1 DEF NoRowSkipped
  <2>2. \A k \in 1..dec3.bp : IsEol(k) /\ ~(k = dec3.bp /\ dec3.EOLcnt = 1)
                                => stream[k].n \in dec3.seen
    BY <2>1 DEF FaxInv, NoRowSkipped
  <2>3. j \in 1..dec3.bp /\ ~(j = dec3.bp /\ dec3.EOLcnt = 1)
    <3>1. CASE dec3.EOLcnt = 1
      BY <1>3, <2>1, <3>1
    <3>2. CASE dec3.EOLcnt # 1
      <4>1. j \notin (dec3.bp + 1)..end
        BY <1>3, <2>1, <3>2
      <4> QED BY <1>2, <1>4, <3>2, <4>1
    <3> QED BY <3>1, <3>2
  <2> QED BY <2>1, <2>2, <2>3
<1> QED BY <1>1, <1>6, <1>7, <1>8, <1>9, <1>11, <1>12, RowStep

-----------------------------------------------------------------------------
(***************************************************************************)
(* The end of a row.                                                       *)
(***************************************************************************)
LEMMA MaxOf ==
  ASSUME NEW S \in SUBSET Nat, S # {}, NEW n \in Nat, \A i \in S : i <= n
  PROVE  Max(S) \in S /\ \A i \in S : Max(S) >= i
<1> DEFINE U == {u \in Nat : \A i \in S : i <= u}
<1>1. U \in SUBSET Nat /\ n \in U
  OBVIOUS
<1>2. PICK m \in U : \A u \in U : m <= u
  <2> HIDE DEF U
  <2> QED BY <1>1, LeastOf
<1>3. m \in Nat /\ \A i \in S : i <= m
  BY <1>2
<1>4. m \in S
  <2>1. SUFFICES ASSUME m \notin S PROVE FALSE
    OBVIOUS
  <2>2. m > 0
    <3>1. PICK i \in S : i <= m
      BY <1>3
    <3> QED BY <1>3, <2>1, <3>1
  <2>3. m - 1 \in Nat /\ ~(m <= m - 1)
    BY <1>3, <2>2
  <2>4. \A i \in S : i <= m - 1
    BY <1>3, <2>1
  <2>5. m - 1 \in U
    BY <2>3, <2>4
  <2> QED BY <1>2, <2>3, <2>5
<1>5. \E x \in S : \A y \in S : x >= y
  BY <1>3, <1>4
<1> QED BY <1>5 DEF Max

\* A row that has ended: where its runs go to.
EndsAt(a) == /\ a \in RowType /\ a.pa <= Len(a.runs)
             /\ \/ a.a0 = Sum(a.runs, a.pa) + a.RunLength
                \/ a.a0 < lastx /\ a.a0 <= Sum(a.runs, a.pa) + a.RunLength

LEMMA EndedIs ==
  ASSUME NEW a, EndsAt(a)
  PROVE  EndsAt(Ended(a)) /\ Ended(a).RunLength = 0 /\ Ended(a).pb = a.pb
<1>1. a \in RowType /\ a.pa <= Len(a.runs)
  BY DEF EndsAt
<1>2. /\ a.a0 \in Nat /\ a.RunLength \in Nat /\ a.pa \in Nat /\ Sum(a.runs, a.pa) \in Nat
  BY <1>1, RowNumbers
<1>3. CASE a.RunLength > 0
  <2> DEFINE b == SetValue(a, 0)
  <2>1. a.RunLength + 0 \in Nat /\ a.a0 + 0 \in Nat /\ 0 \in Int
    BY <1>2
  <2>2. /\ b \in RowType /\ b.pa <= Len(b.runs) /\ b.a0 = a.a0 + 0 /\ b.RunLength = 0
        /\ b.pa = a.pa + 1 /\ b.pb = a.pb
        /\ Sum(b.runs, a.pa + 1) = Sum(a.runs, a.pa) + (a.RunLength + 0)
    BY <1>1, <2>1, SetValueIs
  <2>3. Ended(a) = b
    BY <1>3 DEF Ended
  <2> HIDE DEF b
  <2>4. Sum(b.runs, b.pa) = Sum(a.runs, a.pa) + a.RunLength /\ b.a0 = a.a0
    BY <1>2, <2>2
  <2>5. /\ Sum(b.runs, b.pa) + b.RunLength = Sum(a.runs, a.pa) + a.RunLength
    BY <1>2, <2>2, <2>4
  <2>6. EndsAt(b)
    BY <2>2, <2>4, <2>5 DEF EndsAt
  <2> QED BY <2>2, <2>3, <2>6
<1>4. CASE ~(a.RunLength > 0)
  BY <1>2, <1>4 DEF Ended
<1> QED BY <1>3, <1>4

\* What is dropped are runs beyond the row; the rest ends within it.
LEMMA DroppedIs ==
  ASSUME NEW a, EndsAt(a), a.RunLength = 0
  PROVE  /\ Dropped(a) \in RowType /\ Dropped(a).pa <= Len(Dropped(a).runs)
         /\ Dropped(a).RunLength = 0 /\ Dropped(a).pb = a.pb
         /\ Dropped(a).a0 <= lastx
         /\ Dropped(a).a0 <= Sum(Dropped(a).runs, Dropped(a).pa)
<1> DEFINE end(i) == a.a0 - SumRuns(a.runs, i, a.pa)
           P == {0} \cup {i \in 0..a.pa : end(i) <= lastx}
           pa == Max(P)
           d == [a EXCEPT !.a0 = end(pa), !.pa = pa]
<1>1. a \in RowType /\ a.pa <= Len(a.runs)
  BY DEF EndsAt
<1>2. /\ a.a0 \in Nat /\ a.pa \in Nat /\ Sum(a.runs, a.pa) \in Nat /\ a.runs \in Seq(Nat)
      /\ lastx \in Nat /\ Len(a.runs) \in Nat
  BY <1>1, RowNumbers, CodecAssumption DEF lastx
<1>3. \A i \in 0..a.pa : /\ Sum(a.runs, a.pa) = Sum(a.runs, i) + SumRuns(a.runs, i, a.pa)
                         /\ Sum(a.runs, i) \in Nat /\ SumRuns(a.runs, i, a.pa) \in Nat
  <2>1. SUFFICES ASSUME NEW i \in 0..a.pa
                 PROVE  /\ Sum(a.runs, a.pa) = Sum(a.runs, i) + SumRuns(a.runs, i, a.pa)
                        /\ Sum(a.runs, i) \in Nat /\ SumRuns(a.runs, i, a.pa) \in Nat
    OBVIOUS
  <2>2. i \in Nat /\ 0 <= i /\ i <= a.pa
    BY <1>2
  <2>3. SumRuns(a.runs, 0, a.pa) = SumRuns(a.runs, 0, i) + SumRuns(a.runs, i, a.pa)
    BY <1>2, <2>2, SumSplit
  <2>4. SumRuns(a.runs, i, a.pa) \in Nat
    BY <1>2, <2>2, SumStep
  <2>5. Sum(a.runs, i) \in Nat
    BY <1>2, <2>2, SumRange
  <2> QED BY <2>3, <2>4, <2>5 DEF Sum
<1>4. pa \in P /\ \A i \in P : pa >= i
  <2>1. P \in SUBSET Nat /\ P # {} /\ \A i \in P : i <= a.pa
    BY <1>2
  <2> HIDE DEF P
  <2> QED BY <1>2, <2>1, MaxOf
<1>5. Dropped(a) = d
  BY DEF Dropped
<1>6. pa \in 0..a.pa /\ (pa = 0 \/ end(pa) <= lastx)
  <2> HIDE DEF pa, end
  <2> QED BY <1>2, <1>4
<1>7. end(pa) \in Nat /\ end(pa) <= lastx /\ end(pa) <= Sum(a.runs, pa)
  <2>1. CASE a.a0 = Sum(a.runs, a.pa)
    <3>1. end(pa) = Sum(a.runs, pa) /\ Sum(a.runs, pa) \in Nat
      <4> HIDE DEF pa
      <4> QED BY <1>2, <1>3, <1>6, <2>1
    <3>2. Sum(a.runs, 0) = 0
      BY <1>2, SumRange
    <3> HIDE DEF pa, end
    <3> QED BY <1>2, <1>6, <3>1, <3>2
  <2>2. CASE a.a0 # Sum(a.runs, a.pa)
    <3>1. a.a0 < lastx /\ a.a0 <= Sum(a.runs, a.pa)
      BY <1>2, <2>2 DEF EndsAt
    <3>2. SumRuns(a.runs, a.pa, a.pa) = 0
      <4>1. a.pa <= a.pa
        BY <1>2
      <4> QED BY <1>2, <4>1, SumStep
    <3>3. end(a.pa) = a.a0
      BY <1>2, <3>2
    <3>4. a.pa \in P
      BY <1>2, <3>1, <3>3
    <3>5. pa = a.pa
      <4> HIDE DEF pa, P
      <4> QED BY <1>2, <1>4, <1>6, <3>4
    <3> HIDE DEF pa, end
    <3> QED BY <1>2, <3>1, <3>3, <3>5
  <2> QED BY <2>1, <2>2
<1> HIDE DEF pa, end, P
<1>8. d \in RowType
  <2>1. pa \in Nat
    BY <1>2, <1>6
  <2> QED BY <1>1, <1>7, <2>1 DEF RowType
<1>9. d.a0 = end(pa) /\ d.pa = pa /\ d.runs = a.runs /\ d.RunLength = a.RunLength
      /\ d.pb = a.pb
  BY <1>1 DEF RowType
<1> HIDE DEF d
<1>10. d.pa <= Len(d.runs)
  BY <1>1, <1>2, <1>6, <1>9
<1> QED BY <1>5, <1>7, <1>8, <1>9, <1>10

\* What is left of the row is a run too.
LEMMA FilledIs ==
  ASSUME NEW a \in RowType, a.pa <= Len(a.runs), a.RunLength = 0,
         a.a0 < lastx, a.a0 <= Sum(a.runs, a.pa)
  PROVE  /\ Filled(a) \in RowType /\ Filled(a).pa <= Len(Filled(a).runs)
         /\ Filled(a).pb = a.pb
         /\ Sum(Filled(a).runs, Filled(a).pa) >= lastx
<1> DEFINE b == IF a.pa % 2 = 1 THEN SetValue(a, 0) ELSE a
           n == lastx - b.a0
           c == SetValue(b, n)
<1>1. a.a0 \in Nat /\ a.pa \in Nat /\ Sum(a.runs, a.pa) \in Nat /\ lastx \in Nat
  BY RowNumbers, CodecAssumption DEF lastx
<1>2. /\ b \in RowType /\ b.pa <= Len(b.runs) /\ b.RunLength = 0 /\ b.a0 = a.a0
      /\ b.pb = a.pb /\ Sum(b.runs, b.pa) = Sum(a.runs, a.pa)
  <2>1. CASE a.pa % 2 = 1
    <3> DEFINE v == SetValue(a, 0)
    <3>1. a.RunLength + 0 \in Nat /\ a.a0 + 0 \in Nat /\ 0 \in Int
      BY <1>1
    <3>2. /\ v \in RowType /\ v.pa <= Len(v.runs) /\ v.a0 = a.a0 + 0 /\ v.RunLength = 0
          /\ v.pa = a.pa + 1 /\ v.pb = a.pb
          /\ Sum(v.runs, a.pa + 1) = Sum(a.runs, a.pa) + (a.RunLength + 0)
      BY <3>1, SetValueIs
    <3>3. b = v
      BY <2>1
    <3> HIDE DEF v, b
    <3> QED BY <1>1, <3>2, <3>3
  <2>2. CASE ~(a.pa % 2 = 1)
    BY <2>2
  <2> QED BY <2>1, <2>2
<1>3. Filled(a) = c
  <2>1. n = lastx - a.a0
    BY <1>2
  <2> QED BY <2>1 DEF Filled
<1> HIDE DEF b
<1>4. n \in Nat /\ b.RunLength + n \in Nat /\ b.a0 + n \in Nat
      /\ Sum(b.runs, b.pa) + (b.RunLength + n) >= lastx /\ n \in Int
  BY <1>1, <1>2
<1> HIDE DEF n
<1>5. /\ c \in RowType /\ c.pa <= Len(c.runs) /\ c.pa = b.pa + 1 /\ c.pb = b.pb
      /\ Sum(c.runs, b.pa + 1) = Sum(b.runs, b.pa) + (b.RunLength + n)
  BY <1>2, <1>4, SetValueIs
<1> HIDE DEF c
<1> QED BY <1>2, <1>3, <1>4, <1>5

LEMMA CleanUpKeeps == FaxInv /\ OthersIdle /\ CleanUp => FaxInv'
<1> SUFFICES ASSUME FaxInv, OthersIdle, CleanUp PROVE FaxInv'
  OBVIOUS
<1> DEFINE b == Ended(at)
           d == Dropped(b)
           e == IF d.a0 < lastx THEN Filled(d) ELSE IF d.a0 > lastx THEN OnlyRun(d) ELSE d
<1>1. /\ pc \in {"done", "eof"} /\ pc' \in {"fill", "fillLast"} /\ FaxStep(e, dec3)
  BY DEF CleanUp
<1>2. /\ EndsAt(at) /\ at.pb <= Len(dec3.refruns) + 2 /\ Len(buf) < asked
      /\ dec3 \in DecoderType /\ dec3.bp <= Len(stream)
  BY <1>1 DEF FaxInv, FaxRowOK, FaxClientOK, FaxDecoderOK, RowPcs, EndsAt
<1>3. EndsAt(b) /\ b.RunLength = 0 /\ b.pb = at.pb
  BY <1>2, EndedIs
<1> HIDE DEF b
<1>4. /\ d \in RowType /\ d.pa <= Len(d.runs) /\ d.RunLength = 0 /\ d.pb = b.pb
      /\ d.a0 <= lastx /\ d.a0 <= Sum(d.runs, d.pa)
  BY <1>3, DroppedIs
<1> HIDE DEF d
<1>5. d.a0 \in Nat /\ Sum(d.runs, d.pa) \in Nat /\ lastx \in Nat
  BY <1>4, RowNumbers, CodecAssumption DEF lastx
<1>6. /\ e \in RowType /\ e.pa <= Len(e.runs) /\ e.pb = at.pb
      /\ Sum(e.runs, e.pa) >= lastx
  <2>1. CASE d.a0 < lastx
    BY <1>3, <1>4, <2>1, FilledIs
  <2>2. CASE d.a0 = lastx
    BY <1>3, <1>4, <1>5, <2>2
  <2> QED BY <1>4, <1>5, <2>1, <2>2
<1> HIDE DEF e
<1>7. FaxRowOK'
  <2>1. at' = e /\ dec3' = dec3
    BY <1>1 DEF FaxStep
  <2>2. (at.pb <= Len(dec3.refruns) + 2)' /\ pc' \notin RunPcs
    BY <1>1, <1>2, <1>6, <2>1 DEF RunPcs
  <2> QED BY <1>1, <1>6, <2>1, <2>2 DEF FaxRowOK, RunPcs
<1>8. NoRowSkipped'
  BY <1>1, EolsKept
<1>9. FaxEolOK'
  <2>1. scheme' = scheme
    BY <1>1 DEF FaxStep, stripVars
  <2> QED BY <1>1, <2>1 DEF FaxInv, FaxEolOK
<1>10. pc \in {"call"} \cup RowPcs /\ pc' \in RowPcs
  BY <1>1 DEF RowPcs
<1> QED BY <1>1, <1>2, <1>7, <1>8, <1>9, <1>10, RowStep

\* The pixels of a row.
LEMMA PixelsAre == IsSeq(Pixels(at)) /\ Len(Pixels(at)) = RowSize
<1> DEFINE row == Pixels(at)
<1>1. lastx \in Nat /\ lastx = RowSize
  BY CodecAssumption DEF lastx
<1>2. row = [x \in 1..lastx |-> row[x]]
  BY DEF Pixels
<1> HIDE DEF row
<1>3. IsSeq(row) /\ Len(row) = lastx
  BY <1>1, <1>2, FunctionIsSeq
<1> QED BY <1>1, <1>3 DEF row

LEMMA PixelsJoined ==
  ASSUME FaxInv, pc \in RowPcs
  PROVE  /\ IsSeq(buf \o Pixels(at)) /\ WholeRows(Len(buf \o Pixels(at)))
         /\ Len(buf \o Pixels(at)) <= asked
<1>1. IsSeq(buf) /\ WholeRows(Len(buf)) /\ WholeRows(asked) /\ Len(buf) < asked
      /\ asked \in 0..StripSize
  BY DEF FaxInv, FaxClientOK
<1>2. StripSize \in Nat
  BY DEF FaxInv, FaxStripOK, StripSize
<1>3. /\ IsSeq(buf \o Pixels(at)) /\ Len(buf) \in Nat
      /\ Len(buf \o Pixels(at)) = Len(buf) + RowSize
  BY <1>1, PixelsAre, SeqsJoined
<1>4. asked \in Nat
  BY <1>1, <1>2
<1>5. WholeRows(Len(buf) + RowSize) /\ Len(buf) + RowSize <= asked
  BY <1>1, <1>3, <1>4, RowsAdded
<1> QED BY <1>3, <1>5

\* What the filled row leaves to the next.
LEMMA RowLeaves ==
  ASSUME FaxInv, pc \in {"fill", "fillLast"}
  PROVE  /\ FillRuns(at) \in Seq(Nat) /\ RefIs(EndMark(at))
         /\ IsRow(at) /\ Sum(at.runs, at.pa) >= lastx
<1>1. at \in RowType /\ at.pa <= Len(at.runs) /\ Sum(at.runs, at.pa) >= lastx
  BY DEF FaxInv, FaxRowOK
<1>2. IsRow(at)
  BY <1>1, RowIs
<1>3. FillRuns(at) \in Seq(Nat)
  BY <1>2, FillRunsIs
<1>4. EndMark(at) \in Seq(Nat)
      /\ \E e \in 0..(Len(EndMark(at)) - 1) : Sum(EndMark(at), e) >= lastx
  BY <1>1, <1>2, RowFilled
<1> QED BY <1>1, <1>2, <1>3, <1>4 DEF RefIs

\* Between two rows, and between two calls.
LEMMA BetweenRows ==
  ASSUME FaxInv, OthersIdle, pc \notin EncoderPcs, pc' \in {"idle", "call"},
         UNCHANGED <<stripVars, given, stream, astray, enc3, damaged>>,
         (at' = at /\ dec3' = dec3) \/ at' = StartFaxRow,
         RefIs(dec3.refruns)', dec3' \in DecoderType, dec3'.bp <= Len(stream),
         IsSeq(buf)', WholeRows(Len(buf))', (Len(buf) <= asked)',
         asked' \in 0..StripSize, WholeRows(asked'),
         taken' \in 0..StripSize, WholeRows(taken'), ret' \in {0, 1},
         pc' = "call" => taken' + asked' <= StripSize,
         NoRowSkipped'
  PROVE  FaxInv'
<1>1. FaxStripOK /\ FaxRowOK
  BY DEF FaxInv
<1>2. /\ scheme' = scheme /\ foreign' = foreign /\ data' = data /\ given' = given
      /\ stream' = stream /\ enc3' = enc3 /\ astray' = astray /\ ~astray
  BY DEF stripVars, FaxInv, FaxClientOK
<1>3. pc' \in FaxPcs /\ pc' \notin EncoderPcs /\ pc' \notin RowPcs /\ pc' \notin RunPcs
  BY DEF FaxPcs, RowPcs, RunPcs, EncoderPcs
<1>4. FaxStripOK'
  BY <1>1, <1>2, <1>3 DEF FaxStripOK, WholeRows, EncoderPcs
<1>5. FaxClientOK'
  <2>1. StripSize' = StripSize
    BY <1>2 DEF StripSize
  <2>2. WholeRows(asked)' /\ WholeRows(taken)'
    BY DEF WholeRows
  <2> QED BY <1>2, <1>3, <2>1, <2>2 DEF FaxClientOK
<1>6. FaxDecoderOK'
  BY <1>2 DEF FaxDecoderOK
<1>7. FaxRowOK'
  <2>1. CASE at' = at /\ dec3' = dec3
    BY <1>1, <1>3, <2>1 DEF FaxRowOK, RowPcs, RunPcs
  <2>2. CASE at' = StartFaxRow
    <3>1. Len(dec3'.refruns) \in Nat
      BY DEF RefIs
    <3> QED BY <1>3, <2>2, <3>1, FaxStart DEF FaxRowOK, RowPcs, RunPcs
  <2> QED BY <2>1, <2>2
<1>8. FaxEolOK'
  BY <1>3 DEF FaxEolOK, RunPcs
<1> QED BY <1>4, <1>5, <1>6, <1>7, <1>8, IdleKept DEF FaxInv

\* The client, whatever it asks for.
LEMMA Client ==
  ASSUME FaxInv
  PROVE  /\ StripSize \in Nat /\ WholeRows(StripSize)
         /\ asked \in Nat /\ taken \in Nat /\ Len(buf) \in Nat /\ IsSeq(buf)
         /\ WholeRows(asked) /\ WholeRows(taken) /\ WholeRows(Len(buf))
         /\ asked <= StripSize /\ taken <= StripSize /\ Len(buf) <= asked
<1>1. StripSize \in Nat /\ WholeRows(StripSize)
  BY DEF FaxInv, FaxStripOK, StripSize
<1>2. Len(buf) \in Nat /\ IsSeq(buf)
  BY DEF FaxInv, FaxClientOK, IsSeq
<1>3. /\ WholeRows(asked) /\ WholeRows(taken) /\ WholeRows(Len(buf)) /\ Len(buf) <= asked
      /\ asked \in 0..StripSize /\ taken \in 0..StripSize
  BY DEF FaxInv, FaxClientOK
<1> QED BY <1>1, <1>2, <1>3

LEMMA Stays ==
  ASSUME FaxInv
  PROVE  /\ dec3 \in DecoderType /\ dec3.bp <= Len(stream) /\ RefIs(dec3.refruns)
         /\ dec3 \in DecoderRecords /\ dec3.bp \in Nat /\ Len(stream) \in Nat
         /\ dec3.EOLcnt \in {0, 1}
         /\ (dec3.EOLcnt = 1 => dec3.bp > 0)
BY DEF FaxInv, FaxDecoderOK, FaxStripOK, DecoderType, DecoderRecords

LEMMA EolsStay ==
  ASSUME FaxInv, UNCHANGED <<stripVars, stream, damaged>>,
         scheme = "g3" => /\ dec3'.bp = dec3.bp /\ dec3'.EOLcnt = dec3.EOLcnt
                          /\ dec3'.seen = dec3.seen
  PROVE  NoRowSkipped'
<1>1. scheme' = scheme /\ stream' = stream /\ damaged' = damaged
  BY DEF stripVars
<1>2. \A i : IsEol(i)' = IsEol(i)
  BY <1>1 DEF IsEol
<1> QED BY <1>1, <1>2 DEF FaxInv, NoRowSkipped

LEMMA FaxAskKeeps == FaxInv /\ OthersIdle /\ FaxAsk => FaxInv'
<1> SUFFICES ASSUME FaxInv, OthersIdle, FaxAsk PROVE FaxInv'
  OBVIOUS
<1>1. /\ pc = "idle" /\ pc' = "call" /\ asked' \in {RowSize, StripSize - taken} \ {0}
      /\ taken + asked' <= StripSize /\ buf' = <<>> /\ ret' = 1
      /\ UNCHANGED <<stripVars, given, stream, taken, failed, astray>>
      /\ dec3' = dec3 /\ at' = at /\ enc3' = enc3 /\ damaged' = damaged
  BY DEF FaxAsk, Ask, faxVars
<1>2. StripSize \in Nat /\ WholeRows(StripSize) /\ taken \in Nat /\ WholeRows(taken)
      /\ taken <= StripSize /\ RowSize \in Nat
  BY Client, CodecAssumption
<1>3. WholeRows(RowSize) /\ WholeRows(StripSize - taken) /\ WholeRows(0)
  BY <1>2, RowsAdded
<1>4. asked' \in Nat /\ asked' \in 0..StripSize /\ WholeRows(asked')
  <2>1. asked' = RowSize \/ asked' = StripSize - taken
    BY <1>1
  <2>2. WholeRows(asked')
    BY <1>3, <2>1
  <2>3. asked' \in Nat /\ asked' <= StripSize
    <3>1. asked' \in Nat
      BY <1>2, <2>1
    <3>2. taken + asked' <= StripSize
      BY <1>1
    <3> DEFINE n == asked'
               m == StripSize
    <3> HIDE DEF n, m
    <3>3. n \in Nat /\ taken + n <= m /\ m \in Nat /\ taken \in Nat
      BY <1>2, <3>1, <3>2 DEF n, m
    <3>4. n <= m
      BY <3>3
    <3> QED BY <3>1, <3>4 DEF n, m
  <2> QED BY <1>2, <2>2, <2>3
<1>5. IsSeq(buf)' /\ Len(buf') = 0 /\ WholeRows(Len(buf))'
  <2>1. <<>> \in Seq({}) /\ Len(<<>>) = 0
    OBVIOUS
  <2>2. IsSeq(<<>>)
    BY <2>1, SeqIs
  <2> QED BY <1>1, <1>3, <2>1, <2>2 DEF IsSeq, WholeRows
<1>6. (Len(buf) <= asked)'
  BY <1>4, <1>5
<1>7. NoRowSkipped'
  BY <1>1, EolsStay
<1>8. taken' \in 0..StripSize /\ WholeRows(taken')
  BY <1>1, <1>2
<1>9. RefIs(dec3.refruns)' /\ dec3' \in DecoderType /\ dec3'.bp <= Len(stream)
  BY <1>1, Stays
<1> QED BY <1>1, <1>4, <1>5, <1>6, <1>7, <1>8, <1>9, BetweenRows DEF EncoderPcs

LEMMA FillRowKeeps == FaxInv /\ OthersIdle /\ FillRow => FaxInv'
<1> SUFFICES ASSUME FaxInv, OthersIdle, FillRow PROVE FaxInv'
  OBVIOUS
<1> DEFINE runs == FillRuns(at)
           mark == EndMark(at)
           no == at.no
           next == [dec3 EXCEPT !.line = @ + 1, !.refno = no]
           dec == IF scheme \in {"rle", "g3"} THEN [next EXCEPT !.curruns = runs]
                  ELSE [next EXCEPT !.curruns = dec3.refruns, !.refruns = mark]
<1>1. /\ pc = "fill" /\ pc' = "call" /\ buf' = buf \o Pixels(at) /\ dec3' = dec
      /\ at' = StartFaxRow
      /\ UNCHANGED <<stripVars, given, stream, asked, taken, ret, failed, astray, enc3, damaged>>
  BY DEF FillRow
<1>2. runs \in Seq(Nat) /\ RefIs(mark) /\ mark \in Seq(Nat) /\ no \in Int
  BY <1>1, RowLeaves DEF RefIs, FaxInv, FaxRowOK, RowType
<1>3. /\ dec3 \in DecoderRecords /\ dec3.line + 1 \in Nat /\ dec3.refruns \in Seq(Nat)
      /\ RefIs(dec3.refruns) /\ (dec3.EOLcnt = 1 => dec3.bp > 0) /\ dec3.bp <= Len(stream)
  BY Stays DEF DecoderRecords
<1> HIDE DEF runs, mark, no
<1>4. next \in DecoderRecords
  BY <1>2, <1>3 DEF DecoderRecords
<1>5. next.bp = dec3.bp /\ next.EOLcnt = dec3.EOLcnt /\ next.seen = dec3.seen
      /\ next.refruns = dec3.refruns
  BY <1>3 DEF DecoderRecords
<1> HIDE DEF next
<1>6. /\ dec \in DecoderRecords /\ dec.bp = dec3.bp /\ dec.EOLcnt = dec3.EOLcnt
      /\ dec.seen = dec3.seen /\ dec.refruns \in {dec3.refruns, mark}
  <2>1. CASE scheme \in {"rle", "g3"}
    <3> DEFINE d == [next EXCEPT !.curruns = runs]
    <3>1. d \in DecoderRecords
      BY <1>2, <1>4 DEF DecoderRecords
    <3>2. d.bp = next.bp /\ d.EOLcnt = next.EOLcnt /\ d.seen = next.seen
          /\ d.refruns = next.refruns
      BY <1>4 DEF DecoderRecords
    <3>3. dec = d
      BY <2>1
    <3> HIDE DEF d, dec
    <3> QED BY <1>5, <3>1, <3>2, <3>3
  <2>2. CASE scheme \notin {"rle", "g3"}
    <3> DEFINE d == [next EXCEPT !.curruns = dec3.refruns, !.refruns = mark]
    <3>1. d \in DecoderRecords
      BY <1>2, <1>3, <1>4 DEF DecoderRecords
    <3>2. d.bp = next.bp /\ d.EOLcnt = next.EOLcnt /\ d.seen = next.seen /\ d.refruns = mark
      BY <1>4 DEF DecoderRecords
    <3>3. dec = d
      BY <2>2
    <3> HIDE DEF d, dec
    <3> QED BY <1>5, <3>1, <3>2, <3>3
  <2> QED BY <2>1, <2>2
<1> HIDE DEF dec
<1>7. RefIs(dec3.refruns)' /\ dec3' \in DecoderType /\ dec3'.bp <= Len(stream)
  <2>1. RefIs(dec.refruns)
    BY <1>2, <1>3, <1>6
  <2>2. RefIs(dec3.refruns)'
    BY <1>1, <2>1 DEF RefIs, lastx, Sum, SumRuns, Run
  <2> QED BY <1>1, <1>3, <1>6, <2>2 DEF DecoderType
<1>8. NoRowSkipped'
  BY <1>1, <1>6, EolsStay
<1>9. IsSeq(buf)' /\ WholeRows(Len(buf))' /\ (Len(buf) <= asked)'
  <2>1. pc \in RowPcs
    BY <1>1 DEF RowPcs
  <2>2. /\ IsSeq(buf \o Pixels(at)) /\ WholeRows(Len(buf \o Pixels(at)))
        /\ Len(buf \o Pixels(at)) <= asked
    BY <2>1, PixelsJoined
  <2> DEFINE bytes == buf \o Pixels(at)
  <2>3. buf' = bytes /\ asked' = asked
    BY <1>1
  <2> HIDE DEF bytes
  <2> QED BY <2>2, <2>3 DEF IsSeq, WholeRows, bytes
<1>10. /\ asked' \in 0..StripSize /\ WholeRows(asked') /\ taken' \in 0..StripSize
       /\ WholeRows(taken') /\ ret' \in {0, 1} /\ taken' + asked' <= StripSize
  BY <1>1 DEF FaxInv, FaxClientOK, RowPcs
<1> QED BY <1>1, <1>7, <1>8, <1>9, <1>10, FaxStart, BetweenRows DEF EncoderPcs

LEMMA FillLastRowKeeps == FaxInv /\ OthersIdle /\ FillLastRow => FaxInv'
<1> SUFFICES ASSUME FaxInv, OthersIdle, FillLastRow PROVE FaxInv'
  OBVIOUS
<1> DEFINE runs == FillRuns(at)
           end == IF scheme = "g4" THEN Len(stream) ELSE dec3.bp
           dec == [dec3 EXCEPT !.curruns = runs, !.refno = -1, !.bp = end]
<1>1. /\ pc \in {"fill", "fillLast"} /\ pc' = "idle" /\ buf' = buf \o Pixels(at)
      /\ taken' = taken + asked /\ ret' \in {0, 1}
      /\ dec3' = dec /\ at' = StartFaxRow
      /\ UNCHANGED <<stripVars, given, stream, asked, astray, enc3, damaged>>
  BY DEF FillLastRow, Finish
<1>2. runs \in Seq(Nat)
  BY <1>1, RowLeaves
<1>3. /\ dec3 \in DecoderRecords /\ RefIs(dec3.refruns) /\ dec3.bp \in Nat /\ Len(stream) \in Nat
      /\ (dec3.EOLcnt = 1 => dec3.bp > 0) /\ dec3.bp <= Len(stream) /\ -1 \in Int
  BY Stays
<1>4. end \in Nat /\ dec3.bp <= end /\ end <= Len(stream) /\ (scheme # "g4" => end = dec3.bp)
  BY <1>3
<1> HIDE DEF runs, end
<1>5. dec \in DecoderRecords
  BY <1>2, <1>3, <1>4 DEF DecoderRecords
<1>6. dec.bp = end /\ dec.EOLcnt = dec3.EOLcnt /\ dec.seen = dec3.seen
      /\ dec.refruns = dec3.refruns
  BY <1>3 DEF DecoderRecords
<1> HIDE DEF dec
<1>7. RefIs(dec3.refruns)' /\ dec3' \in DecoderType /\ dec3'.bp <= Len(stream)
  <2>1. RefIs(dec3.refruns)'
    BY <1>1, <1>3, <1>6
  <2>2. dec.EOLcnt = 1 => dec.bp > 0
    BY <1>3, <1>4, <1>6
  <2> QED BY <1>1, <1>4, <1>5, <1>6, <2>1, <2>2 DEF DecoderType
<1>8. NoRowSkipped'
  BY <1>1, <1>4, <1>6, EolsStay
<1>9. pc \in RowPcs /\ pc \notin EncoderPcs
  BY <1>1 DEF RowPcs, EncoderPcs
<1>10. IsSeq(buf)' /\ WholeRows(Len(buf))' /\ (Len(buf) <= asked)'
  <2>1. /\ IsSeq(buf \o Pixels(at)) /\ WholeRows(Len(buf \o Pixels(at)))
        /\ Len(buf \o Pixels(at)) <= asked
    BY <1>9, PixelsJoined
  <2> DEFINE bytes == buf \o Pixels(at)
  <2>2. buf' = bytes /\ asked' = asked
    BY <1>1
  <2> HIDE DEF bytes
  <2> QED BY <2>1, <2>2 DEF IsSeq, WholeRows, bytes
<1>11. /\ asked' \in 0..StripSize /\ WholeRows(asked') /\ taken' \in 0..StripSize
       /\ WholeRows(taken')
  <2>1. taken + asked <= StripSize
    BY <1>9 DEF FaxInv, FaxClientOK
  <2>2. WholeRows(taken + asked)
    BY Client, RowsAdded
  <2> QED BY <1>1, <2>1, <2>2, Client
<1> QED BY <1>1, <1>7, <1>8, <1>9, <1>10, <1>11, BetweenRows

LEMMA FaxReturnKeeps == FaxInv /\ OthersIdle /\ FaxReturn => FaxInv'
<1> SUFFICES ASSUME FaxInv, OthersIdle, FaxReturn PROVE FaxInv'
  OBVIOUS
<1>1. /\ pc = "call" /\ pc' = "idle" /\ buf' = buf /\ taken' = taken + asked /\ ret' = 1
      /\ UNCHANGED <<stripVars, given, stream, asked, astray, enc3, damaged>>
      /\ dec3' = dec3 /\ at' = at
  BY DEF FaxReturn, Finish, faxVars
<1>2. RefIs(dec3.refruns)' /\ dec3' \in DecoderType /\ dec3'.bp <= Len(stream)
  BY <1>1, Stays
<1>3. NoRowSkipped'
  BY <1>1, EolsStay
<1>4. IsSeq(buf)' /\ WholeRows(Len(buf))' /\ (Len(buf) <= asked)'
  BY <1>1, Client DEF IsSeq, WholeRows
<1>5. /\ asked' \in 0..StripSize /\ WholeRows(asked') /\ taken' \in 0..StripSize
      /\ WholeRows(taken') /\ ret' \in {0, 1}
  <2>1. taken + asked <= StripSize
    BY <1>1 DEF FaxInv, FaxClientOK
  <2>2. WholeRows(taken + asked)
    BY Client, RowsAdded
  <2> QED BY <1>1, <2>1, <2>2, Client
<1> QED BY <1>1, <1>2, <1>3, <1>4, <1>5, BetweenRows DEF EncoderPcs

-----------------------------------------------------------------------------
(***************************************************************************)
(* The invariant, of the strips of the fax schemes.                        *)
(***************************************************************************)
LEMMA FaxNextKeeps == FaxInv /\ OthersIdle /\ FaxNext => FaxInv'
BY StartLineKeeps, Encode1DRowKeeps, PassModeKeeps, VerticalModeKeeps, HorizontalModeKeeps,
   FaxPostEncodeKeeps, ArriveKeeps, FaxAskKeeps, BeginRowKeeps, SyncKeeps, SyncFailsKeeps,
   Span1DKeeps, Code2DKeeps, SpanHorizKeeps, DataEndKeeps, CleanUpKeeps, FillRowKeeps,
   FillLastRowKeeps, FaxReturnKeeps
   DEF FaxNext, FaxEncode, FaxDecode

LEMMA FaxKeepsStrip == FaxNext => UNCHANGED stripVars
<1>1. FaxEncode => UNCHANGED stripVars
  BY DEF FaxEncode, StartLine, Encode1DRow, PassMode, VerticalMode, HorizontalMode, PutCodes,
         FaxPostEncode, Arrive
<1>2. BeginRow \/ Sync \/ SyncFails \/ DataEnd \/ CleanUp => UNCHANGED stripVars
  BY ZenonT(40) DEF BeginRow, Sync, SyncFails, DataEnd, CleanUp, FaxStep
<1>3. Span1D \/ SpanHoriz => UNCHANGED stripVars
  BY DEF Span1D, SpanHoriz, Expand1D, ExpandHoriz, MakeUpRead, RowDone, Next2D, FaxStep
<1>4. Code2D => UNCHANGED stripVars
  BY DEF Code2D, Expand2D, Vertical, RowDone, Next2D, FaxStep
<1>5. FillRow \/ FillLastRow \/ FaxReturn \/ FaxAsk => UNCHANGED stripVars
  BY DEF FillRow, FillLastRow, FaxReturn, FaxAsk, Ask
<1> QED BY <1>1, <1>2, <1>3, <1>4, <1>5 DEF FaxNext, FaxDecode

LEMMA FaxUnchanged == FaxInv /\ UNCHANGED vars => FaxInv'
<1> SUFFICES ASSUME FaxInv, UNCHANGED vars PROVE FaxInv'
  OBVIOUS
<1>1. /\ UNCHANGED <<scheme, foreign, data, given, stream, pc>>
      /\ UNCHANGED <<asked, buf, taken, ret, failed, astray>>
      /\ UNCHANGED <<enc3, dec3, at, damaged, whole>> /\ OthersIdle
  BY DEF vars, codecVars, stripVars, clientVars, faxVars, OthersIdle
<1>2. FaxStripOK' /\ FaxClientOK'
  BY <1>1 DEF FaxInv, FaxStripOK, FaxClientOK, IsSeq, WholeRows, StripSize
<1>3. FaxDecoderOK' /\ FaxRowOK' /\ FaxEolOK'
  BY <1>1 DEF FaxInv, FaxDecoderOK, FaxRowOK, FaxEolOK
<1>4. NoRowSkipped'
  BY <1>1, EolsStay DEF stripVars
<1> QED BY <1>1, <1>2, <1>3, <1>4, IdleKept DEF FaxInv

\* The other codecs: what a strip is encoded with, and what it holds, is not changed,
\* and no row is filled.
OtherPcs == {"row", "run", "again", "put", "idle", "call", "encode", "predecode", "decode",
             "cleared", "first", "code"}
NotFax == UNCHANGED stripVars /\ pc' \in {pc} \cup OtherPcs

LEMMA PackBitsKeepsStrip == PackBitsNext => NotFax
<1>1. StartRow \/ FindRun \/ Flush \/ MergeLiterals \/ PackBitsPostEncode => NotFax
  BY DEF StartRow, FindRun, Flush, MergeLiterals, PackBitsPostEncode, NotFax, OtherPcs
<1>2. PutRun \/ StartLiteral \/ ExtendLiteral => NotFax
  BY DEF PutRun, StartLiteral, ExtendLiteral, AfterRun, NotFax, OtherPcs
<1>3. Skip \/ Repeat \/ Copy => NotFax
  BY DEF Skip, Repeat, Copy, Decoded, NotFax
<1>4. PackBitsReturn \/ PackBitsAsk => NotFax
  BY DEF PackBitsReturn, Return, Finish, PackBitsAsk, Ask, NotFax, OtherPcs
<1> QED BY <1>1, <1>2, <1>3, <1>4 DEF PackBitsNext, PackBitsEncode, PackBitsDecode

LEMMA LzwKeepsStrip == LzwNext => NotFax
<1>1. FirstByte \/ KnownString => NotFax
  BY DEF FirstByte, KnownString, Encode, NotFax
<1>2. NewString => NotFax
  BY DEF NewString, Encode, NotFax
<1>3. LZWPostEncode \/ LZWPreDecode \/ LzwAsk => NotFax
  BY DEF LZWPostEncode, LZWPreDecode, LzwAsk, Ask, NotFax, OtherPcs
<1>4. Resume \/ Start \/ NextCode => NotFax
  BY DEF Resume, Start, NextCode, Return, Finish, NotFax, OtherPcs
<1>5. Clear \/ EndOfInformation \/ Satisfied \/ FirstString \/ CorruptedTable => NotFax
  BY DEF Clear, EndOfInformation, Satisfied, FirstString, CorruptedTable, Decoding,
         Leave, Fail, Go, Return, Finish, NotFax, OtherPcs
<1>6. Literal \/ UnknownString \/ WholeString \/ StringTooLong => NotFax
  BY DEF Literal, UnknownString, WholeString, StringTooLong, Decoding,
         Leave, Fail, Go, Return, Finish, NotFax, OtherPcs
<1> QED BY <1>1, <1>2, <1>3, <1>4, <1>5, <1>6 DEF LzwNext, LzwEncode, LzwDecode

LEMMA SchemeKept ==
  ASSUME [Next]_vars
  PROVE  /\ scheme' \in FaxSchemes => scheme \in FaxSchemes
         /\ scheme \in FaxSchemes => (FaxNext /\ OthersIdle) \/ UNCHANGED vars
<1>1. "packbits" \notin FaxSchemes /\ "lzw" \notin FaxSchemes
  BY DEF FaxSchemes
<1>2. CASE scheme = "packbits" /\ PackBitsNext
  BY <1>1, <1>2, PackBitsKeepsStrip DEF NotFax, stripVars
<1>3. CASE scheme = "lzw" /\ LzwNext
  BY <1>1, <1>3, LzwKeepsStrip DEF NotFax, stripVars
<1>4. CASE scheme \in FaxSchemes /\ FaxNext /\ UNCHANGED <<packbitsVars, lzwVars>>
  BY <1>4 DEF OthersIdle
<1>5. CASE UNCHANGED vars
  <2>1. scheme' = scheme
    BY <1>5 DEF vars, codecVars, stripVars
  <2> QED BY <1>5, <2>1
<1> QED BY <1>2, <1>3, <1>4, <1>5 DEF Next

FaxSafe == /\ scheme \in FaxSchemes => FaxInv
           /\ scheme \notin FaxSchemes => pc \in OtherPcs

LEMMA FaxAlways == Spec => []FaxSafe
<1>1. Init => FaxSafe
  <2>1. ASSUME Init, scheme \in FaxSchemes PROVE FaxInv
    <3>1. FaxInit /\ PackBitsIdle /\ LzwIdle
      BY <2>1 DEF Init, FaxSchemes, PackBitsInit, LzwInit
    <3> QED BY <2>1, <3>1, FaxInitInv
  <2>2. ASSUME Init, scheme \notin FaxSchemes PROVE pc \in OtherPcs
    BY <2>2 DEF Init, PackBitsInit, LzwInit, OtherPcs
  <2> QED BY <2>1, <2>2 DEF FaxSafe
<1>2. FaxSafe /\ [Next]_vars => FaxSafe'
  <2>1. ASSUME FaxSafe, [Next]_vars, scheme' \in FaxSchemes PROVE FaxInv'
    <3>1. scheme \in FaxSchemes /\ ((FaxNext /\ OthersIdle) \/ UNCHANGED vars)
      BY <2>1, SchemeKept
    <3>2. FaxInv
      BY <2>1, <3>1 DEF FaxSafe
    <3> QED BY <3>1, <3>2, FaxNextKeeps, FaxUnchanged
  <2>2. ASSUME FaxSafe, [Next]_vars, scheme' \notin FaxSchemes PROVE pc' \in OtherPcs
    <3>1. CASE scheme \in FaxSchemes
      <4>1. FaxInv /\ ((FaxNext /\ OthersIdle) \/ UNCHANGED vars)
        BY <2>2, <3>1, SchemeKept DEF FaxSafe
      <4>2. UNCHANGED stripVars
        BY <4>1, FaxKeepsStrip DEF vars, codecVars
      <4> QED BY <2>2, <3>1, <4>2 DEF stripVars
    <3>2. CASE scheme \notin FaxSchemes
      <4>1. NotFax \/ UNCHANGED vars
        BY <2>2, <3>2, PackBitsKeepsStrip, LzwKeepsStrip DEF Next
      <4>2. pc' \in {pc} \cup OtherPcs
        BY <4>1 DEF NotFax, vars, codecVars
      <4> QED BY <2>2, <3>2, <4>2 DEF FaxSafe
    <3> QED BY <3>1, <3>2
  <2> QED BY <2>1, <2>2 DEF FaxSafe
<1> QED BY <1>1, <1>2, PTL DEF Spec

-----------------------------------------------------------------------------
(***************************************************************************)
(* What the codes of a stream say of the rows.  A spot is how far the      *)
(* codes have come: the row no, its pixels before x, the color c of the    *)
(* next of them, and the mode md that the next code is to be read in.      *)
(***************************************************************************)
Modes == {"line", "1D", "2D", "h1", "h2", "over"}
Spots == [no : Nat \ {0}, x : 0..lastx, c : {White, Black}, md : Modes]
Spot(n, x, c, md) == [no |-> n, x |-> x, c |-> c, md |-> md]
LineStart(n) ==
  Spot(n, 0, White, IF HasEol THEN "line" ELSE IF scheme = "rle" THEN "1D" ELSE "2D")
SpotTo(n, x, c, md) == IF x = lastx THEN LineStart(n + 1) ELSE Spot(n, x, c, md)
Over == Spot(1, 0, White, "over")

InData(n) == n * RowSize <= Len(data)
RefRow(n) == IF n = 1 THEN [i \in 1..RowSize |-> White] ELSE Row(n - 1)
\* The pixels from x up to y have the color c, and the next one has not.
Alike(n, x, y, c) == \A i \in (x + 1)..y : Row(n)[i] = c
TurnsAt(n, x, c) == x = lastx \/ Row(n)[x + 1] # c
\* The row begins, and its first change may be at its first pixel.
First(s) == s.x = 0 /\ s.c = White
\* The spot is at a pixel of its color.
AtColor(s) == First(s) \/ Row(s.no)[s.x + 1] = s.c

NextChange(s) == FindDiff(Row(s.no), s.x, s.c)
RefChange(s) ==
  IF First(s) THEN FindDiff(RefRow(s.no), 0, White)
  ELSE FindDiff(RefRow(s.no), FindDiff(RefRow(s.no), s.x, 1 - s.c), s.c)
RefChange2(s) == FindDiff2(RefRow(s.no), RefChange(s))

\* The code q leads from one spot to another.
MakesLonger(s, q, t) ==
  /\ s.md \in {"1D", "h1", "h2"}
  /\ \E n \in MakeUps :
       /\ q = MakeUpCode(s.c, n)
       /\ s.x + n <= lastx /\ Alike(s.no, s.x, s.x + n, s.c)
       /\ t = Spot(s.no, s.x + n, s.c, s.md)
EndsRun(s, q, t) ==
  \E n \in Lengths :
    /\ q = TermCode(s.c, n)
    /\ s.x + n <= lastx /\ Alike(s.no, s.x, s.x + n, s.c) /\ TurnsAt(s.no, s.x + n, s.c)
    /\ \/ s.md = "1D" /\ t = SpotTo(s.no, s.x + n, 1 - s.c, "1D")
       \/ s.md = "h1" /\ t = Spot(s.no, s.x + n, 1 - s.c, "h2")
       \/ s.md = "h2" /\ t = SpotTo(s.no, s.x + n, 1 - s.c, "2D")
Passes(s, q, t) ==
  /\ q = PassCode
  /\ RefChange2(s) < NextChange(s)
  /\ t = Spot(s.no, RefChange2(s), s.c, "2D")
GoesBy(s, q, t) ==
  \E n \in -Reach..Reach :
    /\ q = VertCode(n)
    /\ RefChange2(s) >= NextChange(s) /\ NextChange(s) = RefChange(s) + n
    /\ t = SpotTo(s.no, NextChange(s), 1 - s.c, "2D")
TwoRuns(s, q, t) == q = HorizCode /\ t = Spot(s.no, s.x, s.c, "h1")
Compares(s, q, t) ==
  /\ s.md = "2D" /\ s.x < lastx /\ AtColor(s)
  /\ Passes(s, q, t) \/ GoesBy(s, q, t) \/ TwoRuns(s, q, t)
BeginsLine(s, q, t) ==
  /\ s.md = "line"
  /\ \E b \in BOOLEAN : /\ q = EolCode(b, s.no)
                        /\ scheme = "g3" => b
                        /\ t = Spot(s.no, 0, White, IF b THEN "1D" ELSE "2D")
\* The end-of-block code of Group 4 comes after the last row.
EndsStrip(s, q, t) ==
  /\ scheme = "g4" /\ q = EolCode(FALSE, 0) /\ t = Over
  /\ s = Over \/ (s = LineStart(s.no) /\ ~InData(s.no))
CodeFits(s, q, t) ==
  \/ InData(s.no) /\ (MakesLonger(s, q, t) \/ EndsRun(s, q, t)
                        \/ Compares(s, q, t) \/ BeginsLine(s, q, t))
  \/ EndsStrip(s, q, t)

\* Spots from which each code leads to the next.
Along(f, codes) == \A i \in 1..Len(codes) : CodeFits(f[i - 1], codes[i], f[i])
Leads(s, codes, t) == \E f : f[0] = s /\ f[Len(codes)] = t /\ Along(f, codes)

-----------------------------------------------------------------------------
(***************************************************************************)
(* The inductive invariant.                                                *)
(***************************************************************************)
\* Where the encoder is.
Now == (given \div RowSize) + 1
EncodedTo(s) ==
  /\ pc = "line" => s = LineStart(Now)
  /\ pc = "encode1D" => ~Coding2D /\ s = Spot(Now, enc3.a0, enc3.color, "1D")
  /\ pc = "encode2D" => /\ Coding2D /\ s = Spot(Now, enc3.a0, A0Color, "2D")
                        /\ enc3.first <=> First(s)
  /\ pc \in {"encode1D", "encode2D"} => AtColor(s)
  /\ Coding2D => enc3.refline = RefRow(Now)
  /\ scheme = "g3" => enc3.tag = "1D"

\* The runs of a reference line are those of the row: they go up to its end, and there
\* is one more change.  Only the first of them may be empty.
RefRight(ref, row) ==
  \E k \in 1..Len(ref) :
    /\ Sum(ref, k) = lastx /\ Sum(ref, k + 1) = lastx
    /\ \A i \in 1..(k - 1) : Sum(ref, i) < Sum(ref, i + 1)
    /\ \A i \in 0..(k - 1) : \A y \in (Sum(ref, i) + 1)..Sum(ref, i + 1) : row[y] = i % 2
\* The runs of the row that is decoded are right up to a0.
RunsRight(a) ==
  /\ a.a0 <= lastx /\ (a.a0 > 0 => InData(a.no))
  /\ \A i \in 0..(a.pa - 1) :
       \A y \in (Sum(a.runs, i) + 1)..Sum(a.runs, i + 1) : Row(a.no)[y] = i % 2
  /\ \A y \in (Sum(a.runs, a.pa) + 1)..a.a0 : Row(a.no)[y] = a.pa % 2
  /\ \A i \in 1..(a.pa - 1) :
       Sum(a.runs, i) < lastx => Sum(a.runs, i) < Sum(a.runs, i + 1)
  /\ a.pa > 0 /\ a.RunLength = 0 /\ a.a0 < lastx => Row(a.no)[a.a0 + 1] = a.pa % 2
\* The place in the reference line, d the decoder: the run before it ends in the
\* color that the row goes on with, and it is not too far.
RefAt(a, d, between) ==
  /\ scheme \in {"g32d", "g4"}
  /\ d.refno = a.no - 1
  /\ a.pb % 2 = (IF between THEN a.pa ELSE a.pa + 1) % 2
  /\ a.pb >= 2 => Sum(d.refruns, a.pb - 2) <= a.a0
SpotOf(a, p) ==
  Spot(a.no, a.a0, Color(a),
       IF p # "horiz" THEN p ELSE IF a.left = 2 THEN "h1" ELSE "h2")
WithinRow(a, d, p, s) ==
  /\ s = SpotOf(a, p)
  /\ RunsRight(a)
  /\ p # "1D" => RefAt(a, d, p = "horiz" /\ a.left = 1)
  /\ p = "2D" => /\ InData(a.no) => AtColor(s)
                 /\ a.pa = 0 => IF a.a0 = 0 THEN a.pb = 1 ELSE a.b1 > a.a0
RowRead(a, s) ==
  /\ RunsRight(a) /\ a.a0 = lastx /\ a.RunLength = 0
  /\ s = LineStart(a.no + 1)
DecodedTo(s) ==
  /\ pc \in {"idle", "call"} /\ dec3.refno >= 0 => s = LineStart(dec3.refno + 1)
  /\ scheme \in {"g32d", "g4"} /\ dec3.refno >= 0 =>
       RefRight(dec3.refruns, RefRow(dec3.refno + 1))
  /\ pc \in RowPcs => at.no # 0
  /\ pc \in RunPcs /\ at.no > 0 => WithinRow(at, dec3, pc, s)
  /\ pc \in {"done", "fill"} /\ at.no > 0 => RowRead(at, s)

RowsInv ==
  /\ scheme \in FaxSchemes /\ Bilevel
  /\ pc \in EncoderPcs =>
       \E s : Leads(LineStart(1), stream, s) /\ (pc # "sent" => EncodedTo(s))
  /\ pc \notin EncoderPcs =>
       \E f : f[0] = LineStart(1) /\ Along(f, stream) /\ DecodedTo(f[dec3.bp])

-----------------------------------------------------------------------------
(***************************************************************************)
(* Rows and their changes.                                                 *)
(***************************************************************************)
LEMMA Width == lastx \in Nat /\ lastx > 0 /\ RowSize = lastx
BY CodecAssumption DEF lastx

LEMMA ColorsAre ==
  /\ White = 0 /\ Black = 1 /\ {White, Black} = {0, 1}
  /\ \A c \in {White, Black} : 1 - c \in {White, Black} /\ 1 - (1 - c) = c /\ 1 - c # c
BY DEF White, Black

\* A row of the strip has pixels of two colors.
LEMMA RowIsBilevel ==
  ASSUME Bilevel, NEW n \in Nat \ {0}, InData(n)
  PROVE  /\ Row(n) \in Seq({White, Black}) /\ Len(Row(n)) = lastx
         /\ \A i \in 1..lastx : Row(n)[i] \in {White, Black}
         /\ \A i \in 1..lastx : Row(n)[i] = data[(n - 1) * RowSize + i]
<1>1. data \in Seq({White, Black}) /\ Len(data) \in Nat
  BY DEF Bilevel
<1>2. PICK b \in Nat : b = (n - 1) * RowSize
  BY CodecAssumption
<1>3. PICK e \in Nat : e = n * RowSize /\ e = b + RowSize /\ e <= Len(data)
  BY <1>1, <1>2, CodecAssumption DEF InData
<1>4. Row(n) = SubSeq(data, b + 1, e)
  BY <1>2, <1>3 DEF Row
<1>5. /\ SubSeq(data, b + 1, e) \in Seq({White, Black})
      /\ Len(SubSeq(data, b + 1, e)) = e - b
      /\ \A i \in 1..(e - b) : SubSeq(data, b + 1, e)[i] = data[b + i]
  <2>1. b \in Nat /\ e \in Nat /\ b <= e /\ e <= Len(data) /\ Len(data) \in Nat
    BY <1>1, <1>3, CodecAssumption
  <2>2. SubSeq(data, b + 1, e) \in Seq({White, Black})
    BY <1>1, <2>1
  <2>3. Len(SubSeq(data, b + 1, e)) = e - b
    BY <1>1, <2>1
  <2>4. ASSUME NEW i \in 1..(e - b) PROVE SubSeq(data, b + 1, e)[i] = data[b + i]
    <3>1. i \in Nat /\ b + i \in Nat /\ b + i <= e /\ i >= 1
      BY <2>1
    <3> QED BY <1>1, <2>1, <3>1
  <2> QED BY <2>2, <2>3, <2>4
<1>6. e - b = lastx
  BY <1>2, <1>3, CodecAssumption DEF lastx
<1>7. \A i \in 1..lastx : Row(n)[i] \in {White, Black}
  BY <1>4, <1>5, <1>6
<1> QED BY <1>2, <1>4, <1>5, <1>6, <1>7

\* finddiff stops at the end of the color, and only there.
LEMMA DiffStops ==
  ASSUME NEW row, NEW s \in 0..lastx, NEW c
  PROVE  LET e == FindDiff(row, s, c)
         IN  /\ e \in s..lastx /\ (e = lastx \/ row[e + 1] # c)
             /\ \A i \in (s + 1)..e : row[i] = c
<1> DEFINE S == {i \in s..lastx : i = lastx \/ row[i + 1] # c}
           e == FindDiff(row, s, c)
<1>1. lastx \in Nat /\ s \in Nat
  BY Width
<1>2. S \in SUBSET Nat /\ lastx \in S
  BY <1>1
<1>3. e = Min(S)
  BY DEF FindDiff
<1>4. Min(S) \in S /\ \A k \in S : Min(S) <= k
  <2> HIDE DEF S
  <2> QED BY <1>2, MinOf
<1>5. e \in S /\ \A k \in S : e <= k
  BY <1>3, <1>4
<1>6. ASSUME NEW i \in (s + 1)..e PROVE row[i] = c
  <2>1. e \in s..lastx /\ e \in Nat
    BY <1>1, <1>5
  <2>2. i - 1 \in s..lastx /\ i - 1 < e /\ i - 1 # lastx /\ (i - 1) + 1 = i
    BY <1>1, <2>1
  <2>3. i - 1 \notin S
    BY <1>1, <1>5, <2>1, <2>2
  <2> QED BY <2>2, <2>3
<1> QED BY <1>5, <1>6

LEMMA DiffIs ==
  ASSUME NEW row, NEW s \in 0..lastx, NEW c, NEW e \in s..lastx,
         e = lastx \/ row[e + 1] # c, \A i \in (s + 1)..e : row[i] = c
  PROVE  FindDiff(row, s, c) = e
<1>1. PICK d : d = FindDiff(row, s, c)
  OBVIOUS
<1>2. d \in s..lastx /\ (d = lastx \/ row[d + 1] # c) /\ \A i \in (s + 1)..d : row[i] = c
  BY <1>1, DiffStops
<1>3. d \in Nat /\ e \in Nat /\ s \in Nat /\ lastx \in Nat
  BY <1>2, Width
<1>4. CASE d < e
  <2>1. d + 1 \in (s + 1)..e /\ d # lastx
    BY <1>2, <1>3, <1>4
  <2> QED BY <1>2, <2>1
<1>5. CASE e < d
  <2>1. e + 1 \in (s + 1)..d /\ e # lastx
    BY <1>2, <1>3, <1>5
  <2> QED BY <1>2, <2>1
<1> QED BY <1>1, <1>3, <1>4, <1>5

\* The next change but one, when the colors are two.
LEMMA Diff2Stops ==
  ASSUME NEW row, NEW s \in 0..lastx, NEW c, s < lastx => row[s + 1] = c
  PROVE  LET e == FindDiff2(row, s)
         IN  /\ e \in s..lastx /\ (e = lastx \/ row[e + 1] # c)
             /\ \A i \in (s + 1)..e : row[i] = c
             /\ s < lastx => s < e
<1>1. lastx \in Nat /\ s \in Nat
  BY Width
<1>2. CASE s < lastx
  <2>1. FindDiff2(row, s) = FindDiff(row, s, c)
    BY <1>2 DEF FindDiff2
  <2>2. PICK e : e = FindDiff(row, s, c)
    OBVIOUS
  <2>3. e \in s..lastx /\ (e = lastx \/ row[e + 1] # c) /\ \A i \in (s + 1)..e : row[i] = c
    BY <2>2, DiffStops
  <2>4. s < e
    BY <1>1, <1>2, <2>3
  <2> QED BY <2>1, <2>2, <2>3, <2>4
<1>3. CASE ~(s < lastx)
  <2>1. FindDiff2(row, s) = lastx /\ s = lastx
    BY <1>1, <1>3 DEF FindDiff2
  <2>2. \A i \in (s + 1)..lastx : row[i] = c
    BY <1>1, <2>1
  <2> QED BY <1>1, <2>1, <2>2
<1> QED BY <1>2, <1>3

-----------------------------------------------------------------------------
(***************************************************************************)
(* Ways from spot to spot.                                                 *)
(***************************************************************************)
LEMMA SpotIs ==
  ASSUME NEW n \in Nat \ {0}, NEW x \in 0..lastx, NEW c \in {White, Black}, NEW md \in Modes
  PROVE  /\ Spot(n, x, c, md) \in Spots /\ SpotTo(n, x, c, md) \in Spots
         /\ LineStart(n) \in Spots /\ Over \in Spots
<1>1. \A k \in Nat \ {0}, y \in 0..lastx, d \in {White, Black}, m \in Modes :
        Spot(k, y, d, m) \in Spots
  BY DEF Spot, Spots
<1>2. 0 \in 0..lastx /\ White \in {White, Black} /\ 1 \in Nat \ {0}
  BY Width
<1>3. \A k \in Nat \ {0} : LineStart(k) \in Spots
  BY <1>1, <1>2 DEF LineStart, Modes
<1>4. n + 1 \in Nat \ {0}
  OBVIOUS
<1>5. Over \in Spots
  BY <1>1, <1>2 DEF Over, Modes
<1> QED BY <1>1, <1>3, <1>4, <1>5 DEF SpotTo

LEMMA SpotParts ==
  ASSUME NEW s \in Spots
  PROVE  /\ s.no \in Nat \ {0} /\ s.x \in 0..lastx /\ s.x \in Nat
         /\ s.c \in {White, Black} /\ 1 - s.c \in {White, Black} /\ s.md \in Modes
<1>1. s.no \in Nat \ {0} /\ s.x \in 0..lastx /\ s.c \in {White, Black} /\ s.md \in Modes
  BY DEF Spots
<1> QED BY <1>1, ColorsAre

\* Where the changes that a spot is compared with are.
LEMMA ChangesAre ==
  ASSUME NEW s \in Spots
  PROVE  /\ NextChange(s) \in s.x..lastx /\ RefChange(s) \in 0..lastx
         /\ RefChange(s) >= s.x
         /\ RefChange2(s) \in RefChange(s)..lastx
         /\ RefChange(s) < lastx => RefChange(s) < RefChange2(s)
<1>1. /\ s.x \in 0..lastx /\ s.x \in Nat /\ lastx \in Nat /\ 0 \in 0..lastx
  BY SpotParts, Width
<1> DEFINE ref == RefRow(s.no)
           k == FindDiff(ref, s.x, 1 - s.c)
           first == FindDiff(ref, 0, White)
           later == FindDiff(ref, k, s.c)
<1>2. NextChange(s) \in s.x..lastx
  BY <1>1, DiffRange DEF NextChange
<1>3. k \in s.x..lastx /\ first \in 0..lastx
  BY <1>1, DiffRange
<1>4. later \in k..lastx
  <2>1. k \in 0..lastx
    BY <1>1, <1>3
  <2> QED BY <2>1, DiffRange
<1>5. /\ First(s) => RefChange(s) = first /\ s.x = 0
      /\ ~First(s) => RefChange(s) = later
  BY DEF RefChange, First
<1>6. RefChange(s) \in 0..lastx /\ RefChange(s) >= s.x
  <2> HIDE DEF k, first, later
  <2> QED BY <1>1, <1>3, <1>4, <1>5
<1>7. PICK m : m = RefChange(s)
  OBVIOUS
<1>8. /\ FindDiff2(ref, m) \in m..lastx
      /\ m < lastx => m < FindDiff2(ref, m)
  BY <1>6, <1>7, Diff2Stops
<1> QED BY <1>2, <1>6, <1>7, <1>8 DEF RefChange2

LEMMA FitsSpot ==
  ASSUME NEW s \in Spots, NEW q, NEW t, CodeFits(s, q, t)
  PROVE  t \in Spots
<1>1. /\ s.no \in Nat \ {0} /\ s.x \in 0..lastx /\ s.x \in Nat /\ s.c \in {White, Black}
      /\ s.md \in Modes /\ 1 - s.c \in {White, Black} /\ lastx \in Nat
  BY SpotParts, Width
<1>2. {"1D", "2D", "h1", "h2"} \subseteq Modes
  BY DEF Modes
<1>3. CASE MakesLonger(s, q, t)
  <2>1. PICK n \in MakeUps : s.x + n <= lastx /\ t = Spot(s.no, s.x + n, s.c, s.md)
    BY <1>3 DEF MakesLonger
  <2>2. s.x + n \in 0..lastx
    BY <1>1, <2>1 DEF MakeUps
  <2> QED BY <1>1, <2>1, <2>2, SpotIs
<1>4. CASE EndsRun(s, q, t)
  <2>1. PICK n \in Lengths :
          /\ s.x + n <= lastx
          /\ \/ t = SpotTo(s.no, s.x + n, 1 - s.c, "1D")
             \/ t = Spot(s.no, s.x + n, 1 - s.c, "h2")
             \/ t = SpotTo(s.no, s.x + n, 1 - s.c, "2D")
    BY <1>4 DEF EndsRun
  <2>2. s.x + n \in 0..lastx
    BY <1>1, <2>1 DEF Lengths
  <2> QED BY <1>1, <1>2, <2>1, <2>2, SpotIs
<1>5. CASE Compares(s, q, t)
  <2>1. NextChange(s) \in 0..lastx /\ RefChange2(s) \in 0..lastx
    BY <1>1, ChangesAre
  <2>2. CASE Passes(s, q, t)
    BY <1>1, <1>2, <2>1, <2>2, SpotIs DEF Passes
  <2>3. CASE GoesBy(s, q, t)
    BY <1>1, <1>2, <2>1, <2>3, SpotIs DEF GoesBy
  <2>4. CASE TwoRuns(s, q, t)
    BY <1>1, <1>2, <2>4, SpotIs DEF TwoRuns
  <2> QED BY <1>5, <2>2, <2>3, <2>4 DEF Compares
<1>6. CASE BeginsLine(s, q, t)
  <2>1. PICK b \in BOOLEAN : t = Spot(s.no, 0, White, IF b THEN "1D" ELSE "2D")
    BY <1>6 DEF BeginsLine
  <2>2. 0 \in 0..lastx /\ White \in {White, Black}
    BY <1>1
  <2> QED BY <1>1, <1>2, <2>1, <2>2, SpotIs
<1>7. CASE EndsStrip(s, q, t)
  BY <1>1, <1>7, SpotIs DEF EndsStrip
<1> QED BY <1>3, <1>4, <1>5, <1>6, <1>7 DEF CodeFits

LEMMA AlongSpots ==
  ASSUME NEW f, NEW codes \in Seq(FaxCodes), f[0] \in Spots, Along(f, codes)
  PROVE  \A i \in 0..Len(codes) : f[i] \in Spots
<1> DEFINE S == {i \in 0..Len(codes) : f[i] \notin Spots}
<1>1. Len(codes) \in Nat
  OBVIOUS
<1>2. CASE S # {}
  <2>1. S \in SUBSET Nat
    BY <1>1
  <2>2. PICK m \in S : \A k \in S : m <= k
    <3> HIDE DEF S
    <3> QED BY <1>2, <2>1, LeastOf
  <2>3. m \in 1..Len(codes) /\ m - 1 \in 0..Len(codes) /\ m - 1 < m
    BY <1>1, <2>2
  <2>4. f[m - 1] \in Spots
    BY <1>1, <2>2, <2>3
  <2>5. CodeFits(f[m - 1], codes[m], f[m])
    BY <2>3 DEF Along
  <2> QED BY <2>2, <2>4, <2>5, FitsSpot
<1> QED BY <1>2

LEMMA LeadsOne ==
  ASSUME NEW s, NEW q, NEW t, CodeFits(s, q, t)
  PROVE  Leads(s, <<q>>, t)
<1> DEFINE f == [i \in Nat |-> IF i = 0 THEN s ELSE t]
<1>1. f[0] = s /\ f[1] = t
  OBVIOUS
<1>2. Len(<<q>>) = 1 /\ <<q>>[1] = q
  OBVIOUS
<1>3. Along(f, <<q>>)
  <2> HIDE DEF f
  <2>1. ASSUME NEW i \in 1..1 PROVE CodeFits(f[i - 1], <<q>>[i], f[i])
    <3>1. i = 1 /\ i - 1 = 0
      OBVIOUS
    <3> QED BY <1>1, <1>2, <3>1
  <2> QED BY <1>2, <2>1 DEF Along
<1> QED BY <1>1, <1>2, <1>3 DEF Leads

LEMMA LeadsNothing ==
  ASSUME NEW s
  PROVE  Leads(s, <<>>, s)
<1> DEFINE f == [i \in Nat |-> s]
<1>1. f[0] = s /\ Len(<<>>) = 0
  OBVIOUS
<1>2. Along(f, <<>>)
  BY DEF Along
<1> HIDE DEF f
<1> QED BY <1>1, <1>2 DEF Leads

LEMMA LeadsJoin ==
  ASSUME NEW a \in Seq(FaxCodes), NEW b \in Seq(FaxCodes), NEW s, NEW m, NEW t,
         Leads(s, a, m), Leads(m, b, t)
  PROVE  Leads(s, a \o b, t)
<1>1. PICK f : f[0] = s /\ f[Len(a)] = m /\ Along(f, a)
  BY DEF Leads
<1>2. PICK g : g[0] = m /\ g[Len(b)] = t /\ Along(g, b)
  BY DEF Leads
<1>3. PICK k \in Nat : k = Len(a)
  OBVIOUS
<1>4. PICK l \in Nat : l = Len(b)
  OBVIOUS
<1>5. /\ Len(a \o b) = k + l
      /\ \A i \in 1..k : (a \o b)[i] = a[i]
      /\ \A i \in 1..l : (a \o b)[k + i] = b[i]
  BY <1>3, <1>4
<1> DEFINE h == [i \in Nat |-> IF i <= k THEN f[i] ELSE g[i - k]]
<1>6. \A i \in 0..k : h[i] = f[i]
  BY <1>3
<1>7. \A i \in 0..l : h[k + i] = g[i]
  <2>1. TAKE i \in 0..l
  <2>2. CASE i = 0
    BY <1>1, <1>2, <1>3, <2>2
  <2>3. CASE i > 0
    <3>1. k + i \in Nat /\ ~(k + i <= k) /\ (k + i) - k = i
      BY <1>3, <1>4, <2>3
    <3> QED BY <3>1
  <2> QED BY <1>4, <2>2, <2>3
<1> HIDE DEF h
<1>8. ASSUME NEW i \in 1..(k + l) PROVE CodeFits(h[i - 1], (a \o b)[i], h[i])
  <2>1. CASE i <= k
    <3>1. i \in 1..k /\ i - 1 \in 0..k /\ i \in 0..k
      BY <1>3, <1>4, <2>1
    <3>2. CodeFits(f[i - 1], a[i], f[i])
      BY <1>1, <1>3, <3>1 DEF Along
    <3> QED BY <1>5, <1>6, <3>1, <3>2
  <2>2. CASE i > k
    <3>1. PICK j \in 1..l : i = k + j
      <4>1. i - k \in 1..l /\ i = k + (i - k)
        BY <1>3, <1>4, <2>2
      <4> QED BY <4>1
    <3>2. CodeFits(g[j - 1], b[j], g[j])
      BY <1>2, <1>4 DEF Along
    <3>3. j \in 0..l /\ j - 1 \in 0..l /\ i - 1 = k + (j - 1)
      BY <1>3, <1>4, <3>1
    <3>4. h[i - 1] = g[j - 1] /\ h[i] = g[j] /\ (a \o b)[i] = b[j]
      BY <1>5, <1>7, <3>1, <3>3
    <3> QED BY <3>2, <3>4
  <2> QED BY <1>3, <1>4, <2>1, <2>2
<1>9. Along(h, a \o b)
  BY <1>5, <1>8 DEF Along
<1>10. h[0] = s /\ h[k + l] = t
  <2>1. 0 \in 0..k /\ l \in 0..l
    BY <1>3
  <2>2. h[0] = f[0] /\ h[k + l] = g[l]
    BY <1>6, <1>7, <2>1
  <2> QED BY <1>1, <1>2, <1>4, <2>2
<1> QED BY <1>5, <1>9, <1>10 DEF Leads

-----------------------------------------------------------------------------
(***************************************************************************)
(* The codes of a run.                                                     *)
(***************************************************************************)
RunModes == {"1D", "h1", "h2"}
\* Where a run leads to that begins in the mode md and ends at y.
RunTo(n, y, c, md) ==
  IF md = "h1" THEN Spot(n, y, 1 - c, "h2")
  ELSE SpotTo(n, y, 1 - c, IF md = "1D" THEN "1D" ELSE "2D")

LEMMA LongerFits ==
  ASSUME NEW n, NEW x \in Nat, NEW y \in 0..lastx, NEW c, NEW md \in RunModes,
         InData(n), Alike(n, x, y, c), NEW k \in MakeUps, y = x + k
  PROVE  CodeFits(Spot(n, x, c, md), MakeUpCode(c, k), Spot(n, y, c, md))
<1> DEFINE s == Spot(n, x, c, md)
<1>1. s.no = n /\ s.x = x /\ s.c = c /\ s.md = md
  BY DEF Spot
<1>2. y <= lastx
  BY Width
<1> HIDE DEF s
<1>3. MakesLonger(s, MakeUpCode(c, k), Spot(n, y, c, md))
  BY <1>1, <1>2 DEF MakesLonger, RunModes
<1>4. InData(s.no)
  BY <1>1
<1> QED BY <1>3, <1>4 DEF CodeFits, s

LEMMA EndFits ==
  ASSUME NEW n, NEW x \in Nat, NEW y \in 0..lastx, NEW c, NEW md \in RunModes,
         InData(n), Alike(n, x, y, c), TurnsAt(n, y, c), NEW k \in Lengths, y = x + k
  PROVE  CodeFits(Spot(n, x, c, md), TermCode(c, k), RunTo(n, y, c, md))
<1> DEFINE s == Spot(n, x, c, md)
<1>1. s.no = n /\ s.x = x /\ s.c = c /\ s.md = md
  BY DEF Spot
<1>2. y <= lastx
  BY Width
<1>3. \/ md = "1D" /\ RunTo(n, y, c, md) = SpotTo(n, y, 1 - c, "1D")
      \/ md = "h1" /\ RunTo(n, y, c, md) = Spot(n, y, 1 - c, "h2")
      \/ md = "h2" /\ RunTo(n, y, c, md) = SpotTo(n, y, 1 - c, "2D")
  BY DEF RunTo, RunModes
<1> HIDE DEF s
<1>4. EndsRun(s, TermCode(c, k), RunTo(n, y, c, md))
  BY <1>1, <1>2, <1>3 DEF EndsRun
<1>5. InData(s.no)
  BY <1>1
<1> QED BY <1>4, <1>5 DEF CodeFits, s

\* A part of a run of one color.
LEMMA AlikeParts ==
  ASSUME NEW n, NEW c, NEW x \in Nat, NEW y \in Nat, Alike(n, x, y, c),
         NEW a \in x..y, NEW b \in a..y
  PROVE  Alike(n, a, b, c)
BY DEF Alike

\* The longest make-up code, as often as it is needed.
LEMMA LongsLead ==
  ASSUME NEW n, NEW c \in {White, Black}, NEW md \in RunModes, NEW x \in Nat,
         NEW k \in Nat, NEW y \in 0..lastx, y = x + k * LongMakeUp,
         InData(n), Alike(n, x, y, c)
  PROVE  Leads(Spot(n, x, c, md), [i \in 1..k |-> MakeUpCode(c, LongMakeUp)],
               Spot(n, y, c, md))
<1> DEFINE codes == [i \in 1..k |-> MakeUpCode(c, LongMakeUp)]
           X(i) == x + i * LongMakeUp
           f == [i \in Nat |-> Spot(n, X(i), c, md)]
<1>1. LongMakeUp \in Nat /\ LongMakeUp > 0 /\ LongMakeUp \in MakeUps /\ lastx \in Nat
  BY FaxAssumption, Width DEF MakeUps
<1>2. Len(codes) = k /\ \A i \in 1..k : codes[i] = MakeUpCode(c, LongMakeUp)
  OBVIOUS
<1>3. f[0] = Spot(n, x, c, md) /\ f[k] = Spot(n, y, c, md)
  <2>1. X(0) = x /\ X(k) = y /\ 0 \in Nat
    BY <1>1
  <2> HIDE DEF X
  <2> QED BY <2>1
<1>4. ASSUME NEW i \in 1..k PROVE CodeFits(f[i - 1], codes[i], f[i])
  <2>1. PICK j \in Nat : j = i - 1 /\ i \in Nat /\ j < k /\ i <= k /\ i = j + 1
    OBVIOUS
  <2>2. X(j) \in Nat /\ X(i) = X(j) + LongMakeUp /\ X(j) >= x
    BY <1>1, <2>1
  <2>3. X(i) <= y
    <3>1. i * LongMakeUp <= k * LongMakeUp
      BY <1>1, <2>1
    <3> QED BY <1>1, <2>1, <3>1
  <2> HIDE DEF X
  <2>4. X(i) \in 0..lastx /\ X(j) \in x..y /\ X(i) \in X(j)..y /\ y \in Nat
    BY <1>1, <2>2, <2>3
  <2>5. Alike(n, X(j), X(i), c)
    BY <2>4, AlikeParts
  <2>6. CodeFits(Spot(n, X(j), c, md), MakeUpCode(c, LongMakeUp), Spot(n, X(i), c, md))
    BY <1>1, <2>2, <2>4, <2>5, LongerFits
  <2>7. f[j] = Spot(n, X(j), c, md) /\ f[i] = Spot(n, X(i), c, md)
    BY <2>1
  <2> QED BY <1>2, <2>1, <2>6, <2>7
<1> HIDE DEF codes, f
<1>5. Along(f, codes)
  BY <1>2, <1>4 DEF Along
<1>6. Leads(Spot(n, x, c, md), codes, Spot(n, y, c, md))
  BY <1>2, <1>3, <1>5, SMTT(30) DEF Leads
<1> QED BY <1>6 DEF codes

\* What putspan makes of the length of a run.
LEMMA SpanNumbers ==
  ASSUME NEW span \in Nat, NEW long, NEW rest,
         long = (IF span < LongMakeUp + MakeUp THEN 0 ELSE (span - MakeUp) \div LongMakeUp),
         rest = span - long * LongMakeUp
  PROVE  /\ long \in Nat /\ rest \in Nat /\ long * LongMakeUp \in Nat
         /\ span = long * LongMakeUp + rest
         /\ rest % MakeUp \in Nat /\ rest % MakeUp < MakeUp
         /\ rest >= MakeUp => rest - (rest % MakeUp) \in MakeUps
         /\ rest < MakeUp => rest % MakeUp = rest
<1>1. /\ LongMakeUp \in Nat /\ LongMakeUp > 0 /\ MakeUp \in Nat /\ MakeUp > 0
      /\ LongMakeUp \in Nat \ {0} /\ MakeUp \in Nat \ {0}
      /\ LongMakeUp % MakeUp = 0
  BY FaxAssumption
<1>2. /\ long \in Nat /\ rest \in Nat /\ long * LongMakeUp \in Nat
      /\ span = long * LongMakeUp + rest /\ rest < LongMakeUp + MakeUp
  <2>1. CASE span < LongMakeUp + MakeUp
    <3>1. long = 0 /\ long * LongMakeUp = 0
      BY <1>1, <2>1
    <3> QED BY <1>1, <2>1, <3>1
  <2>2. CASE ~(span < LongMakeUp + MakeUp)
    <3>1. span - MakeUp \in Nat /\ long = (span - MakeUp) \div LongMakeUp
      BY <1>1, <2>2
    <3>2. PICK u \in Nat : u = span - MakeUp
      BY <3>1
    <3>3. PICK r \in Nat : r = u % LongMakeUp
      BY <1>1, Divided
    <3>4. long \in Nat /\ u = LongMakeUp * long + r /\ r < LongMakeUp
      BY <1>1, <3>1, <3>2, <3>3, Divided
    <3>5. PICK p \in Nat : p = long * LongMakeUp /\ p = LongMakeUp * long
      BY <1>1, <3>4
    <3>6. rest = span - p /\ u = p + r
      BY <3>4, <3>5
    <3>7. rest = MakeUp + r
      BY <1>1, <3>2, <3>6
    <3> QED BY <1>1, <3>3, <3>4, <3>5, <3>6, <3>7
  <2> QED BY <2>1, <2>2
<1>3. PICK r \in Nat : r = rest % MakeUp
  BY <1>1, <1>2, Divided
<1>4. PICK q \in Nat : q = rest \div MakeUp
  BY <1>1, <1>2, Divided
<1>5. r < MakeUp /\ rest = MakeUp * q + r
  BY <1>1, <1>2, <1>3, <1>4, Divided
<1>6. PICK l \in Nat : LongMakeUp = MakeUp * l
  <2>1. PICK l \in Nat : l = LongMakeUp \div MakeUp
    BY <1>1, Divided
  <2>2. LongMakeUp = MakeUp * l + 0
    BY <1>1, <2>1, Divided
  <2>3. MakeUp * l \in Nat
    BY <1>1
  <2> QED BY <2>2, <2>3
<1>7. MakeUp * q \in Nat /\ MakeUp * q = rest - r
  BY <1>1, <1>2, <1>5
<1>8. ASSUME rest >= MakeUp PROVE rest - r \in MakeUps
  <2>1. MakeUp * q <= LongMakeUp
    <3>1. MakeUp * q < MakeUp * l + MakeUp
      BY <1>1, <1>2, <1>5, <1>6, <1>7
    <3>2. q < l + 1
      <4>1. ASSUME q >= l + 1 PROVE FALSE
        <5>1. PICK e \in Nat : q = (l + 1) + e
          <6>1. q - (l + 1) \in Nat
            BY <4>1
          <6> QED BY <6>1
        <5>2. MakeUp * q = MakeUp * l + MakeUp + MakeUp * e /\ MakeUp * e \in Nat
              /\ MakeUp * l \in Nat
          BY <1>1, <5>1
        <5> QED BY <1>1, <1>7, <3>1, <5>2
      <4> QED BY <4>1
    <3>3. PICK e \in Nat : l = q + e
      <4>1. l - q \in Nat
        BY <3>2
      <4> QED BY <4>1
    <3>4. MakeUp * l = MakeUp * q + MakeUp * e /\ MakeUp * e \in Nat
      BY <1>1, <3>3
    <3> QED BY <1>6, <1>7, <3>4
  <2>2. rest - r >= 1
    BY <1>1, <1>2, <1>5, <1>8
  <2>3. (MakeUp * q) % MakeUp = 0
    BY <1>1
  <2>4. rest - r \in 1..LongMakeUp /\ (rest - r) % MakeUp = 0
    BY <1>1, <1>2, <1>7, <2>1, <2>2, <2>3
  <2> QED BY <2>4 DEF MakeUps
<1>9. rest < MakeUp => r = rest
  BY <1>1, <1>2, <1>3
<1> QED BY <1>2, <1>3, <1>5, <1>8, <1>9

\* putspan: the codes of a run lead to its end.
LEMMA SpanLeads ==
  ASSUME NEW n, NEW c \in {White, Black}, NEW md \in RunModes,
         NEW x \in 0..lastx, NEW y \in x..lastx,
         InData(n), Alike(n, x, y, c), TurnsAt(n, y, c)
  PROVE  /\ Leads(Spot(n, x, c, md), PutSpan(y - x, c), RunTo(n, y, c, md))
         /\ PutSpan(y - x, c) \in Seq(FaxCodes)
<1> DEFINE span == y - x
           long == IF span < LongMakeUp + MakeUp THEN 0 ELSE (span - MakeUp) \div LongMakeUp
           rest == span - long * LongMakeUp
           longs == [i \in 1..long |-> MakeUpCode(c, LongMakeUp)]
           middle == IF rest < MakeUp THEN <<>> ELSE <<MakeUpCode(c, rest - (rest % MakeUp))>>
           last == <<TermCode(c, rest % MakeUp)>>
<1>1. x \in Nat /\ y \in Nat /\ y \in 0..lastx /\ lastx \in Nat /\ span \in Nat /\ c \in Int
      /\ y = x + span
  BY Width, ColorsAre
<1>2. PutSpan(span, c) = longs \o middle \o last
  BY DEF PutSpan
<1>3. /\ long \in Nat /\ rest \in Nat /\ long * LongMakeUp \in Nat
      /\ span = long * LongMakeUp + rest
      /\ rest % MakeUp \in Nat /\ rest % MakeUp < MakeUp
      /\ rest >= MakeUp => rest - (rest % MakeUp) \in MakeUps
      /\ rest < MakeUp => rest % MakeUp = rest
  <2>1. PICK size \in Nat : size = span
    BY <1>1
  <2>2. PICK big : big = long
    OBVIOUS
  <2>3. PICK left : left = rest
    OBVIOUS
  <2>4. big = (IF size < LongMakeUp + MakeUp THEN 0 ELSE (size - MakeUp) \div LongMakeUp)
        /\ left = size - big * LongMakeUp
    BY <2>1, <2>2, <2>3
  <2> HIDE DEF span, long, rest
  <2>5. /\ big \in Nat /\ left \in Nat /\ big * LongMakeUp \in Nat
        /\ size = big * LongMakeUp + left
        /\ left % MakeUp \in Nat /\ left % MakeUp < MakeUp
        /\ left >= MakeUp => left - (left % MakeUp) \in MakeUps
        /\ left < MakeUp => left % MakeUp = left
    BY <2>4, SpanNumbers
  <2> QED BY <2>1, <2>2, <2>3, <2>5
<1>4. /\ longs \in Seq(FaxCodes) /\ middle \in Seq(FaxCodes) /\ last \in Seq(FaxCodes)
  <2> HIDE DEF long, rest
  <2>1. longs \in Seq(FaxCodes)
    BY <1>1, <1>3, CodeTypes, FaxAssumption
  <2>2. middle \in Seq(FaxCodes)
    <3>1. CASE rest < MakeUp
      BY <3>1
    <3>2. CASE ~(rest < MakeUp)
      <4>1. rest - (rest % MakeUp) \in Nat
        BY <1>3, <3>2, FaxAssumption DEF MakeUps
      <4>2. MakeUpCode(c, rest - (rest % MakeUp)) \in FaxCodes
        BY <1>1, <4>1, CodeTypes
      <4> QED BY <3>2, <4>2
    <3> QED BY <3>1, <3>2
  <2>3. last \in Seq(FaxCodes)
    BY <1>1, <1>3, CodeTypes
  <2> QED BY <2>1, <2>2, <2>3
<1> HIDE DEF span, long, rest
<1> DEFINE x1 == x + long * LongMakeUp
           x2 == y - (rest % MakeUp)
<1>5. PICK p \in Nat : p = long * LongMakeUp
  BY <1>3
<1>6. PICK r \in Nat : r = rest % MakeUp
  BY <1>3
<1>7. MakeUp \in Nat
  BY FaxAssumption
<1>8. r <= rest
  BY <1>3, <1>6, <1>7
<1>9. x1 = x + p /\ x2 = y - r /\ y = x1 + rest /\ x1 \in Nat /\ x2 \in Nat /\ x1 <= x2
      /\ rest \in Nat
  BY <1>1, <1>3, <1>5, <1>6, <1>8
<1> HIDE DEF x1, x2
<1>10. /\ x1 \in 0..lastx /\ x2 \in 0..lastx
       /\ x1 \in x..y /\ x2 \in x1..y /\ y \in x2..y /\ x2 \in x..y /\ x \in x..y
  BY <1>1, <1>5, <1>6, <1>9
<1>11. /\ Alike(n, x, x1, c) /\ Alike(n, x1, x2, c) /\ Alike(n, x2, y, c)
  <2>1. x1 \in x..y /\ x2 \in x1..y /\ y \in x2..y /\ x2 \in x..y /\ x \in x..y
    BY <1>10
  <2> QED BY <1>1, <2>1, AlikeParts
<1>12. Leads(Spot(n, x, c, md), longs, Spot(n, x1, c, md))
  BY <1>1, <1>3, <1>10, <1>11, LongsLead DEF x1
<1>13. Leads(Spot(n, x1, c, md), middle, Spot(n, x2, c, md))
  <2>1. CASE rest < MakeUp
    <3>1. x1 = x2 /\ middle = <<>>
      BY <1>3, <1>6, <1>9, <2>1
    <3> QED BY <3>1, LeadsNothing
  <2>2. CASE ~(rest < MakeUp)
    <3>1. PICK k \in MakeUps : k = rest - r
      BY <1>3, <1>6, <1>7, <2>2
    <3>2. middle = <<MakeUpCode(c, k)>>
      BY <1>6, <2>2, <3>1
    <3>3. x2 = x1 + k
      <4>1. k \in Int
        BY <1>6, <1>9, <3>1
      <4> QED BY <1>6, <1>9, <3>1, <4>1
    <3>4. CodeFits(Spot(n, x1, c, md), MakeUpCode(c, k), Spot(n, x2, c, md))
      BY <1>9, <1>10, <1>11, <3>3, LongerFits
    <3> QED BY <3>2, <3>4, LeadsOne
  <2> QED BY <2>1, <2>2
<1>14. Leads(Spot(n, x2, c, md), last, RunTo(n, y, c, md))
  <2>1. r \in Lengths /\ y = x2 + r
    BY <1>1, <1>3, <1>6, <1>7, <1>9 DEF Lengths
  <2>2. CodeFits(Spot(n, x2, c, md), TermCode(c, r), RunTo(n, y, c, md))
    BY <1>1, <1>9, <1>11, <2>1, EndFits
  <2>3. last = <<TermCode(c, r)>>
    BY <1>6
  <2> QED BY <2>2, <2>3, LeadsOne
<1> HIDE DEF longs, middle, last
<1>15. longs \o middle \in Seq(FaxCodes)
  BY <1>4
<1>16. Leads(Spot(n, x, c, md), longs \o middle, Spot(n, x2, c, md))
  BY <1>4, <1>12, <1>13, LeadsJoin
<1>17. Leads(Spot(n, x, c, md), longs \o middle \o last, RunTo(n, y, c, md))
  BY <1>4, <1>14, <1>15, <1>16, LeadsJoin
<1>18. longs \o middle \o last \in Seq(FaxCodes)
  BY <1>4, <1>15
<1> QED BY <1>2, <1>17, <1>18 DEF span

-----------------------------------------------------------------------------
(***************************************************************************)
(* The strip is not changed, and so neither is what its codes say.         *)
(***************************************************************************)
LEMMA RowsKept ==
  ASSUME UNCHANGED stripVars
  PROVE  /\ \A n : Row(n)' = Row(n) /\ RefRow(n)' = RefRow(n) /\ LineStart(n)' = LineStart(n)
         /\ \A n : InData(n)' <=> InData(n)
         /\ \A n, x, c, md : SpotTo(n, x, c, md)' = SpotTo(n, x, c, md)
         /\ Bilevel' <=> Bilevel
<1>1. data' = data /\ scheme' = scheme
  BY DEF stripVars
<1>2. \A n : LineStart(n)' = LineStart(n)
  BY <1>1 DEF LineStart, HasEol
<1>3. \A n : Row(n)' = Row(n)
  BY <1>1 DEF Row
<1>4. \A n : RefRow(n)' = RefRow(n)
  BY <1>3 DEF RefRow
<1>5. \A n : InData(n)' <=> InData(n)
  BY <1>1 DEF InData
<1>6. \A n, x, c, md : SpotTo(n, x, c, md)' = SpotTo(n, x, c, md)
  BY <1>2 DEF SpotTo
<1>7. Bilevel' <=> Bilevel
  BY <1>1 DEF Bilevel
<1> QED BY <1>2, <1>3, <1>4, <1>5, <1>6, <1>7

LEMMA FitsKept ==
  ASSUME UNCHANGED stripVars, NEW s, NEW q, NEW t, CodeFits(s, q, t)
  PROVE  CodeFits(s, q, t)'
<1>1. scheme' = scheme
  BY DEF stripVars
<1>2. /\ \A n : Row(n)' = Row(n) /\ RefRow(n)' = RefRow(n) /\ LineStart(n)' = LineStart(n)
      /\ \A n : InData(n)' <=> InData(n)
      /\ \A n, x, c, md : SpotTo(n, x, c, md)' = SpotTo(n, x, c, md)
  BY RowsKept
<1>3. \A n, x, y, c : /\ Alike(n, x, y, c)' <=> Alike(n, x, y, c)
                      /\ TurnsAt(n, x, c)' <=> TurnsAt(n, x, c)
  BY <1>2 DEF Alike, TurnsAt
<1>4. NextChange(s)' = NextChange(s)
  BY <1>2 DEF NextChange
<1>5. RefChange(s)' = RefChange(s)
  BY <1>2 DEF RefChange
<1>6. RefChange2(s)' = RefChange2(s)
  BY <1>2, <1>5 DEF RefChange2
<1>7. AtColor(s)' <=> AtColor(s)
  BY <1>2 DEF AtColor
<1>8. MakesLonger(s, q, t) => MakesLonger(s, q, t)'
  BY <1>3 DEF MakesLonger
<1>9. EndsRun(s, q, t) => EndsRun(s, q, t)'
  BY <1>2, <1>3 DEF EndsRun
<1>10. Compares(s, q, t) => Compares(s, q, t)'
  <2>1. Passes(s, q, t) => Passes(s, q, t)'
    BY <1>4, <1>6 DEF Passes
  <2>2. GoesBy(s, q, t) => GoesBy(s, q, t)'
    BY <1>2, <1>4, <1>5, <1>6 DEF GoesBy
  <2>3. TwoRuns(s, q, t) => TwoRuns(s, q, t)'
    BY DEF TwoRuns
  <2> QED BY <1>7, <2>1, <2>2, <2>3 DEF Compares
<1>11. BeginsLine(s, q, t) => BeginsLine(s, q, t)'
  BY <1>1 DEF BeginsLine
<1>12. EndsStrip(s, q, t) => EndsStrip(s, q, t)'
  BY <1>1, <1>2 DEF EndsStrip
<1>13. InData(s.no) => InData(s.no)'
  BY <1>2
<1> QED BY <1>8, <1>9, <1>10, <1>11, <1>12, <1>13 DEF CodeFits

LEMMA WaysKept ==
  ASSUME UNCHANGED stripVars
  PROVE  /\ \A f, codes : Along(f, codes) => Along(f, codes)'
         /\ \A s, codes, t : Leads(s, codes, t) => Leads(s, codes, t)'
<1>1. \A s, q, t : CodeFits(s, q, t) => CodeFits(s, q, t)'
  BY FitsKept
<1>2. ASSUME NEW f, NEW codes, Along(f, codes) PROVE Along(f, codes)'
  BY <1>1, <1>2 DEF Along
<1>3. ASSUME NEW s, NEW codes, NEW t, Leads(s, codes, t) PROVE Leads(s, codes, t)'
  <2>1. PICK f : f[0] = s /\ f[Len(codes)] = t /\ Along(f, codes)
    BY <1>3 DEF Leads
  <2>2. Along(f, codes)'
    BY <1>2, <2>1
  <2> QED BY <2>1, <2>2 DEF Leads
<1> QED BY <1>2, <1>3

-----------------------------------------------------------------------------
(***************************************************************************)
(* The encoder.                                                            *)
(***************************************************************************)
EncodingPcs == {"encode1D", "encode2D"}

\* The row that is encoded is in the strip.
LEMMA RowEncoded ==
  ASSUME FaxInv, Bilevel, given < Len(data)
  PROVE  /\ Now \in Nat \ {0} /\ InData(Now) /\ ThisRow = Row(Now)
         /\ \A i \in 1..lastx : Row(Now)[i] \in {White, Black}
         /\ (given + RowSize) \div RowSize + 1 = Now + 1
<1>1. /\ data \in Seq(Nat) /\ WholeRows(Len(data)) /\ given \in 0..Len(data) /\ WholeRows(given)
      /\ Len(data) \in Nat /\ given \in Nat
  BY DEF FaxInv, FaxStripOK
<1>2. RowSize \in Nat /\ RowSize > 0
  BY CodecAssumption
<1>3. given + RowSize <= Len(data)
  BY <1>1, <1>2, RowsAdded
<1>4. PICK k \in Nat : given = k * RowSize
  BY <1>1 DEF WholeRows
<1>5. given \div RowSize = k
  BY <1>2, <1>4
<1>6. (k + 1) * RowSize = given + RowSize
  BY <1>2, <1>4
<1>7. (given + RowSize) \div RowSize = k + 1
  BY <1>2, <1>6
<1>8. Now = k + 1 /\ Now \in Nat \ {0} /\ InData(Now)
  BY <1>3, <1>5, <1>6 DEF Now, InData
<1>9. ThisRow = Row(Now)
  BY DEF ThisRow, Now
<1> QED BY <1>5, <1>7, <1>8, <1>9, RowIsBilevel

LEMMA EncoderIs ==
  ASSUME FaxInv
  PROVE  /\ enc3 \in EncoderType /\ enc3.a0 \in 0..lastx /\ enc3.tag \in {"1D", "2D"}
         /\ stream \in Seq(FaxCodes) /\ given \in Nat /\ Len(data) \in Nat
         /\ given <= Len(data)
         /\ pc \in EncodingPcs => given < Len(data) /\ enc3.a0 < lastx
BY DEF FaxInv, FaxStripOK, EncoderType, EncodingPcs

\* What a step of the encoder leaves.
LEMMA EncodedOn ==
  ASSUME FaxInv, scheme \in FaxSchemes, Bilevel, UNCHANGED stripVars, pc \in EncoderPcs,
         pc' \in EncoderPcs,
         NEW s, Leads(LineStart(1), stream, s),
         NEW codes \in Seq(FaxCodes), stream' = stream \o codes,
         NEW t, Leads(s, codes, t), pc' # "sent" => EncodedTo(t)'
  PROVE  RowsInv'
<1>1. stream \in Seq(FaxCodes)
  BY EncoderIs
<1>2. Leads(LineStart(1), stream \o codes, t)
  BY <1>1, LeadsJoin
<1>3. Leads(LineStart(1), stream', t)
  BY <1>2
<1>4. PICK u : u = stream'
  OBVIOUS
<1>5. PICK z : z = LineStart(1)
  OBVIOUS
<1>6. Leads(z, u, t)'
  BY <1>3, <1>4, <1>5, WaysKept
<1>7. z = LineStart(1)'
  BY <1>5, RowsKept
<1>8. Leads(LineStart(1), stream, t)'
  BY <1>4, <1>6, <1>7
<1>9. Bilevel' /\ scheme' \in FaxSchemes
  BY RowsKept DEF stripVars
<1> QED BY <1>8, <1>9 DEF RowsInv

LEMMA StartLineRows == FaxInv /\ RowsInv /\ StartLine => RowsInv'
<1> SUFFICES ASSUME FaxInv, RowsInv, StartLine PROVE RowsInv'
  OBVIOUS
<1>1. /\ pc = "line" /\ given < Len(data) /\ UNCHANGED stripVars
      /\ given' = given
      /\ enc3' = [enc3 EXCEPT !.a0 = 0, !.color = White, !.first = TRUE]
      /\ stream' = IF HasEol THEN Append(stream, EolCode(enc3.tag = "1D", Now)) ELSE stream
      /\ pc' = IF Coding2D THEN "encode2D" ELSE "encode1D"
      /\ scheme' = scheme
  BY DEF StartLine, Now, stripVars
<1>2. scheme \in FaxSchemes /\ Bilevel /\ pc \in EncoderPcs /\ pc' \in EncoderPcs /\ pc' # "sent" /\ pc' # "line"
      /\ pc # "sent"
  BY <1>1 DEF RowsInv, EncoderPcs
<1>3. PICK s : Leads(LineStart(1), stream, s) /\ EncodedTo(s)
  BY <1>1, <1>2 DEF RowsInv
<1>4. s = LineStart(Now) /\ (Coding2D => enc3.refline = RefRow(Now))
      /\ (scheme = "g3" => enc3.tag = "1D")
  BY <1>1, <1>3 DEF EncodedTo
<1>5. Now \in Nat \ {0} /\ InData(Now) /\ stream \in Seq(FaxCodes)
      /\ enc3 \in EncoderType /\ enc3.tag \in {"1D", "2D"}
  BY <1>1, <1>2, RowEncoded, EncoderIs
<1>6. PICK t : t = Spot(Now, 0, White, IF Coding2D THEN "2D" ELSE "1D")
  OBVIOUS
<1>7. PICK codes \in Seq(FaxCodes) : stream' = stream \o codes /\ Leads(s, codes, t)
  <2>1. CASE HasEol
    <3> DEFINE b == enc3.tag = "1D"
    <3>1. Coding2D <=> ~b
      BY <1>4, <1>5, <2>1 DEF Coding2D, HasEol
    <3>2. s.md = "line" /\ s.no = Now
      BY <1>4, <2>1 DEF LineStart, Spot
    <3>3. t = Spot(s.no, 0, White, IF b THEN "1D" ELSE "2D")
      BY <1>6, <3>1, <3>2
    <3>4. BeginsLine(s, EolCode(b, Now), t)
      <4>1. scheme = "g3" => b
        BY <1>4
      <4>2. b \in BOOLEAN
        OBVIOUS
      <4> HIDE DEF b
      <4> QED BY <3>2, <3>3, <4>1, <4>2 DEF BeginsLine
    <3>5. CodeFits(s, EolCode(b, Now), t)
      BY <1>5, <3>2, <3>4 DEF CodeFits
    <3>6. Leads(s, <<EolCode(b, Now)>>, t)
      BY <3>5, LeadsOne
    <3>7. EolCode(b, Now) \in FaxCodes
      BY <1>5, CodeTypes
    <3>8. PICK eol : eol = EolCode(b, Now)
      OBVIOUS
    <3> HIDE DEF b
    <3>9. stream' = Append(stream, eol)
      BY <1>1, <2>1, <3>8 DEF b
    <3>10. eol \in FaxCodes
      BY <3>7, <3>8
    <3>11. stream' = stream \o <<eol>> /\ <<eol>> \in Seq(FaxCodes)
      BY <1>5, <3>9, <3>10
    <3>12. Leads(s, <<eol>>, t)
      BY <3>6, <3>8
    <3> QED BY <3>11, <3>12
  <2>2. CASE ~HasEol
    <3>1. Leads(s, <<>>, s)
      BY LeadsNothing
    <3>2. s = t
      <4>1. scheme \in FaxSchemes
        BY <1>2
      <4>2. scheme \in {"rle", "g4"}
        BY <2>2, <4>1 DEF HasEol, FaxSchemes
      <4> QED BY <1>4, <1>6, <2>2, <4>2 DEF LineStart, Coding2D
    <3>3. stream' = stream \o <<>> /\ <<>> \in Seq(FaxCodes)
      BY <1>1, <1>5, <2>2
    <3> QED BY <3>1, <3>2, <3>3
  <2> QED BY <2>1, <2>2
<1>8. EncodedTo(t)'
  <2>1. Now' = Now
    BY <1>1 DEF Now
  <2>2. enc3'.a0 = 0 /\ enc3'.color = White /\ enc3'.first = TRUE /\ enc3'.tag = enc3.tag
        /\ enc3'.refline = enc3.refline
    BY <1>1, <1>5 DEF EncoderType
  <2>3. Coding2D' <=> Coding2D
    BY <1>1, <2>2 DEF Coding2D
  <2>4. A0Color' = White
    BY <2>2 DEF A0Color
  <2>5. First(t) /\ AtColor(t)'
    BY <1>6 DEF First, AtColor, Spot
  <2>6. RefRow(Now)' = RefRow(Now)
    BY <1>1, <2>1 DEF RefRow, Row, stripVars
  <2>7. (pc = "encode1D")' => ~Coding2D
    BY <1>1
  <2>8. (pc = "encode2D")' => Coding2D
    BY <1>1
  <2> QED BY <1>1, <1>2, <1>4, <2>1, <2>2, <2>3, <2>4, <2>5, <2>6, <2>7, <2>8, <1>6 DEF EncodedTo
<1> QED BY <1>1, <1>2, <1>3, <1>7, <1>8, EncodedOn

\* What a step of the encoder leaves that puts codes into the stream.
LEMMA PutCodesRows ==
  ASSUME FaxInv, scheme \in FaxSchemes, Bilevel, pc \in EncodingPcs,
         NEW s, Leads(LineStart(1), stream, s), EncodedTo(s),
         NEW codes \in Seq(FaxCodes), NEW e \in EncoderType, PutCodes(codes, e),
         e.tag = enc3.tag, e.refline = enc3.refline,
         NEW c, NEW md, Leads(s, codes, SpotTo(Now, e.a0, c, md)),
         e.a0 < lastx =>
           /\ Row(Now)[e.a0 + 1] = c
           /\ pc = "encode1D" => md = "1D" /\ e.color = c
           /\ pc = "encode2D" => md = "2D" /\ ~e.first /\ ~(e.a0 = 0 /\ c = White)
  PROVE  RowsInv'
<1>0. PICK t : t = SpotTo(Now, e.a0, c, md)
  OBVIOUS
<1>1. /\ stream' = stream \o codes /\ UNCHANGED stripVars /\ scheme' = scheme
  BY DEF PutCodes, stripVars
<1>2. given < Len(data) /\ enc3.a0 \in 0..lastx /\ given \in Nat /\ enc3 \in EncoderType
  BY EncoderIs DEF EncodingPcs
<1>3. /\ Now \in Nat \ {0} /\ ThisRow = Row(Now)
      /\ (given + RowSize) \div RowSize + 1 = Now + 1
  BY <1>2, RowEncoded
<1>4. e.a0 \in 0..lastx /\ lastx \in Nat /\ e.tag \in {"1D", "2D"}
  BY Width DEF EncoderType
<1>5. pc \in EncoderPcs /\ pc # "line" /\ pc # "sent"
  BY DEF EncodingPcs, EncoderPcs
<1>6. /\ Coding2D => enc3.refline = RefRow(Now)
      /\ scheme = "g3" => enc3.tag = "1D"
      /\ pc = "encode1D" => ~Coding2D
      /\ pc = "encode2D" => Coding2D
  BY DEF EncodedTo
<1>7. CASE e.a0 = lastx
  <2>1. enc3' = NextTag(e) /\ given' = given + RowSize /\ pc' = "line"
    BY <1>7 DEF PutCodes
  <2>2. t = LineStart(Now + 1) /\ Now' = Now + 1
    BY <1>0, <1>3, <1>7, <2>1 DEF SpotTo, Now
  <2>3. t = LineStart(Now)'
    BY <1>1, <2>2, RowsKept
  <2>4. RefRow(Now)' = Row(Now)
    <3>1. Now + 1 # 1 /\ (Now + 1) - 1 = Now
      BY <1>3
    <3>2. RefRow(Now + 1) = Row(Now)
      BY <3>1 DEF RefRow
    <3> QED BY <1>1, <2>2, <3>2 DEF RefRow, Row, stripVars
  <2>5. Coding2D' => enc3'.refline = Row(Now)
    <3>1. CASE scheme = "g4"
      BY <1>3, <2>1, <3>1 DEF NextTag, EncoderType
    <3>2. CASE scheme # "g4"
      <4>1. Coding2D' => scheme = "g32d" /\ enc3'.tag = "2D"
        BY <1>1, <3>2 DEF Coding2D
      <4>2. scheme = "g32d" /\ enc3'.tag = "2D" => enc3'.refline = ThisRow
        BY <2>1 DEF NextTag, EncoderType
      <4> QED BY <1>3, <4>1, <4>2
    <3> QED BY <3>1, <3>2
  <2>6. scheme = "g3" => enc3'.tag = "1D"
    BY <1>6, <2>1 DEF NextTag
  <2>7. EncodedTo(t)'
    BY <1>1, <2>1, <2>3, <2>4, <2>5, <2>6 DEF EncodedTo
  <2>8. pc' \in EncoderPcs
    BY <2>1 DEF EncoderPcs
  <2>9. Leads(s, codes, t)
    BY <1>0
  <2> QED BY <1>1, <1>5, <2>7, <2>8, <2>9, EncodedOn
<1>8. CASE e.a0 # lastx
  <2>1. enc3' = e /\ given' = given /\ pc' = pc /\ e.a0 < lastx
    BY <1>4, <1>8 DEF PutCodes
  <2>2. t = Spot(Now, e.a0, c, md) /\ Now' = Now
    BY <1>0, <1>8, <2>1 DEF SpotTo, Now
  <2>3. RefRow(Now)' = RefRow(Now) /\ Row(Now)' = Row(Now) /\ ThisRow' = ThisRow
    BY <1>1, <2>1, <2>2 DEF RefRow, Row, ThisRow, stripVars
  <2>4. (Coding2D' <=> Coding2D) /\ enc3'.refline = enc3.refline /\ enc3'.tag = enc3.tag
    BY <1>1, <2>1 DEF Coding2D
  <2>5. Row(Now)[e.a0 + 1] = c
    BY <2>1
  <2>6. AtColor(t)'
    BY <2>2, <2>5, <1>1 DEF AtColor, Spot, Row, stripVars
  <2>7. pc = "encode1D" => t = Spot(Now, enc3.a0, enc3.color, "1D")'
    BY <2>1, <2>2
  <2>8. pc = "encode2D" => t = Spot(Now, enc3.a0, A0Color, "2D")' /\ ~First(t) /\ ~enc3'.first
    <3> SUFFICES ASSUME pc = "encode2D"
                 PROVE  t = Spot(Now, enc3.a0, A0Color, "2D")' /\ ~First(t) /\ ~enc3'.first
      OBVIOUS
    <3>1. md = "2D" /\ ~e.first /\ ~(e.a0 = 0 /\ c = White)
      BY <2>1
    <3>2. A0Color' = c
      <4>1. enc3'.first = FALSE /\ enc3'.a0 = e.a0
        BY <2>1, <3>1
      <4>2. A0Color' = ThisRow'[enc3'.a0 + 1]
        BY <4>1 DEF A0Color
      <4> QED BY <1>3, <2>3, <2>5, <4>1, <4>2
    <3>3. ~First(t)
      BY <2>2, <3>1 DEF First, Spot
    <3> QED BY <2>1, <2>2, <3>1, <3>2, <3>3
  <2>9. First(t)' <=> First(t)
    BY DEF First
  <2>10. EncodedTo(t)'
    BY <1>1, <1>5, <1>6, <2>1, <2>3, <2>2, <2>4, <2>6, <2>7, <2>8, <2>9 DEF EncodedTo
  <2>11. pc' \in EncoderPcs
    BY <1>5, <2>1
  <2>12. Leads(s, codes, t)
    BY <1>0
  <2> QED BY <1>1, <1>5, <2>10, <2>11, <2>12, EncodedOn
<1> QED BY <1>7, <1>8

\* What the encoder begins a step of a row with.
LEMMA StepBegins ==
  ASSUME FaxInv, RowsInv, pc \in EncodingPcs
  PROVE  /\ scheme \in FaxSchemes /\ Bilevel
         /\ \E s : Leads(LineStart(1), stream, s) /\ EncodedTo(s) /\ s \in Spots /\ AtColor(s)
         /\ Now \in Nat \ {0} /\ InData(Now) /\ ThisRow = Row(Now)
         /\ \A i \in 1..lastx : Row(Now)[i] \in {White, Black}
         /\ enc3 \in EncoderType /\ enc3.a0 \in 0..lastx /\ enc3.a0 < lastx
<1>1. scheme \in FaxSchemes /\ Bilevel /\ pc \in EncoderPcs /\ pc # "sent"
  BY DEF RowsInv, EncodingPcs, EncoderPcs
<1>2. PICK s : Leads(LineStart(1), stream, s) /\ EncodedTo(s)
  BY <1>1 DEF RowsInv
<1>3. AtColor(s)
  BY <1>2 DEF EncodedTo, EncodingPcs
<1>4. stream \in Seq(FaxCodes) /\ given < Len(data) /\ enc3 \in EncoderType
      /\ enc3.a0 \in 0..lastx /\ enc3.a0 < lastx
  BY EncoderIs
<1>5. s \in Spots
  <2>1. PICK f : f[0] = LineStart(1) /\ f[Len(stream)] = s /\ Along(f, stream)
    BY <1>2 DEF Leads
  <2>2. LineStart(1) \in Spots
    <3>1. 1 \in Nat \ {0} /\ 0 \in 0..lastx /\ White \in {White, Black} /\ "1D" \in Modes
      BY Width DEF Modes
    <3> QED BY <3>1, SpotIs
  <2>3. Len(stream) \in 0..Len(stream)
    BY <1>4
  <2> QED BY <1>4, <2>1, <2>2, <2>3, AlongSpots
<1> QED BY <1>1, <1>2, <1>3, <1>4, <1>5, RowEncoded

LEMMA Encode1DRowRows == FaxInv /\ RowsInv /\ Encode1DRow => RowsInv'
<1> SUFFICES ASSUME FaxInv, RowsInv, Encode1DRow PROVE RowsInv'
  OBVIOUS
<1> DEFINE end == FindDiff(ThisRow, enc3.a0, enc3.color)
           codes == PutSpan(end - enc3.a0, enc3.color)
           e == [enc3 EXCEPT !.a0 = end, !.color = 1 - @]
<1>1. pc = "encode1D" /\ pc \in EncodingPcs /\ PutCodes(codes, e)
  BY DEF Encode1DRow, EncodingPcs
<1>2. /\ scheme \in FaxSchemes /\ Bilevel
      /\ Now \in Nat \ {0} /\ InData(Now) /\ ThisRow = Row(Now)
      /\ \A i \in 1..lastx : Row(Now)[i] \in {White, Black}
      /\ enc3 \in EncoderType /\ enc3.a0 \in 0..lastx
  BY <1>1, StepBegins
<1>3. PICK s \in Spots : Leads(LineStart(1), stream, s) /\ EncodedTo(s)
  BY <1>1, StepBegins
<1>4. s = Spot(Now, enc3.a0, enc3.color, "1D")
  BY <1>1, <1>3 DEF EncodedTo
<1>5. enc3.color \in {White, Black}
  <2>1. s.c = enc3.color
    BY <1>4 DEF Spot
  <2> QED BY <2>1, SpotParts
<1>6. PICK x \in 0..lastx : x = enc3.a0
  BY <1>2
<1>7. PICK c \in {White, Black} : c = enc3.color
  BY <1>5
<1>8. PICK y : y = end
  OBVIOUS
<1>9. /\ y \in x..lastx /\ (y = lastx \/ Row(Now)[y + 1] # c)
      /\ \A i \in (x + 1)..y : Row(Now)[i] = c
  BY <1>2, <1>6, <1>7, <1>8, DiffStops
<1>10. y \in 0..lastx /\ y \in Nat
  BY <1>6, <1>9, Width
<1>11. /\ Leads(Spot(Now, x, c, "1D"), PutSpan(y - x, c), RunTo(Now, y, c, "1D"))
       /\ PutSpan(y - x, c) \in Seq(FaxCodes)
  <2>1. Alike(Now, x, y, c) /\ TurnsAt(Now, y, c)
    BY <1>9 DEF Alike, TurnsAt
  <2>2. "1D" \in RunModes
    BY DEF RunModes
  <2> QED BY <1>2, <1>9, <2>1, <2>2, SpanLeads
<1>12. RunTo(Now, y, c, "1D") = SpotTo(Now, y, 1 - c, "1D")
  BY DEF RunTo
<1>13. /\ e \in EncoderType /\ e.a0 = y /\ e.color = 1 - c
       /\ e.tag = enc3.tag /\ e.refline = enc3.refline
  <2>1. 1 - c \in Int
    BY ColorsAre
  <2> QED BY <1>2, <1>7, <1>8, <1>10, <2>1 DEF EncoderType
<1>14. y < lastx => Row(Now)[y + 1] = 1 - c
  <2>1. ASSUME y < lastx PROVE Row(Now)[y + 1] = 1 - c
    <3>1. y + 1 \in 1..lastx /\ y # lastx
      BY <1>10, <2>1, Width
    <3>2. Row(Now)[y + 1] \in {White, Black} /\ Row(Now)[y + 1] # c
      BY <1>2, <1>9, <3>1
    <3> QED BY <3>2, ColorsAre
  <2> QED BY <2>1
<1>15. codes = PutSpan(y - x, c)
  BY <1>6, <1>7, <1>8
<1> HIDE DEF codes, e, end
<1>16. Leads(s, codes, SpotTo(Now, e.a0, 1 - c, "1D"))
  BY <1>4, <1>6, <1>7, <1>11, <1>12, <1>13, <1>15
<1>17. codes \in Seq(FaxCodes)
  BY <1>11, <1>15
<1>18. e.a0 < lastx => Row(Now)[e.a0 + 1] = 1 - c /\ e.color = 1 - c
  BY <1>13, <1>14
<1>19. pc # "encode2D"
  BY <1>1
<1> QED BY <1>1, <1>2, <1>3, <1>13, <1>16, <1>17, <1>18, <1>19, PutCodesRows

\* The places that a row is compared at are those that its codes say.
LEMMA Comparing ==
  ASSUME FaxInv, RowsInv, pc = "encode2D"
  PROVE  \E s \in Spots :
           /\ Leads(LineStart(1), stream, s) /\ EncodedTo(s) /\ AtColor(s)
           /\ s = Spot(Now, enc3.a0, A0Color, "2D") /\ s.no = Now /\ s.x = enc3.a0 /\ s.md = "2D"
           /\ A0Color = s.c
           /\ A1 = NextChange(s) /\ B1 = RefChange(s) /\ B2 = RefChange2(s)
<1>1. pc \in EncodingPcs
  BY DEF EncodingPcs
<1>2. PICK s \in Spots : Leads(LineStart(1), stream, s) /\ EncodedTo(s) /\ AtColor(s)
  BY <1>1, StepBegins
<1>3. /\ s = Spot(Now, enc3.a0, A0Color, "2D") /\ Coding2D /\ enc3.refline = RefRow(Now)
      /\ (enc3.first <=> First(s))
  BY <1>2 DEF EncodedTo
<1>4. s.no = Now /\ s.x = enc3.a0 /\ s.c = A0Color /\ s.md = "2D"
  BY <1>3 DEF Spot
<1>5. ThisRow = Row(Now)
  BY <1>1, StepBegins
<1>6. A1 = NextChange(s)
  BY <1>4, <1>5 DEF A1, NextChange
<1>7. B1 = RefChange(s)
  BY <1>3, <1>4 DEF B1, RefChange
<1>8. B2 = RefChange2(s)
  BY <1>3, <1>4, <1>7 DEF B2, RefChange2
<1> QED BY <1>2, <1>3, <1>4, <1>6, <1>7, <1>8

\* A code of two dimensions, where the row is compared.
LEMMA CompareFits ==
  ASSUME NEW s, NEW q, NEW t, s.md = "2D", s.x < lastx, AtColor(s), InData(s.no),
         Passes(s, q, t) \/ GoesBy(s, q, t) \/ TwoRuns(s, q, t)
  PROVE  Leads(s, <<q>>, t)
<1>1. Compares(s, q, t)
  BY DEF Compares
<1>2. CodeFits(s, q, t)
  BY <1>1 DEF CodeFits
<1> QED BY <1>2, LeadsOne

\* The next change of the row: what is before it, and after it.
LEMMA NextChangeIs ==
  ASSUME NEW s \in Spots, s.x < lastx, AtColor(s)
  PROVE  /\ NextChange(s) \in s.x..lastx /\ NextChange(s) \in Nat
         /\ Alike(s.no, s.x, NextChange(s), s.c) /\ TurnsAt(s.no, NextChange(s), s.c)
         /\ ~First(s) => NextChange(s) > s.x
<1>1. PICK x \in 0..lastx : x = s.x
  BY SpotParts
<1>2. PICK e : e = NextChange(s)
  OBVIOUS
<1>3. /\ e \in x..lastx /\ (e = lastx \/ Row(s.no)[e + 1] # s.c)
      /\ \A i \in (x + 1)..e : Row(s.no)[i] = s.c
  BY <1>1, <1>2, DiffStops, ZenonT(40) DEF NextChange
<1>4. x \in Nat /\ lastx \in Nat /\ e \in Nat
  BY <1>3, Width
<1>5. ASSUME ~First(s) PROVE e > x
  <2>1. Row(s.no)[x + 1] = s.c
    BY <1>1, <1>5 DEF AtColor
  <2>2. e # x
    BY <1>1, <1>3, <2>1
  <2> QED BY <1>3, <1>4, <2>2
<1> QED BY <1>1, <1>2, <1>3, <1>4, <1>5 DEF Alike, TurnsAt

\* The pixel after a change has the other color.
LEMMA OtherColor ==
  ASSUME NEW n, NEW x \in 0..lastx, NEW c \in {White, Black}, TurnsAt(n, x, c), x < lastx,
         \A i \in 1..lastx : Row(n)[i] \in {White, Black}
  PROVE  Row(n)[x + 1] = 1 - c
<1>1. x \in Nat /\ lastx \in Nat
  BY Width
<1>2. x + 1 \in 1..lastx /\ x # lastx
  BY <1>1
<1>3. Row(n)[x + 1] \in {White, Black} /\ Row(n)[x + 1] # c
  BY <1>2 DEF TurnsAt
<1> QED BY <1>3, ColorsAre

LEMMA PassModeRows == FaxInv /\ RowsInv /\ PassMode => RowsInv'
<1> SUFFICES ASSUME FaxInv, RowsInv, PassMode PROVE RowsInv'
  OBVIOUS
<1> DEFINE e == [enc3 EXCEPT !.a0 = B2, !.first = FALSE]
<1>1. pc = "encode2D" /\ pc \in EncodingPcs /\ B2 < A1 /\ PutCodes(<<PassCode>>, e)
  BY DEF PassMode, EncodingPcs
<1>2. PICK s \in Spots :
        /\ Leads(LineStart(1), stream, s) /\ EncodedTo(s) /\ AtColor(s)
        /\ s.no = Now /\ s.x = enc3.a0 /\ s.md = "2D"
        /\ A1 = NextChange(s) /\ B1 = RefChange(s) /\ B2 = RefChange2(s)
  BY <1>1, Comparing
<1>3. /\ scheme \in FaxSchemes /\ Bilevel /\ InData(Now)
      /\ enc3 \in EncoderType /\ enc3.a0 \in 0..lastx /\ enc3.a0 < lastx
  BY <1>1, StepBegins
<1>4. /\ NextChange(s) \in s.x..lastx /\ NextChange(s) \in Nat
      /\ Alike(s.no, s.x, NextChange(s), s.c)
  BY <1>2, <1>3, NextChangeIs
<1>5. /\ RefChange(s) \in 0..lastx /\ RefChange(s) >= s.x
      /\ RefChange2(s) \in RefChange(s)..lastx
      /\ RefChange(s) < lastx => RefChange(s) < RefChange2(s)
  BY ChangesAre
<1>6. PICK y \in Nat : y = B2 /\ y = RefChange2(s)
  BY <1>2, <1>5, Width
<1>7. /\ y \in 0..lastx /\ y < NextChange(s) /\ y >= s.x /\ y < lastx /\ y > 0
      /\ s.x \in Nat /\ lastx \in Nat
  BY <1>1, <1>2, <1>4, <1>5, <1>6, SpotParts, Width
<1>8. Row(Now)[y + 1] = s.c
  <2>1. y + 1 \in (s.x + 1)..NextChange(s)
    BY <1>4, <1>7
  <2> QED BY <1>2, <1>4, <2>1 DEF Alike
<1>9. /\ e \in EncoderType /\ e.a0 = y /\ e.first = FALSE
      /\ e.tag = enc3.tag /\ e.refline = enc3.refline
  BY <1>3, <1>6, <1>7 DEF EncoderType
<1> HIDE DEF e
<1>10. SpotTo(Now, y, s.c, "2D") = Spot(s.no, y, s.c, "2D")
  BY <1>2, <1>7 DEF SpotTo
<1>11. Passes(s, PassCode, SpotTo(Now, y, s.c, "2D"))
  BY <1>1, <1>2, <1>6, <1>10 DEF Passes
<1>12. Leads(s, <<PassCode>>, SpotTo(Now, e.a0, s.c, "2D"))
  BY <1>2, <1>3, <1>9, <1>11, CompareFits
<1>13. <<PassCode>> \in Seq(FaxCodes)
  BY CodeTypes
<1>14. e.a0 < lastx => Row(Now)[e.a0 + 1] = s.c /\ ~e.first /\ ~(e.a0 = 0 /\ s.c = White)
  BY <1>7, <1>8, <1>9
<1>15. pc # "encode1D"
  BY <1>1
<1> QED BY <1>1, <1>2, <1>3, <1>9, <1>12, <1>13, <1>14, <1>15, PutCodesRows

LEMMA VerticalModeRows == FaxInv /\ RowsInv /\ VerticalMode => RowsInv'
<1> SUFFICES ASSUME FaxInv, RowsInv, VerticalMode PROVE RowsInv'
  OBVIOUS
<1> DEFINE e == [enc3 EXCEPT !.a0 = A1, !.first = FALSE]
           codes == <<VertCode(A1 - B1)>>
<1>1. /\ pc = "encode2D" /\ pc \in EncodingPcs /\ B2 >= A1 /\ A1 - B1 \in -Reach..Reach
      /\ PutCodes(codes, e)
  BY DEF VerticalMode, EncodingPcs
<1>2. PICK s \in Spots :
        /\ Leads(LineStart(1), stream, s) /\ EncodedTo(s) /\ AtColor(s)
        /\ s.no = Now /\ s.x = enc3.a0 /\ s.md = "2D"
        /\ A1 = NextChange(s) /\ B1 = RefChange(s) /\ B2 = RefChange2(s)
  BY <1>1, Comparing
<1>3. /\ scheme \in FaxSchemes /\ Bilevel /\ InData(Now)
      /\ enc3 \in EncoderType /\ enc3.a0 \in 0..lastx /\ enc3.a0 < lastx
      /\ \A i \in 1..lastx : Row(Now)[i] \in {White, Black}
  BY <1>1, StepBegins
<1>4. /\ NextChange(s) \in s.x..lastx /\ NextChange(s) \in Nat
      /\ TurnsAt(s.no, NextChange(s), s.c)
      /\ ~First(s) => NextChange(s) > s.x
  BY <1>2, <1>3, NextChangeIs
<1>5. RefChange(s) \in 0..lastx /\ s.c \in {White, Black} /\ s.x \in Nat /\ lastx \in Nat
  BY ChangesAre, SpotParts, Width
<1>6. PICK y \in 0..lastx : y = A1
  BY <1>2, <1>4, <1>5
<1>7. PICK n \in -Reach..Reach : n = A1 - B1
  BY <1>1
<1>8. /\ e \in EncoderType /\ e.a0 = y /\ e.first = FALSE
      /\ e.tag = enc3.tag /\ e.refline = enc3.refline
  BY <1>3, <1>6 DEF EncoderType
<1>9. codes = <<VertCode(n)>> /\ codes \in Seq(FaxCodes)
  <2>1. n \in Int
    BY DEF Reach
  <2> QED BY <1>7, <2>1, CodeTypes
<1> HIDE DEF e, codes
<1>10. NextChange(s) = RefChange(s) + n
  BY <1>2, <1>4, <1>5, <1>7 DEF Reach
<1>11. GoesBy(s, VertCode(n), SpotTo(Now, y, 1 - s.c, "2D"))
  BY <1>1, <1>2, <1>6, <1>10 DEF GoesBy
<1>12. Leads(s, codes, SpotTo(Now, e.a0, 1 - s.c, "2D"))
  BY <1>2, <1>3, <1>8, <1>9, <1>11, CompareFits
<1>13. e.a0 < lastx => Row(Now)[e.a0 + 1] = 1 - s.c
  BY <1>2, <1>3, <1>4, <1>5, <1>6, <1>8, OtherColor
<1>14. ~(e.a0 = 0 /\ 1 - s.c = White)
  <2>1. CASE First(s)
    BY <2>1, ColorsAre DEF First
  <2>2. CASE ~First(s)
    BY <1>2, <1>4, <1>5, <1>6, <1>8, <2>2
  <2> QED BY <2>1, <2>2
<1>15. pc # "encode1D"
  BY <1>1
<1> QED BY <1>1, <1>2, <1>3, <1>8, <1>9, <1>12, <1>13, <1>14, <1>15, PutCodesRows

LEMMA HorizontalModeRows == FaxInv /\ RowsInv /\ HorizontalMode => RowsInv'
<1> SUFFICES ASSUME FaxInv, RowsInv, HorizontalMode PROVE RowsInv'
  OBVIOUS
<1> DEFINE e == [enc3 EXCEPT !.a0 = A2, !.first = FALSE]
           codes == <<HorizCode>> \o PutSpan(A1 - enc3.a0, A0Color) \o PutSpan(A2 - A1, 1 - A0Color)
<1>1. /\ pc = "encode2D" /\ pc \in EncodingPcs /\ PutCodes(codes, e)
  BY DEF HorizontalMode, EncodingPcs
<1>2. PICK s \in Spots :
        /\ Leads(LineStart(1), stream, s) /\ EncodedTo(s) /\ AtColor(s)
        /\ s = Spot(Now, enc3.a0, A0Color, "2D")
        /\ s.no = Now /\ s.x = enc3.a0 /\ s.md = "2D" /\ A0Color = s.c
        /\ A1 = NextChange(s)
  BY <1>1, Comparing
<1>3. /\ scheme \in FaxSchemes /\ Bilevel /\ Now \in Nat \ {0} /\ InData(Now) /\ ThisRow = Row(Now)
      /\ enc3 \in EncoderType /\ enc3.a0 \in 0..lastx /\ enc3.a0 < lastx
      /\ \A i \in 1..lastx : Row(Now)[i] \in {White, Black}
  BY <1>1, StepBegins
<1>4. PICK x \in 0..lastx : x = enc3.a0 /\ x = s.x /\ x \in Nat
  BY <1>2, <1>3, Width
<1>5. PICK c \in {White, Black} : c = s.c /\ c = A0Color
  BY <1>2, SpotParts
<1>6. 1 - c \in {White, Black} /\ 1 - (1 - c) = c
  BY ColorsAre
<1>7. PICK y : y = A1
  OBVIOUS
<1>8. /\ y \in x..lastx /\ y \in Nat /\ Alike(Now, x, y, c) /\ TurnsAt(Now, y, c)
  BY <1>2, <1>3, <1>4, <1>5, <1>7, NextChangeIs
<1>9. y \in 0..lastx /\ lastx \in Nat /\ lastx > 0
  BY <1>8, Width
<1>10. y < lastx => Row(Now)[y + 1] = 1 - c
  BY <1>3, <1>8, <1>9, OtherColor
<1>11. PICK z : z = A2
  OBVIOUS
<1>12. /\ z \in y..lastx /\ (z = lastx \/ Row(Now)[z + 1] # 1 - c)
       /\ \A i \in (y + 1)..z : Row(Now)[i] = 1 - c
       /\ y < lastx => y < z
  <2>1. z = FindDiff2(Row(Now), y)
    BY <1>3, <1>7, <1>11 DEF A2
  <2> QED BY <1>9, <1>10, <2>1, Diff2Stops, ZenonT(40)
<1>13. /\ z \in 0..lastx /\ z \in Nat /\ z > 0 /\ Alike(Now, y, z, 1 - c) /\ TurnsAt(Now, z, 1 - c)
  BY <1>8, <1>9, <1>12 DEF Alike, TurnsAt
<1>14. z < lastx => Row(Now)[z + 1] = c
  BY <1>3, <1>6, <1>13, OtherColor
<1>15. /\ e \in EncoderType /\ e.a0 = z /\ e.first = FALSE
       /\ e.tag = enc3.tag /\ e.refline = enc3.refline
  BY <1>3, <1>11, <1>13 DEF EncoderType
<1> DEFINE one == PutSpan(y - x, c)
           two == PutSpan(z - y, 1 - c)
<1>16. codes = <<HorizCode>> \o one \o two
  BY <1>4, <1>5, <1>7, <1>11
<1> HIDE DEF e, codes, one, two
<1>17. Leads(s, <<HorizCode>>, Spot(Now, x, c, "h1")) /\ <<HorizCode>> \in Seq(FaxCodes)
  <2>1. TwoRuns(s, HorizCode, Spot(Now, x, c, "h1"))
    BY <1>2, <1>4, <1>5 DEF TwoRuns
  <2> QED BY <1>2, <1>3, <2>1, CompareFits, CodeTypes
<1>18. Leads(Spot(Now, x, c, "h1"), one, Spot(Now, y, 1 - c, "h2")) /\ one \in Seq(FaxCodes)
  <2>1. RunTo(Now, y, c, "h1") = Spot(Now, y, 1 - c, "h2") /\ "h1" \in RunModes
    BY DEF RunTo, RunModes
  <2> QED BY <1>3, <1>8, <2>1, SpanLeads DEF one
<1>19. Leads(Spot(Now, y, 1 - c, "h2"), two, SpotTo(Now, z, c, "2D")) /\ two \in Seq(FaxCodes)
  <2>1. RunTo(Now, z, 1 - c, "h2") = SpotTo(Now, z, c, "2D") /\ "h2" \in RunModes
    BY <1>6 DEF RunTo, RunModes
  <2> QED BY <1>3, <1>6, <1>9, <1>12, <1>13, <2>1, SpanLeads DEF two
<1>20. <<HorizCode>> \o one \in Seq(FaxCodes) /\ Leads(s, <<HorizCode>> \o one, Spot(Now, y, 1 - c, "h2"))
  <2>1. <<HorizCode>> \o one \in Seq(FaxCodes)
    BY <1>17, <1>18, Joined
  <2> QED BY <1>17, <1>18, <2>1, LeadsJoin
<1>21. codes \in Seq(FaxCodes) /\ Leads(s, codes, SpotTo(Now, e.a0, c, "2D"))
  <2>1. codes \in Seq(FaxCodes)
    BY <1>16, <1>19, <1>20, Joined
  <2> QED BY <1>15, <1>16, <1>19, <1>20, <2>1, LeadsJoin
<1>22. e.a0 < lastx => Row(Now)[e.a0 + 1] = c /\ ~e.first /\ ~(e.a0 = 0 /\ c = White)
  BY <1>13, <1>14, <1>15
<1>23. pc # "encode1D"
  BY <1>1
<1> QED BY <1>1, <1>2, <1>3, <1>15, <1>21, <1>22, <1>23, PutCodesRows

\* There is no row of the strip that begins here.
AllCoded(s) == s.md = "over" \/ ~InData(s.no)

\* The last codes of a strip lead beyond its last row.
LEMMA StripEnds ==
  ASSUME FaxInv, RowsInv, FaxPostEncode
  PROVE  \E s, t : \E codes \in Seq(FaxCodes) :
           /\ Leads(LineStart(1), stream, s) /\ Leads(s, codes, t)
           /\ stream' = stream \o codes /\ AllCoded(t)
<1>1. /\ pc = "line" /\ given = Len(data) /\ pc' = "sent" /\ UNCHANGED stripVars
      /\ stream' = IF scheme = "g4" THEN stream \o Eofb ELSE stream
  BY DEF FaxPostEncode
<1>2. scheme \in FaxSchemes /\ Bilevel /\ pc \in EncoderPcs /\ pc' \in EncoderPcs /\ pc # "sent"
  BY <1>1 DEF RowsInv, EncoderPcs
<1>3. PICK s : Leads(LineStart(1), stream, s) /\ EncodedTo(s)
  BY <1>1, <1>2 DEF RowsInv
<1>4. s = LineStart(Now)
  BY <1>1, <1>3 DEF EncodedTo
<1>5. stream \in Seq(FaxCodes)
  BY EncoderIs
<1>6. s.no = Now /\ s = LineStart(s.no)
  BY <1>4 DEF LineStart, Spot
<1>7. ~InData(s.no)
  <2>1. given \in Nat /\ Len(data) \in Nat /\ WholeRows(given)
    BY DEF FaxInv, FaxStripOK
  <2>2. PICK k \in Nat : given = k * RowSize
    BY <2>1 DEF WholeRows
  <2>3. RowSize \in Nat /\ RowSize > 0
    BY CodecAssumption
  <2>4. given \div RowSize = k
    BY <2>2, <2>3
  <2>5. (k + 1) * RowSize = given + RowSize
    BY <2>2, <2>3
  <2>6. ~((k + 1) * RowSize <= Len(data))
    BY <1>1, <2>1, <2>3, <2>5
  <2> QED BY <1>6, <2>4, <2>6 DEF Now, InData
<1>8. CASE scheme = "g4"
  <2>0. PICK q : q = EolCode(FALSE, 0)
    OBVIOUS
  <2>1. EndsStrip(s, q, Over) /\ EndsStrip(Over, q, Over)
    BY <1>6, <1>7, <1>8, <2>0 DEF EndsStrip
  <2>2. CodeFits(s, q, Over) /\ CodeFits(Over, q, Over)
    BY <2>1 DEF CodeFits
  <2>3. Eofb = <<q, q>>
    BY <2>0 DEF Eofb
  <2>4. Leads(s, Eofb, Over)
    <3> DEFINE f == [i \in 0..2 |-> IF i = 0 THEN s ELSE Over]
    <3>1. f[0] = s /\ f[1] = Over /\ f[2] = Over
      OBVIOUS
    <3> HIDE DEF f
    <3>2. Len(<<q, q>>) = 2 /\ <<q, q>>[1] = q /\ <<q, q>>[2] = q
      OBVIOUS
    <3>3. ASSUME NEW i \in 1..2 PROVE CodeFits(f[i - 1], <<q, q>>[i], f[i])
      <4>1. CASE i = 1
        BY <2>2, <3>1, <3>2, <4>1
      <4>2. CASE i = 2
        BY <2>2, <3>1, <3>2, <4>2
      <4> QED BY <4>1, <4>2
    <3>4. Along(f, <<q, q>>)
      BY <3>2, <3>3 DEF Along
    <3> QED BY <2>3, <3>1, <3>2, <3>4 DEF Leads
  <2>5. Eofb \in Seq(FaxCodes)
    <3>1. q \in FaxCodes
      BY <2>0, CodeTypes
    <3> QED BY <2>3, <3>1
  <2>6. stream' = stream \o Eofb
    BY <1>1, <1>8
  <2>7. AllCoded(Over)
    BY DEF AllCoded, Over, Spot
  <2> QED BY <1>3, <2>4, <2>5, <2>6, <2>7
<1>9. CASE scheme # "g4"
  <2>1. stream' = stream \o <<>> /\ <<>> \in Seq(FaxCodes)
    BY <1>1, <1>5, <1>9
  <2>2. Leads(s, <<>>, s)
    BY LeadsNothing
  <2>3. AllCoded(s)
    BY <1>7 DEF AllCoded
  <2> QED BY <1>3, <2>1, <2>2, <2>3
<1> QED BY <1>8, <1>9

\* The end of the strip; in Group 4 it has a code.
LEMMA FaxPostEncodeRows == FaxInv /\ RowsInv /\ FaxPostEncode => RowsInv'
<1> SUFFICES ASSUME FaxInv, RowsInv, FaxPostEncode PROVE RowsInv'
  OBVIOUS
<1>1. PICK s, t : \E codes \in Seq(FaxCodes) :
        /\ Leads(LineStart(1), stream, s) /\ Leads(s, codes, t)
        /\ stream' = stream \o codes
  BY StripEnds
<1>2. /\ pc \in EncoderPcs /\ pc' \in EncoderPcs /\ pc' = "sent" /\ UNCHANGED stripVars
      /\ scheme \in FaxSchemes /\ Bilevel
  BY DEF FaxPostEncode, EncoderPcs, RowsInv
<1> QED BY <1>1, <1>2, EncodedOn

-----------------------------------------------------------------------------
(***************************************************************************)
(* The decoder begins.                                                     *)
(***************************************************************************)
LEMMA WhiteLine == RefRight(<<lastx, 0>>, RefRow(1))
<1> DEFINE ref == <<lastx, 0>>
<1>1. lastx \in Nat /\ ref \in Seq(Nat) /\ Len(ref) = 2 /\ ref[1] = lastx /\ ref[2] = 0
  BY Width
<1>2. Run(ref, 0) = lastx /\ Run(ref, 1) = 0
  BY <1>1 DEF Run
<1> HIDE DEF ref
<1>3. Sum(ref, 0) = 0 /\ Sum(ref, 0 + 1) = Sum(ref, 0) + Run(ref, 0)
      /\ Sum(ref, 1 + 1) = Sum(ref, 1) + Run(ref, 1)
  BY <1>1, SumRange
<1>4. 0 + 1 = 1 /\ 1 + 1 = 2
  OBVIOUS
<1>5. Sum(ref, 0) = 0 /\ Sum(ref, 1) = lastx /\ Sum(ref, 1 + 1) = lastx
  BY <1>1, <1>2, <1>3, <1>4
<1>6. \A y \in 1..lastx : RefRow(1)[y] = 0
  BY Width DEF RefRow, White
<1>7. 0 % 2 = 0
  OBVIOUS
<1>8. \A i \in 0..(1 - 1) : \A y \in (Sum(ref, i) + 1)..Sum(ref, i + 1) : RefRow(1)[y] = i % 2
  <2>1. TAKE i \in 0..(1 - 1)
  <2>2. i = 0 /\ i + 1 = 1 /\ Sum(ref, i) + 1 = 1 /\ i % 2 = 0
    BY <1>5, <1>7
  <2> QED BY <1>5, <1>6, <2>2
<1>9. 1 \in 1..Len(ref) /\ \A i \in 1..(1 - 1) : Sum(ref, i) < Sum(ref, i + 1)
  BY <1>1
<1>10. RefRight(ref, RefRow(1))
  BY <1>5, <1>8, <1>9 DEF RefRight
<1> QED BY <1>10 DEF ref

\* The codes of a stream that was cut off say the same.
LEMMA AlongCut ==
  ASSUME NEW f, NEW codes \in Seq(FaxCodes), Along(f, codes), NEW i \in 0..Len(codes)
  PROVE  Along(f, SubSeq(codes, 1, i))
<1>1. Len(codes) \in Nat
  OBVIOUS
<1>2. Len(SubSeq(codes, 1, i)) = i /\ \A j \in 1..i : SubSeq(codes, 1, i)[j] = codes[j]
  BY <1>1
<1>3. \A j \in 1..i : j \in 1..Len(codes)
  BY <1>1
<1> QED BY <1>2, <1>3 DEF Along

LEMMA ArriveRows == FaxInv /\ RowsInv /\ Arrive => RowsInv'
<1> SUFFICES ASSUME FaxInv, RowsInv, Arrive PROVE RowsInv'
  OBVIOUS
<1>1. /\ pc = "sent" /\ pc' = "idle" /\ UNCHANGED stripVars /\ dec3' = dec3 /\ at' = at
      /\ stream' = stream \/ \E i \in 1..(Len(stream) - 1) : stream' = SubSeq(stream, 1, i)
  BY DEF Arrive
<1>2. /\ scheme \in FaxSchemes /\ Bilevel /\ pc \in EncoderPcs
      /\ pc' \notin EncoderPcs /\ pc' \notin RowPcs
  BY <1>1 DEF RowsInv, EncoderPcs, RowPcs, RunPcs
<1>3. dec3 = StartFaxDecoder /\ stream \in Seq(FaxCodes)
  BY <1>2 DEF FaxInv, FaxStripOK
<1>4. dec3.bp = 0 /\ dec3.refno = 0 /\ dec3.refruns = <<lastx, 0>>
  BY <1>3 DEF StartFaxDecoder
<1>5. PICK s : Leads(LineStart(1), stream, s)
  BY <1>2 DEF RowsInv
<1>6. PICK f : f[0] = LineStart(1) /\ Along(f, stream)
  BY <1>5 DEF Leads
<1>7. Along(f, stream')
  <2>1. ASSUME NEW i \in 1..(Len(stream) - 1), stream' = SubSeq(stream, 1, i)
        PROVE  Along(f, stream')
    <3>1. i \in 0..Len(stream)
      BY <1>3
    <3> QED BY <1>3, <1>6, <2>1, <3>1, AlongCut
  <2> QED BY <1>1, <1>6, <2>1
<1>8. Along(f, stream)'
  <2>1. PICK u : u = stream'
    OBVIOUS
  <2>2. Along(f, u)'
    BY <1>1, <1>7, <2>1, WaysKept
  <2> QED BY <2>1, <2>2
<1>9. f[0] = LineStart(1)'
  BY <1>1, <1>6, RowsKept
<1>10. DecodedTo(f[dec3.bp])'
  <2>1. f[dec3.bp]' = LineStart(1)' /\ dec3'.refno + 1 = 1
    BY <1>1, <1>4, <1>9
  <2>2. RefRight(dec3.refruns, RefRow(1))'
    BY <1>1, <1>4, WhiteLine, RowsKept DEF RefRight
  <2>3. pc' \notin RunPcs /\ pc' \notin {"done", "fill"}
    BY <1>1 DEF RunPcs
  <2> QED BY <1>1, <1>2, <2>1, <2>2, <2>3 DEF DecodedTo
<1>11. Bilevel' /\ scheme' \in FaxSchemes
  BY <1>1, <1>2, RowsKept DEF stripVars
<1> QED BY <1>2, <1>8, <1>9, <1>10, <1>11 DEF RowsInv

\* At first nothing is coded.
LEMMA FaxInitRows ==
  ASSUME scheme \in FaxSchemes, FaxInit
  PROVE  RowsInv
<1>1. /\ stream = <<>> /\ pc = "line" /\ given = 0 /\ data \in ShortStrips \cup Pairs
  BY DEF FaxInit, CodecInit
<1>2. PICK k \in {2, 4} : enc3 = StartFaxEncoder(k)
  BY DEF FaxInit
<1>3. Bilevel
  BY <1>1, FaxStrips
<1>4. Now = 1
  <2>1. 0 \div RowSize = 0
    BY CodecAssumption
  <2> QED BY <1>1, <2>1 DEF Now
<1>5. Leads(LineStart(1), stream, LineStart(1))
  BY <1>1, LeadsNothing
<1>6. enc3.refline = RefRow(Now) /\ enc3.tag = "1D"
  BY <1>2, <1>4 DEF RefRow, StartFaxEncoder
<1>7. EncodedTo(LineStart(1))
  BY <1>1, <1>4, <1>6 DEF EncodedTo
<1> QED BY <1>1, <1>3, <1>5, <1>7 DEF RowsInv, EncoderPcs

-----------------------------------------------------------------------------
(***************************************************************************)
(* Changes of the reference line, found in its runs.                       *)
(***************************************************************************)
LEMMA Parity ==
  /\ \A m \in Nat : m % 2 \in {0, 1} /\ (m + 1) % 2 = 1 - (m % 2) /\ (m + 2) % 2 = m % 2
  /\ \A m, n \in Nat : (m + 2 * n) % 2 = m % 2
OBVIOUS

\* The runs up to k are those of the row.
RunsUpTo(ref, row, k) ==
  /\ Sum(ref, k) = lastx /\ Sum(ref, k + 1) = lastx
  /\ \A i \in 1..(k - 1) : Sum(ref, i) < Sum(ref, i + 1)
  /\ \A i \in 0..(k - 1) : \A y \in (Sum(ref, i) + 1)..Sum(ref, i + 1) : row[y] = i % 2

LEMMA RunsEnd ==
  ASSUME NEW ref \in Seq(Nat), NEW row, NEW k \in Nat \ {0}, RunsUpTo(ref, row, k)
  PROVE  /\ \A i \in Nat : Sum(ref, i) \in Nat /\ Sum(ref, i) <= Sum(ref, i + 1)
         /\ \A i \in 0..(k + 1) : Sum(ref, i) \in 0..lastx
         /\ \A i \in Nat : Sum(ref, i) < lastx => i < k
         /\ Sum(ref, 0) = 0
<1>1. ASSUME NEW i \in Nat PROVE Sum(ref, i) \in Nat /\ Sum(ref, i) <= Sum(ref, i + 1)
  <2>1. i + 1 \in Nat /\ i \in 0..(i + 1)
    OBVIOUS
  <2> QED BY <2>1, SumRange
<1>2. ASSUME NEW i \in 0..(k + 1) PROVE Sum(ref, i) \in 0..lastx
  <2>1. k + 1 \in Nat /\ i \in Nat
    OBVIOUS
  <2>2. Sum(ref, i) <= Sum(ref, k + 1) /\ Sum(ref, k + 1) = lastx
    BY <2>1, SumRange DEF RunsUpTo
  <2> QED BY <1>1, <2>1, <2>2, Width
<1>3. ASSUME NEW i \in Nat, Sum(ref, i) < lastx PROVE i < k
  <2>1. ASSUME i >= k PROVE FALSE
    <3>1. k \in 0..i
      BY <2>1
    <3>2. Sum(ref, k) <= Sum(ref, i) /\ Sum(ref, k) = lastx
      BY <3>1, SumRange DEF RunsUpTo
    <3> QED BY <1>1, <1>3, <3>2, Width, SMTT(30)
  <2> QED BY <2>1
<1>4. Sum(ref, 0) = 0
  BY SumRange
<1> QED BY <1>1, <1>2, <1>3, <1>4

\* Within a run of the reference line its change is at its end.
LEMMA ChangeAtEnd ==
  ASSUME NEW ref \in Seq(Nat), NEW row, NEW k \in Nat \ {0}, RunsUpTo(ref, row, k),
         NEW i \in 0..k, NEW z \in Sum(ref, i)..Sum(ref, i + 1), NEW c, c = i % 2
  PROVE  FindDiff(row, z, c) = Sum(ref, i + 1)
<1>1. /\ i \in Nat /\ i + 1 \in 0..(k + 1) /\ i \in 0..(k + 1) /\ lastx \in Nat
      /\ Sum(ref, i) \in 0..lastx /\ Sum(ref, i + 1) \in 0..lastx
  <2>1. i \in Nat /\ i + 1 \in 0..(k + 1) /\ i \in 0..(k + 1)
    OBVIOUS
  <2> QED BY <2>1, RunsEnd, Width
<1>2. PICK e \in 0..lastx : e = Sum(ref, i + 1)
  BY <1>1
<1>3. PICK b \in 0..lastx : b = Sum(ref, i)
  BY <1>1
<1>4. z \in b..e /\ z \in Nat /\ e \in Nat /\ b \in Nat
  BY <1>2, <1>3
<1>5. ASSUME NEW y \in (z + 1)..e PROVE row[y] = c
  <2>1. CASE i = k
    <3>1. b = lastx
      BY <1>3, <2>1 DEF RunsUpTo
    <3> QED BY <1>1, <1>2, <1>4, <3>1
  <2>2. CASE i # k
    <3>1. i \in 0..(k - 1)
      BY <2>2
    <3>2. y \in (Sum(ref, i) + 1)..Sum(ref, i + 1)
      BY <1>2, <1>3, <1>4
    <3> QED BY <3>1, <3>2 DEF RunsUpTo
  <2> QED BY <2>1, <2>2
<1>6. e = lastx \/ row[e + 1] # c
  <2>1. SUFFICES ASSUME e # lastx PROVE row[e + 1] # c
    OBVIOUS
  <2>2. e < lastx /\ i + 1 \in Nat
    BY <1>1, <1>2, <1>4, <2>1
  <2>3. i + 1 < k
    BY <1>2, <2>2, RunsEnd
  <2>4. i + 1 \in 1..(k - 1) /\ i + 1 \in 0..(k - 1)
    BY <1>1, <2>3
  <2>5. Sum(ref, i + 1) < Sum(ref, i + 1 + 1) /\ Sum(ref, i + 1 + 1) \in Nat
    <3>1. i + 1 + 1 \in Nat
      BY <1>1
    <3> QED BY <2>4, <3>1, RunsEnd DEF RunsUpTo
  <2>6. e + 1 \in (Sum(ref, i + 1) + 1)..Sum(ref, i + 1 + 1)
    BY <1>2, <1>4, <2>5
  <2>7. row[e + 1] = (i + 1) % 2
    BY <2>4, <2>6 DEF RunsUpTo
  <2>8. (i + 1) % 2 # i % 2
    <3>1. i % 2 \in {0, 1} /\ (i + 1) % 2 = 1 - (i % 2)
      BY <1>1, Parity
    <3> QED BY <3>1
  <2> QED BY <2>7, <2>8
<1>7. z \in 0..lastx /\ e \in z..lastx
  BY <1>1, <1>4
<1> QED BY <1>2, <1>5, <1>6, <1>7, DiffIs

\* The change p of the reference line is the first one past x that the coder asks for.
Sought(ref, row, k, x, c, p) ==
  /\ ref \in Seq(Nat) /\ k \in Nat \ {0} /\ RunsUpTo(ref, row, k)
  /\ x \in Nat /\ x < lastx /\ c \in {0, 1}
  /\ p \in Nat \ {0} /\ p % 2 = 1 - c
  /\ Sum(ref, p) > x \/ Sum(ref, p) >= lastx
  /\ p >= 2 => Sum(ref, p - 2) <= x

\* The changes that the encoder finds from a pixel of the color c: the end of the run
\* p - 1 and that of the next, if p is the first run after the pixel that begins with
\* the other color.
LEMMA ChangesFound ==
  ASSUME NEW ref, NEW row, NEW k, NEW x, NEW c, NEW p, Sought(ref, row, k, x, c, p)
  PROVE  /\ FindDiff(row, FindDiff(row, x, 1 - c), c) = Sum(ref, p)
         /\ p <= k + 1
<1> USE DEF Sought
<1>1. lastx \in Nat /\ k \in Nat /\ 1 - c \in {0, 1}
  BY Width
<1>2. PICK i \in Nat : p = i + 1 /\ p - 1 = i
  <2>1. p - 1 \in Nat /\ p = (p - 1) + 1
    OBVIOUS
  <2> QED BY <2>1
<1>3. i % 2 = c
  <2>1. i % 2 \in {0, 1} /\ (i + 1) % 2 = 1 - (i % 2)
    BY <1>2, Parity
  <2> QED BY <1>2, <2>1
<1>4. i \in 0..k
  <2>1. CASE i = 0
    BY <2>1
  <2>2. CASE i > 0
    <3>1. PICK j \in Nat : p - 2 = j /\ i = j + 1
      <4>1. i - 1 \in Nat /\ p - 2 = i - 1 /\ i = (i - 1) + 1
        BY <1>2, <2>2
      <4> QED BY <4>1
    <3>2. Sum(ref, j) <= x /\ Sum(ref, j) \in Nat
      <4>1. p >= 2
        BY <1>2, <2>2
      <4> QED BY <3>1, <4>1, RunsEnd
    <3>3. Sum(ref, j) < lastx
      BY <1>1, <3>2
    <3>4. j < k
      BY <3>3, RunsEnd
    <3> QED BY <3>1, <3>4
  <2> QED BY <1>2, <2>1, <2>2
<1>5. /\ Sum(ref, i) \in 0..lastx /\ Sum(ref, i + 1) \in 0..lastx
      /\ Sum(ref, i) <= Sum(ref, i + 1)
  <2>1. i \in 0..(k + 1) /\ i + 1 \in 0..(k + 1)
    BY <1>4
  <2> QED BY <1>2, <2>1, RunsEnd
<1>6. PICK b \in 0..lastx : b = Sum(ref, i)
  BY <1>5
<1>7. PICK e \in 0..lastx : e = Sum(ref, i + 1) /\ e = Sum(ref, p)
  BY <1>2, <1>5
<1>8. b <= e /\ x < e /\ b \in Nat /\ e \in Nat
  BY <1>1, <1>5, <1>6, <1>7
<1>9. CASE x < b
  <2>1. i > 0
    <3>1. SUFFICES ASSUME i = 0 PROVE FALSE
      BY <1>2
    <3>2. Sum(ref, 0) = 0
      BY RunsEnd
    <3> QED BY <1>6, <1>9, <3>1, <3>2
  <2>2. PICK j \in Nat : p - 2 = j /\ i = j + 1 /\ j \in 0..k
    <3>1. i - 1 \in Nat /\ p - 2 = i - 1 /\ i = (i - 1) + 1 /\ i - 1 \in 0..k
      BY <1>2, <1>4, <2>1
    <3> QED BY <3>1
  <2>3. Sum(ref, j) <= x /\ Sum(ref, j) \in Nat /\ p >= 2
    <3>1. p >= 2
      BY <1>2, <2>1
    <3> QED BY <2>2, <3>1, RunsEnd
  <2>4. j % 2 = 1 - c
    <3>1. j % 2 \in {0, 1} /\ (j + 1) % 2 = 1 - (j % 2)
      BY <2>2, Parity
    <3> QED BY <1>3, <2>2, <3>1
  <2>5. x \in Sum(ref, j)..Sum(ref, j + 1)
    BY <1>6, <1>8, <1>9, <2>2, <2>3
  <2>6. FindDiff(row, x, 1 - c) = Sum(ref, j + 1)
    BY <2>2, <2>4, <2>5, ChangeAtEnd
  <2>7. b \in Sum(ref, i)..Sum(ref, i + 1)
    BY <1>6, <1>7, <1>8
  <2>8. FindDiff(row, b, c) = Sum(ref, i + 1)
    BY <1>3, <1>4, <2>7, ChangeAtEnd
  <2> QED BY <1>2, <1>4, <1>6, <2>2, <2>6, <2>8
<1>10. CASE x >= b
  <2>1. x \in Sum(ref, i)..Sum(ref, i + 1)
    BY <1>6, <1>7, <1>8, <1>10
  <2>2. row[x + 1] = c
    <3>1. i # k
      <4>1. Sum(ref, k) = lastx
        BY DEF RunsUpTo
      <4> QED BY <1>1, <1>6, <1>10, <4>1
    <3>2. i \in 0..(k - 1)
      BY <1>4, <3>1
    <3>3. x + 1 \in (Sum(ref, i) + 1)..Sum(ref, i + 1)
      BY <1>6, <1>7, <1>8, <1>10
    <3> QED BY <1>3, <3>2, <3>3 DEF RunsUpTo
  <2>3. x \in 0..lastx /\ x \in x..lastx /\ row[x + 1] # 1 - c
    BY <1>1, <2>2
  <2>4. \A y \in (x + 1)..x : row[y] = 1 - c
    OBVIOUS
  <2>5. FindDiff(row, x, 1 - c) = x
    BY <2>3, <2>4, DiffIs
  <2>6. FindDiff(row, x, c) = Sum(ref, i + 1)
    BY <1>3, <1>4, <2>1, ChangeAtEnd, ZenonT(40)
  <2> QED BY <1>2, <1>4, <2>5, <2>6
<1> QED BY <1>6, <1>8, <1>9, <1>10

\* The second change is the end of the next run, if it is within the row.
LEMMA SecondFound ==
  ASSUME NEW ref \in Seq(Nat), NEW row, NEW k \in Nat \ {0}, RunsUpTo(ref, row, k),
         NEW p \in 1..(k + 1), FindDiff2(row, Sum(ref, p)) < lastx
  PROVE  /\ FindDiff2(row, Sum(ref, p)) = Sum(ref, p + 1)
         /\ Sum(ref, p + 1) < Sum(ref, p + 2)
         /\ Sum(ref, p) \in Nat /\ Sum(ref, p + 1) \in Nat /\ Sum(ref, p + 2) \in Nat
<1>1. lastx \in Nat /\ p \in Nat /\ p \in 0..(k + 1) /\ p + 1 \in Nat /\ p + 2 \in Nat
      /\ (p + 1) + 1 = p + 2
  BY Width
<1>2. PICK e \in 0..lastx : e = Sum(ref, p)
  BY <1>1, RunsEnd
<1>3. e < lastx
  <2>1. SUFFICES ASSUME ~(e < lastx) PROVE FALSE
    OBVIOUS
  <2>2. FindDiff2(row, e) = lastx
    BY <2>1 DEF FindDiff2
  <2> QED BY <1>1, <1>2, <2>2
<1>4. p < k
  BY <1>1, <1>2, <1>3, RunsEnd
<1>5. p \in 1..(k - 1) /\ p \in 0..(k - 1) /\ p \in 0..k /\ p + 1 \in 0..(k + 1)
  BY <1>1, <1>4
<1>6. Sum(ref, p) < Sum(ref, p + 1)
  BY <1>5 DEF RunsUpTo
<1>7. Sum(ref, p + 1) \in 0..lastx /\ Sum(ref, p + 2) \in Nat
  BY <1>1, <1>5, RunsEnd
<1>8. e + 1 \in (Sum(ref, p) + 1)..Sum(ref, p + 1)
  BY <1>2, <1>6, <1>7
<1>9. row[e + 1] = p % 2
  BY <1>5, <1>8 DEF RunsUpTo
<1>10. FindDiff2(row, e) = FindDiff(row, e, p % 2)
  BY <1>3, <1>9 DEF FindDiff2
<1>11. e \in Sum(ref, p)..Sum(ref, p + 1)
  BY <1>2, <1>6, <1>7
<1>12. FindDiff(row, e, p % 2) = Sum(ref, p + 1)
  BY <1>5, <1>11, ChangeAtEnd
<1>13. Sum(ref, p + 1) < lastx
  BY <1>2, <1>10, <1>12
<1>14. p + 1 < k
  BY <1>1, <1>13, RunsEnd
<1>15. p + 1 \in 1..(k - 1)
  BY <1>1, <1>14
<1>16. Sum(ref, p + 1) < Sum(ref, p + 2)
  BY <1>1, <1>15 DEF RunsUpTo
<1> QED BY <1>2, <1>7, <1>10, <1>12, <1>16

\* CHECK_b1 passes pairs of runs that end before a0.
LEMMA CheckB1Moves ==
  ASSUME NEW a \in RowType, RefIs(dec3.refruns), PlaceIs(a, dec3.refruns)
  PROVE  /\ CheckB1(a).no = a.no
         /\ \E n \in Nat : /\ CheckB1(a).pb = a.pb + 2 * n
                           /\ n > 0 => Sum(dec3.refruns, a.pb + 2 * (n - 1)) <= a.a0
<1> DEFINE ref == dec3.refruns
           b1(m) == a.b1 + SumRuns(ref, a.pb, a.pb + 2 * m)
           M == {m \in 0..Len(ref) : b1(m) > a.a0 \/ b1(m) >= lastx}
           n == Min(M)
           c == [a EXCEPT !.b1 = b1(n), !.pb = @ + 2 * n]
<1>1. CheckB1(a) = IF a.pa = 0 THEN a ELSE c
  BY DEF CheckB1
<1>2. ref \in Seq(Nat) /\ Len(ref) \in Nat /\ lastx \in Nat /\ lastx > 0
  BY CodecAssumption DEF RefIs, lastx
<1>3. a.pb \in Nat /\ a.pa \in Nat /\ a.a0 \in Nat
  BY DEF RowType
<1>4. ASSUME NEW m \in Nat
      PROVE  b1(m) = Sum(ref, a.pb + 2 * m) /\ a.pb + 2 * m \in Nat
  <2>1. PICK j \in Nat : j = a.pb + 2 * m
    BY <1>3
  <2>2. 0 <= a.pb /\ a.pb <= j
    BY <1>3, <2>1
  <2>3. SumRuns(ref, 0, j) = SumRuns(ref, 0, a.pb) + SumRuns(ref, a.pb, j)
    BY <1>2, <1>3, <2>1, <2>2, SumSplit
  <2> QED BY <2>1, <2>3 DEF PlaceIs, Sum
<1>5. CASE a.pa = 0
  <2>1. CheckB1(a) = a /\ a.pb = a.pb + 2 * 0
    BY <1>1, <1>3, <1>5
  <2> QED BY <2>1
<1>6. CASE a.pa # 0
  <2>1. Len(ref) \in M
    <3>1. a.pb + 2 * Len(ref) >= Len(ref) - 1 /\ a.pb + 2 * Len(ref) \in Nat
      BY <1>2, <1>3
    <3>2. b1(Len(ref)) >= lastx
      <4> HIDE DEF b1
      <4> QED BY <1>2, <1>4, <3>1, Reached
    <3> HIDE DEF b1
    <3> QED BY <1>2, <3>2
  <2>2. n \in M /\ \A m \in M : n <= m
    <3>1. M \in SUBSET Nat
      BY <1>2
    <3> HIDE DEF M
    <3> QED BY <2>1, <3>1, MinOf
  <2> HIDE DEF n, b1
  <2>3. n \in Nat /\ n <= Len(ref)
    BY <1>2, <2>2
  <2>4. ASSUME n > 0 PROVE Sum(ref, a.pb + 2 * (n - 1)) <= a.a0
    <3>1. PICK m \in Nat : m = n - 1 /\ m \in 0..Len(ref) /\ ~(n <= m)
      <4>1. n - 1 \in Nat /\ n - 1 \in 0..Len(ref) /\ ~(n <= n - 1)
        BY <1>2, <2>3, <2>4
      <4> QED BY <4>1
    <3>2. m \notin M
      BY <2>2, <3>1
    <3>3. b1(m) = Sum(ref, a.pb + 2 * m) /\ a.pb + 2 * m \in Nat
      BY <1>4, <3>1
    <3>4. ~(b1(m) > a.a0)
      BY <3>1, <3>2
    <3>5. b1(m) \in Nat
      BY <1>2, <3>3, SumRange
    <3> QED BY <1>3, <3>1, <3>3, <3>4, <3>5
  <2>5. c.no = a.no /\ c.pb = a.pb + 2 * n
    BY DEF RowType
  <2>6. CheckB1(a) = c
    BY <1>1, <1>6
  <2> QED BY <2>3, <2>4, <2>5, <2>6
<1> QED BY <1>5, <1>6

-----------------------------------------------------------------------------
(***************************************************************************)
(* The runs of a row, one code after another.                              *)
(***************************************************************************)
LEMMA NothingAdded ==
  ASSUME NEW m \in Nat, NEW n \in Nat, NEW y \in Nat, n <= y, m + (y - n) = 0
  PROVE  m = 0 /\ y = n
OBVIOUS

LEMMA Lengthened ==
  ASSUME NEW m \in Nat, NEW l \in Nat, NEW x \in Nat, NEW y \in Nat, x = m + l, x <= y
  PROVE  /\ y - x \in Nat /\ y - x \in Int /\ x + (y - x) = y /\ l + (y - x) \in Nat
         /\ m + (l + (y - x)) = y
OBVIOUS

\* A run grows by pixels of its color.
LEMMA RunGrows ==
  ASSUME NEW a, RunsAre(a), RunsRight(a), InData(a.no),
         NEW y \in a.a0..lastx, Alike(a.no, a.a0, y, a.pa % 2),
         NEW b, b.no = a.no, b.pa = a.pa, b.runs = a.runs, b.a0 = y,
         b.RunLength = a.RunLength + (y - a.a0)
  PROVE  RunsRight(b)
<1>1. /\ a.a0 \in Nat /\ a.RunLength \in Nat /\ a.pa \in Nat /\ lastx \in Nat /\ y \in Nat
      /\ Sum(a.runs, a.pa) \in Nat
  BY RowNumbers, Width DEF RunsAre
<1>2. ASSUME NEW z \in (Sum(a.runs, a.pa) + 1)..y PROVE Row(a.no)[z] = a.pa % 2
  <2>1. CASE z <= a.a0
    BY <1>1, <2>1 DEF RunsRight
  <2>2. CASE z > a.a0
    <3>1. z \in (a.a0 + 1)..y
      BY <1>1, <2>2
    <3> QED BY <3>1 DEF Alike
  <2> QED BY <1>1, <2>1, <2>2
<1>3. b.RunLength = 0 => a.RunLength = 0 /\ y = a.a0
  <2>1. SUFFICES ASSUME b.RunLength = 0 PROVE a.RunLength = 0 /\ y = a.a0
    OBVIOUS
  <2>2. a.a0 <= y /\ a.RunLength + (y - a.a0) = 0
    BY <1>1, <2>1
  <2> QED BY <1>1, <2>2, NothingAdded
<1>4. y <= lastx
  BY <1>1
<1> QED BY <1>2, <1>3, <1>4 DEF RunsRight

\* A run ends where its color does.
LEMMA RunEndsRight ==
  ASSUME NEW a, RunsAre(a), RunsRight(a), InData(a.no),
         NEW y \in a.a0..lastx, Alike(a.no, a.a0, y, a.pa % 2), TurnsAt(a.no, y, a.pa % 2),
         \A i \in 1..lastx : Row(a.no)[i] \in {White, Black}
  PROVE  /\ RunsRight(SetValue(a, y - a.a0)) /\ RunsAre(SetValue(a, y - a.a0))
         /\ SetValue(a, y - a.a0).no = a.no /\ SetValue(a, y - a.a0).a0 = y
         /\ SetValue(a, y - a.a0).pa = a.pa + 1 /\ SetValue(a, y - a.a0).RunLength = 0
         /\ SetValue(a, y - a.a0).pb = a.pb /\ SetValue(a, y - a.a0).b1 = a.b1
         /\ SetValue(a, y - a.a0).left = a.left
<1> DEFINE x == y - a.a0
           b == SetValue(a, x)
           n == a.RunLength + x
<1>1. /\ a.a0 \in Nat /\ a.RunLength \in Nat /\ a.pa \in Nat /\ lastx \in Nat /\ y \in Nat
      /\ Sum(a.runs, a.pa) \in Nat /\ a.runs \in Seq(Nat) /\ Len(a.runs) \in Nat
      /\ a \in RowType /\ a.pa <= Len(a.runs) /\ a.a0 = Sum(a.runs, a.pa) + a.RunLength
  BY RowNumbers, Width DEF RunsAre
<1>2. x \in Nat /\ n \in Nat /\ a.a0 + x = y /\ a.a0 + x \in Nat /\ x \in Int
      /\ Sum(a.runs, a.pa) + n = y /\ a.pa \in 0..Len(a.runs)
  <2>1. a.a0 <= y
    BY <1>1
  <2>2. a.pa \in 0..Len(a.runs)
    BY <1>1
  <2>3. /\ y - a.a0 \in Nat /\ y - a.a0 \in Int /\ a.a0 + (y - a.a0) = y
        /\ a.RunLength + (y - a.a0) \in Nat
        /\ Sum(a.runs, a.pa) + (a.RunLength + (y - a.a0)) = y
    <3> HIDE DEF x, b, n
    <3>1. PICK m \in Nat : m = Sum(a.runs, a.pa)
      BY <1>1
    <3>2. PICK l \in Nat : l = a.RunLength
      BY <1>1
    <3>3. PICK w \in Nat : w = a.a0
      BY <1>1
    <3>4. PICK z \in Nat : z = y
      BY <1>1
    <3>5. w = m + l /\ w <= z
      BY <1>1, <2>1, <3>1, <3>2, <3>3, <3>4
    <3>6. z - w \in Nat /\ z - w \in Int /\ w + (z - w) = z /\ l + (z - w) \in Nat
          /\ m + (l + (z - w)) = z
      BY <3>5, Lengthened
    <3> QED BY <3>1, <3>2, <3>3, <3>4, <3>6
  <2>4. x \in Nat /\ n \in Nat /\ a.a0 + x = y /\ a.a0 + x \in Nat /\ x \in Int
    BY <1>1, <2>3
  <2>5. Sum(a.runs, a.pa) + n = y
    BY <2>3
  <2> QED BY <2>2, <2>4, <2>5
<1>3. /\ RunsAre(b) /\ b.a0 = y /\ b.RunLength = 0 /\ b.pa = a.pa + 1
      /\ b.pb = a.pb /\ b.b1 = a.b1 /\ b.left = a.left
  BY <1>2, RunEnds
<1>4. b.no = a.no /\ b.runs = SetRun(a.runs, a.pa, n)
  BY <1>1 DEF SetValue, RowType
<1> HIDE DEF b, n, x
<1>5. /\ \A k \in 0..a.pa : Sum(b.runs, k) = Sum(a.runs, k)
      /\ Sum(b.runs, a.pa + 1) = y
  <2>1. /\ \A k \in 0..a.pa : Sum(SetRun(a.runs, a.pa, n), k) = Sum(a.runs, k)
        /\ Sum(SetRun(a.runs, a.pa, n), a.pa + 1) = Sum(a.runs, a.pa) + n
    BY <1>1, <1>2, SetRunSum
  <2> QED BY <1>2, <1>4, <2>1
<1>6. \A k \in 0..(a.pa + 1) : Sum(b.runs, k) \in Nat
  <2>1. b.runs \in Seq(Nat)
    BY <1>3, RowNumbers DEF RunsAre
  <2>2. \A k \in Nat : Sum(b.runs, k) \in Nat
    BY <2>1, SumRange
  <2>3. \A k \in 0..(a.pa + 1) : k \in Nat
    BY <1>1
  <2> QED BY <2>2, <2>3
<1>7. y <= lastx
  BY <1>1
<1>8. ASSUME NEW i \in 0..(b.pa - 1), NEW z \in (Sum(b.runs, i) + 1)..Sum(b.runs, i + 1)
      PROVE  Row(b.no)[z] = i % 2
  <2>1. CASE i < a.pa
    <3>1. i \in 0..a.pa /\ i + 1 \in 0..a.pa /\ i \in 0..(a.pa - 1)
      BY <1>1, <1>3, <2>1, SMTT(30)
    <3>2. z \in (Sum(a.runs, i) + 1)..Sum(a.runs, i + 1)
      BY <1>5, <3>1
    <3> QED BY <1>4, <3>1, <3>2 DEF RunsRight
  <2>2. CASE ~(i < a.pa)
    <3>1. i = a.pa /\ a.pa \in 0..a.pa
      BY <1>1, <1>3, <2>2
    <3>2. z \in (Sum(a.runs, a.pa) + 1)..y
      BY <1>5, <3>1
    <3>3. CASE z <= a.a0
      <4>1. z \in (Sum(a.runs, a.pa) + 1)..a.a0
        BY <1>1, <3>2, <3>3
      <4> QED BY <1>4, <3>1, <4>1 DEF RunsRight
    <3>4. CASE z > a.a0
      <4>1. z \in (a.a0 + 1)..y
        BY <1>1, <3>2, <3>4
      <4> QED BY <1>4, <3>1, <4>1 DEF Alike
    <3> QED BY <1>1, <3>2, <3>3, <3>4
  <2> QED BY <2>1, <2>2
<1>9. \A z \in (Sum(b.runs, b.pa) + 1)..b.a0 : Row(b.no)[z] = b.pa % 2
  BY <1>1, <1>3, <1>5
<1>10. ASSUME NEW i \in 1..(b.pa - 1), Sum(b.runs, i) < lastx
       PROVE  Sum(b.runs, i) < Sum(b.runs, i + 1)
  <2>1. CASE i < a.pa
    <3>1. i \in 0..a.pa /\ i + 1 \in 0..a.pa /\ i \in 1..(a.pa - 1)
      BY <1>1, <1>3, <2>1, SMTT(30)
    <3> QED BY <1>5, <1>10, <3>1 DEF RunsRight
  <2>2. CASE ~(i < a.pa)
    <3>1. i = a.pa /\ a.pa \in 0..a.pa /\ a.pa > 0
      BY <1>1, <1>3, <2>2
    <3>2. Sum(b.runs, i) = Sum(a.runs, a.pa) /\ Sum(b.runs, i + 1) = y
      BY <1>5, <3>1
    <3>3. ASSUME ~(Sum(a.runs, a.pa) < y) PROVE FALSE
      <4>1. y = a.a0 /\ a.RunLength = 0 /\ a.a0 < lastx
        BY <1>1, <1>10, <3>2, <3>3
      <4>2. Row(a.no)[a.a0 + 1] = a.pa % 2
        BY <3>1, <4>1 DEF RunsRight
      <4>3. y # lastx
        BY <1>1, <4>1
      <4> QED BY <4>1, <4>2, <4>3 DEF TurnsAt
    <3> QED BY <3>2, <3>3
  <2> QED BY <2>1, <2>2
<1>11. b.a0 < lastx => Row(b.no)[b.a0 + 1] = b.pa % 2
  <2>1. SUFFICES ASSUME y < lastx PROVE Row(a.no)[y + 1] = (a.pa + 1) % 2
    BY <1>3, <1>4
  <2>2. a.pa % 2 \in {0, 1} /\ (a.pa + 1) % 2 = 1 - (a.pa % 2)
    BY <1>1, Parity
  <2>3. y \in 0..lastx
    BY <1>1
  <2> QED BY <2>1, <2>2, <2>3, OtherColor, ColorsAre
<1>12. RunsRight(b)
  BY <1>3, <1>4, <1>7, <1>8, <1>9, <1>10, <1>11 DEF RunsRight
<1> QED BY <1>3, <1>4, <1>12 DEF b, x

\* Two runs of no length are left out.
LEMMA FewerRuns ==
  ASSUME NEW a, RunsAre(a), RunsRight(a), a.RunLength = 0, NEW b, RunsAre(b),
         b.no = a.no, b.a0 = a.a0, b.runs = a.runs, b.RunLength = 0, b.pa + 2 = a.pa
  PROVE  RunsRight(b)
<1>1. /\ a.pa \in Nat /\ b.pa \in Nat /\ Sum(b.runs, b.pa) \in Nat
      /\ b.a0 = Sum(b.runs, b.pa) + b.RunLength
  BY RowNumbers DEF RunsAre
<1>2. \A i \in 0..(b.pa - 1) : i \in 0..(a.pa - 1)
  BY <1>1
<1>3. \A i \in 1..(b.pa - 1) : i \in 1..(a.pa - 1)
  BY <1>1
<1>4. \A z \in (Sum(b.runs, b.pa) + 1)..b.a0 : Row(b.no)[z] = b.pa % 2
  BY <1>1
<1>5. a.pa % 2 = b.pa % 2 /\ (b.pa > 0 => a.pa > 0)
  BY <1>1, Parity
<1> QED BY <1>2, <1>3, <1>4, <1>5 DEF RunsRight

-----------------------------------------------------------------------------
(***************************************************************************)
(* The steps of the decoder.                                               *)
(***************************************************************************)
LEMMA WithinKept ==
  ASSUME UNCHANGED stripVars
  PROVE  /\ \A a : RunsRight(a) => RunsRight(a)'
         /\ \A a, d, p, s : WithinRow(a, d, p, s) => WithinRow(a, d, p, s)'
         /\ \A a, s : RowRead(a, s) => RowRead(a, s)'
<1>1. scheme' = scheme
  BY DEF stripVars
<1>2. /\ \A n : Row(n)' = Row(n) /\ LineStart(n)' = LineStart(n)
      /\ \A n : InData(n)' <=> InData(n)
  BY RowsKept
<1>3. \A a : RunsRight(a) => RunsRight(a)'
  BY <1>2 DEF RunsRight
<1>4. \A a, d, t : RefAt(a, d, t) => RefAt(a, d, t)'
  BY <1>1 DEF RefAt
<1>5. \A s : AtColor(s)' <=> AtColor(s)
  BY <1>2 DEF AtColor
<1>6. \A a, p : SpotOf(a, p)' = SpotOf(a, p)
  BY DEF SpotOf
<1>7. \A a, d, p, s : WithinRow(a, d, p, s) => WithinRow(a, d, p, s)'
  BY <1>2, <1>3, <1>4, <1>5, <1>6 DEF WithinRow
<1>8. \A a, s : RowRead(a, s) => RowRead(a, s)'
  BY <1>1, <1>2, <1>3 DEF RowRead, HasEol
<1> QED BY <1>3, <1>7, <1>8

Marked(f) == f[0] = LineStart(1) /\ Along(f, stream) /\ DecodedTo(f[dec3.bp])

LEMMA RowGoesOn ==
  ASSUME scheme \in FaxSchemes, Bilevel, NEW f, Marked(f),
         NEW a, NEW dec, FaxStep(a, dec), pc' \in RowPcs,
         dec.refruns = dec3.refruns, dec.refno = dec3.refno, a.no # 0,
         a.no > 0 /\ pc' \in RunPcs => WithinRow(a, dec, pc', f[dec.bp]),
         a.no > 0 /\ pc' \in {"done", "fill"} => RowRead(a, f[dec.bp])
  PROVE  RowsInv'
<1>1. /\ at' = a /\ dec3' = dec /\ UNCHANGED stripVars /\ stream' = stream /\ scheme' = scheme
  BY DEF FaxStep, stripVars
<1>2. Bilevel' /\ scheme' \in FaxSchemes
  BY <1>1, RowsKept
<1>3. pc' \notin EncoderPcs /\ pc' \notin {"idle", "call"}
  BY DEF EncoderPcs, RowPcs, RunPcs
<1>4. Along(f, stream)' /\ f[0] = LineStart(1)'
  <2>1. PICK u : u = stream
    OBVIOUS
  <2>2. Along(f, u)'
    BY <1>1, <2>1, WaysKept DEF Marked
  <2> QED BY <1>1, <2>1, <2>2, RowsKept DEF Marked
<1>5. PICK d : d = dec
  OBVIOUS
<1>6. PICK p : p = pc'
  OBVIOUS
<1>7. PICK s : s = f[dec.bp]
  OBVIOUS
<1>8. a.no > 0 /\ p \in RunPcs => WithinRow(a, d, p, s)'
  BY <1>1, <1>5, <1>6, <1>7, WithinKept
<1>9. a.no > 0 /\ p \in {"done", "fill"} => RowRead(a, s)'
  BY <1>1, <1>6, <1>7, WithinKept
<1>10. \A k : RefRow(k)' = RefRow(k)
  BY <1>1, RowsKept
<1>11. scheme \in {"g32d", "g4"} /\ dec3.refno >= 0 =>
         RefRight(dec3.refruns, RefRow(dec3.refno + 1))
  BY DEF Marked, DecodedTo
<1>12. PICK r : r = RefRow(dec3.refno + 1)
  OBVIOUS
<1>13. scheme' \in {"g32d", "g4"} /\ dec3'.refno >= 0 =>
         RefRight(dec3.refruns, RefRow(dec3.refno + 1))'
  <2>1. RefRow(dec3.refno + 1)' = r
    BY <1>1, <1>10, <1>12 DEF RefRow
  <2>2. dec3'.refruns = dec3.refruns /\ dec3'.refno = dec3.refno
    BY <1>1
  <2> QED BY <1>1, <1>11, <1>12, <2>1, <2>2, ZenonT(40) DEF RefRight
<1>14. (WithinRow(at, dec3, pc, s))' <=> WithinRow(a, d, p, s)'
  BY <1>1, <1>5, <1>6
<1>15. RowRead(at, s)' <=> RowRead(a, s)'
  BY <1>1
<1>16. DecodedTo(s)'
  BY <1>1, <1>3, <1>6, <1>8, <1>9, <1>13, <1>14, <1>15 DEF DecodedTo
<1>17. DecodedTo(f[dec3.bp])'
  BY <1>1, <1>7, <1>16
<1> QED BY <1>2, <1>3, <1>4, <1>17 DEF RowsInv

\* None of the decoder's tables has the code that ends a strip.
LEMMA NoEndInTables ==
  /\ EolCode(FALSE, 0) \notin MainTable
  /\ \A c \in {White, Black} : EolCode(FALSE, 0) \notin SpanTable[c]
<1>1. EolCode(FALSE, 0).type = "eol" /\ EolCode(FALSE, 0).is1D = FALSE
  BY DEF EolCode
<1>2. /\ PassCode.type = "pass" /\ HorizCode.type = "horiz" /\ ExtCode.type = "ext"
      /\ NullCode.type = "null" /\ EolCode(TRUE, 0).is1D = TRUE
      /\ \A n : VertCode(n).type = "vert"
      /\ \A c, n : TermCode(c, n).type = "term" /\ MakeUpCode(c, n).type = "makeup"
  BY DEF PassCode, HorizCode, ExtCode, NullCode, EolCode, VertCode, TermCode, MakeUpCode
<1>3. EolCode(FALSE, 0) \notin MainTable
  BY <1>1, <1>2 DEF MainTable
<1>4. ASSUME NEW c \in {White, Black} PROVE EolCode(FALSE, 0) \notin SpanTable[c]
  <2>1. SpanTable[c] = {TermCode(c, n) : n \in Lengths}
                \cup {MakeUpCode(c, n) : n \in MakeUps} \cup {EolCode(TRUE, 0), NullCode}
    BY DEF SpanTable
  <2> QED BY <1>1, <1>2, <2>1
<1> QED BY <1>3, <1>4

\* What is known of the row that a code is read into, and of the code: it is the one
\* that leads on.
CodeIsRight(a, read, f) ==
  /\ WithinRow(a, dec3, pc, f[dec3.bp]) /\ InData(a.no)
  /\ f[dec3.bp] \in Spots
  /\ \/ MakesLonger(f[dec3.bp], read, f[dec3.bp + 1])
     \/ EndsRun(f[dec3.bp], read, f[dec3.bp + 1])
     \/ Compares(f[dec3.bp], read, f[dec3.bp + 1])

LEMMA SpotIsAt ==
  ASSUME NEW a, NEW p
  PROVE  /\ SpotOf(a, p).no = a.no /\ SpotOf(a, p).x = a.a0 /\ SpotOf(a, p).c = Color(a)
         /\ p \in {"1D", "2D"} => SpotOf(a, p).md = p
         /\ p = "horiz" /\ a.left = 2 => SpotOf(a, p).md = "h1"
         /\ p = "horiz" /\ a.left # 2 => SpotOf(a, p).md = "h2"
BY DEF SpotOf, Spot

LEMMA RightCode ==
  ASSUME FaxInv, RowsInv, pc \in RunPcs, NEW table, EolCode(FALSE, 0) \notin table,
         NEW l \in Lookup(table)
  PROVE  /\ scheme \in FaxSchemes /\ Bilevel /\ l.at.no # 0
         /\ \E f : Marked(f) /\ (l.at.no > 0 => l.at = at /\ CodeIsRight(l.at, l.code, f))
<1>1. /\ stream \in Seq(FaxCodes) /\ Len(stream) \in Nat
      /\ dec3.bp \in Nat /\ dec3.bp <= Len(stream) /\ at \in RowType
  BY DEF FaxInv, FaxStripOK, FaxDecoderOK, DecoderType, DecoderRecords, FaxRowOK
<1>2. /\ ~AtEnd /\ l.code \in Readings(table)
      /\ l.at = IF IsOf(table, dec3.bp + 1) THEN at ELSE [at EXCEPT !.no = -1]
  BY DEF Lookup
<1>3. PICK i \in 1..Len(stream) : i = dec3.bp + 1 /\ i - 1 = dec3.bp
  <2>1. dec3.bp # Len(stream)
    BY <1>2 DEF AtEnd
  <2>2. dec3.bp + 1 \in 1..Len(stream) /\ (dec3.bp + 1) - 1 = dec3.bp
    BY <1>1, <2>1
  <2> QED BY <2>2
<1>4. scheme \in FaxSchemes /\ Bilevel
  BY DEF RowsInv
<1>5. PICK f : Marked(f)
  <2>1. pc \notin EncoderPcs
    BY DEF RunPcs, EncoderPcs
  <2> QED BY <2>1 DEF RowsInv, Marked
<1>6. at.no # 0
  BY <1>5 DEF Marked, DecodedTo, RowPcs
<1>7. l.at.no # 0
  <2>1. CASE l.at = at
    BY <1>6, <2>1
  <2>2. CASE l.at = [at EXCEPT !.no = -1]
    <3>1. l.at.no = -1
      BY <1>1, <2>2 DEF RowType
    <3> QED BY <3>1
  <2> QED BY <1>2, <2>1, <2>2
<1>8. ASSUME l.at.no > 0 PROVE l.at = at /\ CodeIsRight(l.at, l.code, f)
  <2>1. IsOf(table, i)
    <3>1. SUFFICES ASSUME ~IsOf(table, i) PROVE FALSE
      OBVIOUS
    <3>2. l.at = [at EXCEPT !.no = -1]
      BY <1>2, <1>3, <3>1
    <3>3. l.at.no = -1
      BY <1>1, <3>2 DEF RowType
    <3> QED BY <1>8, <3>3
  <2>2. l.at = at /\ at.no > 0
    BY <1>2, <1>3, <1>8, <2>1
  <2>3. l.code = stream[i] /\ stream[i] \in table
    BY <1>2, <1>3, <2>1 DEF IsOf, Readings
  <2>4. WithinRow(at, dec3, pc, f[dec3.bp])
    BY <1>5, <2>2 DEF Marked, DecodedTo
  <2>5. f[dec3.bp] \in Spots
    <3>1. LineStart(1) \in Spots
      BY SpotIs, Width DEF Modes
    <3>2. dec3.bp \in 0..Len(stream)
      BY <1>1
    <3> QED BY <1>1, <1>5, <3>1, <3>2, AlongSpots DEF Marked
  <2>6. CodeFits(f[dec3.bp], l.code, f[dec3.bp + 1])
    BY <1>3, <1>5, <2>3 DEF Marked, Along
  <2>7. ~EndsStrip(f[dec3.bp], l.code, f[dec3.bp + 1])
    BY <2>3 DEF EndsStrip
  <2>8. f[dec3.bp] = SpotOf(at, pc)
    BY <2>4 DEF WithinRow
  <2>9. f[dec3.bp].no = at.no /\ f[dec3.bp].md # "line"
    BY <2>8, SpotIsAt DEF RunPcs
  <2>10. ~BeginsLine(f[dec3.bp], l.code, f[dec3.bp + 1])
    BY <2>9 DEF BeginsLine
  <2> QED BY <2>2, <2>4, <2>5, <2>6, <2>7, <2>9, <2>10 DEF CodeFits, CodeIsRight
<1> QED BY <1>4, <1>5, <1>7, <1>8

\* The numbers of a code that leads on.
LEMMA RightKinds ==
  ASSUME NEW s, NEW q, NEW t
  PROVE  /\ MakesLonger(s, q, t) => q.type = "makeup"
         /\ EndsRun(s, q, t) => q.type = "term"
         /\ Compares(s, q, t) => q.type \in {"pass", "vert", "horiz"} /\ s.md = "2D"
         /\ MakesLonger(s, q, t) \/ EndsRun(s, q, t) => s.md \in {"1D", "h1", "h2"}
<1>1. MakesLonger(s, q, t) => q.type = "makeup"
  BY DEF MakesLonger, MakeUpCode
<1>2. EndsRun(s, q, t) => q.type = "term" /\ s.md \in {"1D", "h1", "h2"}
  BY DEF EndsRun, TermCode
<1>3. Compares(s, q, t) => q.type \in {"pass", "vert", "horiz"} /\ s.md = "2D"
  BY DEF Compares, Passes, GoesBy, TwoRuns, PassCode, VertCode, HorizCode
<1> QED BY <1>1, <1>2, <1>3 DEF MakesLonger

LEMMA ConsumedKeeps ==
  ASSUME FaxInv, NEW read
  PROVE  /\ Consumed(read).refno = dec3.refno /\ Consumed(read).refruns = dec3.refruns
         /\ read # NullCode => Consumed(read).bp = dec3.bp + 1
         /\ \A n : /\ [Consumed(read) EXCEPT !.EOLcnt = n].refno = dec3.refno
                   /\ [Consumed(read) EXCEPT !.EOLcnt = n].refruns = dec3.refruns
<1> DEFINE place == IF read = NullCode THEN dec3.bp ELSE dec3.bp + 1
           d == [dec3 EXCEPT !.bp = place]
<1>1. dec3 \in DecoderRecords
  BY DEF FaxInv, FaxDecoderOK, DecoderType
<1>2. Consumed(read) = d
  BY DEF Consumed
<1>3. read # NullCode => place = dec3.bp + 1
  OBVIOUS
<1> HIDE DEF place
<1>4. d.refno = dec3.refno /\ d.refruns = dec3.refruns /\ d.bp = place
  BY <1>1 DEF DecoderRecords
<1>5. ASSUME NEW n
      PROVE  [d EXCEPT !.EOLcnt = n].refno = d.refno /\ [d EXCEPT !.EOLcnt = n].refruns = d.refruns
  BY <1>1 DEF DecoderRecords
<1> QED BY <1>2, <1>3, <1>4, <1>5

\* A make-up code is read.
LEMMA MakeUpReads ==
  ASSUME NEW a, NEW d, NEW p \in {"1D", "horiz"}, NEW s, NEW q, NEW t,
         RunsAre(a), InData(a.no), WithinRow(a, d, p, s), MakesLonger(s, q, t),
         d.refruns \in Seq(Nat),
         NEW e, e.refruns = d.refruns, e.refno = d.refno
  PROVE  /\ WithinRow([a EXCEPT !.a0 = @ + q.n, !.RunLength = @ + q.n], e, p, t)
         /\ [a EXCEPT !.a0 = @ + q.n, !.RunLength = @ + q.n].no = a.no
<1>1. s = SpotOf(a, p) /\ RunsRight(a)
  BY DEF WithinRow
<1>2. PICK n \in MakeUps :
        /\ q = MakeUpCode(s.c, n) /\ s.x + n <= lastx
        /\ Alike(s.no, s.x, s.x + n, s.c) /\ t = Spot(s.no, s.x + n, s.c, s.md)
  BY DEF MakesLonger
<1>3. n \in Nat /\ q.n = n
  BY <1>2, FaxAssumption DEF MakeUps, MakeUpCode
<1>4. s.no = a.no /\ s.x = a.a0 /\ s.c = a.pa % 2
  BY <1>1, SpotIsAt DEF Color
<1>5. a \in RowType /\ a.a0 \in Nat /\ a.RunLength \in Nat /\ a.pb \in Nat /\ a.pa \in Nat
  BY RowNumbers DEF RunsAre
<1> DEFINE b == [a EXCEPT !.a0 = @ + q.n, !.RunLength = @ + q.n]
<1>6. /\ b.no = a.no /\ b.pa = a.pa /\ b.runs = a.runs /\ b.pb = a.pb /\ b.b1 = a.b1
      /\ b.left = a.left /\ b.a0 = a.a0 + n /\ b.RunLength = a.RunLength + n
  BY <1>3, <1>5 DEF RowType
<1> HIDE DEF b
<1>7. PICK y \in a.a0..lastx : y = a.a0 + n /\ y - a.a0 = n /\ a.a0 <= y
  <2>1. a.a0 + n \in a.a0..lastx /\ (a.a0 + n) - a.a0 = n /\ a.a0 <= a.a0 + n
    BY <1>2, <1>3, <1>4, <1>5, Width
  <2> QED BY <2>1
<1>8. RunsRight(b)
  <2>1. Alike(a.no, a.a0, y, a.pa % 2)
    BY <1>2, <1>4, <1>7
  <2>2. b.a0 = y /\ b.RunLength = a.RunLength + (y - a.a0)
    BY <1>6, <1>7
  <2> QED BY <1>1, <1>6, <2>1, <2>2, RunGrows
<1>9. t = SpotOf(b, p)
  <2>1. s.md = (IF p # "horiz" THEN p ELSE IF a.left = 2 THEN "h1" ELSE "h2")
    BY <1>1 DEF SpotOf, Spot
  <2> QED BY <1>2, <1>4, <1>6, <2>1 DEF SpotOf, Color
<1>10. ASSUME NEW between, RefAt(a, d, between) PROVE RefAt(b, e, between)
  <2>1. a.pb >= 2 => Sum(d.refruns, a.pb - 2) <= a.a0 /\ Sum(d.refruns, a.pb - 2) \in Nat
    <3>1. ASSUME a.pb >= 2 PROVE a.pb - 2 \in Nat
      BY <1>5, <3>1
    <3> QED BY <1>10, <3>1, SumRange DEF RefAt
  <2>2. b.pb >= 2 => Sum(e.refruns, b.pb - 2) <= b.a0
    <3>1. b.pb = a.pb /\ e.refruns = d.refruns /\ b.a0 = a.a0 + n
      BY <1>6
    <3> QED BY <1>3, <1>5, <2>1, <3>1
  <2> QED BY <1>6, <1>10, <2>2 DEF RefAt
<1>11. p # "1D" => RefAt(b, e, p = "horiz" /\ b.left = 1)
  <2>1. p # "1D" => RefAt(a, d, p = "horiz" /\ a.left = 1)
    BY DEF WithinRow
  <2> QED BY <1>6, <1>10, <2>1
<1>12. p # "2D"
  OBVIOUS
<1>13. WithinRow(b, e, p, t)
  BY <1>8, <1>9, <1>11, <1>12 DEF WithinRow
<1> QED BY <1>6, <1>13 DEF b

\* The code is read that ends a run.
LEMMA TermReads ==
  ASSUME NEW a, NEW p, NEW q, NEW t, NEW s, s = SpotOf(a, p), EndsRun(s, q, t),
         RunsAre(a), InData(a.no), RunsRight(a), Bilevel, a.no \in Nat \ {0}
  PROVE  /\ q.n \in Nat
         /\ RunsRight(SetValue(a, q.n)) /\ RunsAre(SetValue(a, q.n))
         /\ SetValue(a, q.n).no = a.no /\ SetValue(a, q.n).a0 = a.a0 + q.n
         /\ SetValue(a, q.n).pa = a.pa + 1 /\ SetValue(a, q.n).RunLength = 0
         /\ SetValue(a, q.n).pb = a.pb /\ SetValue(a, q.n).b1 = a.b1
         /\ SetValue(a, q.n).left = a.left
         /\ a.a0 + q.n <= lastx /\ a.a0 + q.n \in Nat
         /\ (a.pa + 1) % 2 = 1 - (a.pa % 2)
         /\ s.md = "1D" => t = SpotTo(a.no, a.a0 + q.n, (a.pa + 1) % 2, "1D")
         /\ s.md = "h1" => t = Spot(a.no, a.a0 + q.n, (a.pa + 1) % 2, "h2")
         /\ s.md = "h2" => t = SpotTo(a.no, a.a0 + q.n, (a.pa + 1) % 2, "2D")
<1>1. PICK n \in Lengths :
        /\ q = TermCode(s.c, n) /\ s.x + n <= lastx
        /\ Alike(s.no, s.x, s.x + n, s.c) /\ TurnsAt(s.no, s.x + n, s.c)
        /\ \/ s.md = "1D" /\ t = SpotTo(s.no, s.x + n, 1 - s.c, "1D")
           \/ s.md = "h1" /\ t = Spot(s.no, s.x + n, 1 - s.c, "h2")
           \/ s.md = "h2" /\ t = SpotTo(s.no, s.x + n, 1 - s.c, "2D")
  BY DEF EndsRun
<1>2. n \in Nat /\ q.n = n
  <2>1. q.n = n
    BY <1>1 DEF TermCode
  <2> QED BY <2>1, Width DEF Lengths
<1>3. s.no = a.no /\ s.x = a.a0 /\ s.c = a.pa % 2
  BY SpotIsAt DEF Color
<1>4. a.a0 \in Nat /\ a.pa \in Nat
  BY RowNumbers DEF RunsAre
<1>5. (a.pa + 1) % 2 = 1 - (a.pa % 2)
  BY <1>4, Parity
<1>6. PICK y \in a.a0..lastx : y = a.a0 + n /\ y - a.a0 = n /\ y \in Nat /\ y <= lastx
  <2>1. /\ a.a0 + n \in a.a0..lastx /\ (a.a0 + n) - a.a0 = n /\ a.a0 + n \in Nat
        /\ a.a0 + n <= lastx
    BY <1>1, <1>2, <1>3, <1>4, Width
  <2> QED BY <2>1
<1>7. \A i \in 1..lastx : Row(a.no)[i] \in {White, Black}
  BY RowIsBilevel
<1>8. Alike(a.no, a.a0, y, a.pa % 2) /\ TurnsAt(a.no, y, a.pa % 2)
  BY <1>1, <1>3, <1>6
<1>9. /\ RunsRight(SetValue(a, y - a.a0)) /\ RunsAre(SetValue(a, y - a.a0))
      /\ SetValue(a, y - a.a0).no = a.no /\ SetValue(a, y - a.a0).a0 = y
      /\ SetValue(a, y - a.a0).pa = a.pa + 1 /\ SetValue(a, y - a.a0).RunLength = 0
      /\ SetValue(a, y - a.a0).pb = a.pb /\ SetValue(a, y - a.a0).b1 = a.b1
      /\ SetValue(a, y - a.a0).left = a.left
  BY <1>7, <1>8, RunEndsRight
<1>10. y - a.a0 = q.n /\ y = a.a0 + q.n
  BY <1>2, <1>6
<1> QED BY <1>1, <1>2, <1>3, <1>5, <1>6, <1>9, <1>10

\* Two runs that are left out are empty, so that the place in the row stays.
LEMMA EmptyOutRight ==
  ASSUME NEW a, NEW ref, Between(a, ref), a.pa > 0, a.pb > 0, RunsRight(a), a.RunLength = 0
  PROVE  /\ RunsRight(WithoutEmpty(a)) /\ WithoutEmpty(a).no = a.no
         /\ WithoutEmpty(a).a0 = a.a0 /\ WithoutEmpty(a).pa % 2 = a.pa % 2
<1> DEFINE b == WithoutEmpty(a)
           c == [a EXCEPT !.pa = @ - 2]
<1>1. a \in RowType /\ a.pa \in Nat /\ RunsAre(a)
  BY RowNumbers DEF Between, RunsAre
<1>2. RunsAre(b)
  BY EmptyLeftOut DEF Between
<1>3. CASE b = a
  BY <1>3
<1>4. CASE b # a
  <2>1. b = c /\ a.pa % 2 = 0
    BY <1>4 DEF WithoutEmpty
  <2>2. /\ c.no = a.no /\ c.a0 = a.a0 /\ c.runs = a.runs /\ c.RunLength = a.RunLength
        /\ c.pa = a.pa - 2
    BY <1>1 DEF RowType
  <2> HIDE DEF b, c
  <2>3. b.pa \in Nat
    BY <1>2, RowNumbers DEF RunsAre
  <2>4. b.pa + 2 = a.pa
    BY <1>1, <2>1, <2>2, <2>3
  <2>5. RunsRight(b)
    BY <1>1, <1>2, <2>1, <2>2, <2>4, FewerRuns
  <2>6. b.pa % 2 = a.pa % 2
    BY <2>3, <2>4, Parity
  <2> QED BY <2>1, <2>2, <2>5, <2>6 DEF b
<1> QED BY <1>3, <1>4

LEMMA Span1DRows == FaxInv /\ RowsInv /\ Span1D => RowsInv'
<1> SUFFICES ASSUME FaxInv, RowsInv, Span1D PROVE RowsInv'
  OBVIOUS
<1> DEFINE table == SpanTable[Color(at)]
           ref == dec3.refruns
<1>1. pc = "1D" /\ pc \in RunPcs /\ pc \in RowPcs
  BY DEF Span1D, RunPcs, RowPcs
<1>2. PICK l \in Lookup(table) : Expand1D(l.code, l.at)
  BY DEF Span1D
<1>3. EolCode(FALSE, 0) \notin table /\ table \subseteq FaxCodes
  BY ColorIs, NoEndInTables, TablesTypes
<1> HIDE DEF table
<1> DEFINE read == l.code
           a == l.at
           used == Consumed(read)
<1>4. scheme \in FaxSchemes /\ Bilevel /\ a.no # 0
  BY <1>1, <1>2, <1>3, RightCode
<1>5. PICK f : Marked(f) /\ (a.no > 0 => CodeIsRight(a, read, f))
  BY <1>1, <1>2, <1>3, RightCode
<1>6. read \in FaxCodes
  BY <1>1, <1>2, <1>3, CodeRead
<1>7. Between(a, ref) /\ a.pb = at.pb /\ RefIs(ref)
  BY <1>1, <1>2, ReadInto
<1>8. a.pb > 0
  BY <1>1, <1>7 DEF FaxInv, FaxRowOK
<1>9. /\ used.refno = dec3.refno /\ used.refruns = ref
      /\ read # NullCode => used.bp = dec3.bp + 1
      /\ \A n : /\ [used EXCEPT !.EOLcnt = n].refno = dec3.refno
                /\ [used EXCEPT !.EOLcnt = n].refruns = ref
  BY ConsumedKeeps
<1>10. Expand1D(read, a) /\ a.no \in Int /\ RunsAre(a) /\ ref \in Seq(Nat)
  BY <1>2, <1>7 DEF Between, RunsAre, RowType, RefIs
<1> DEFINE s == f[dec3.bp]
           t == f[dec3.bp + 1]
<1>11. ASSUME a.no > 0
       PROVE  /\ WithinRow(a, dec3, "1D", s) /\ RunsRight(a) /\ s = SpotOf(a, "1D")
              /\ s.md = "1D" /\ InData(a.no) /\ a.no \in Nat \ {0}
              /\ MakesLonger(s, read, t) \/ EndsRun(s, read, t)
              /\ read.type \in {"makeup", "term"}
  <2>1. CodeIsRight(a, read, f)
    BY <1>5, <1>11
  <2>2. WithinRow(a, dec3, "1D", s) /\ InData(a.no)
        /\ (MakesLonger(s, read, t) \/ EndsRun(s, read, t) \/ Compares(s, read, t))
    BY <1>1, <2>1 DEF CodeIsRight
  <2>3. RunsRight(a) /\ s = SpotOf(a, "1D")
    BY <2>2 DEF WithinRow
  <2>4. s.md = "1D"
    BY <2>3, SpotIsAt
  <2>5. ~Compares(s, read, t)
    BY <2>4, RightKinds
  <2>6. a.no \in Nat \ {0}
    BY <1>10, <1>11
  <2> QED BY <2>2, <2>3, <2>4, <2>5, <2>6, RightKinds
<1> HIDE DEF read, a, used, ref, s, t
<1>12. CASE MakeUpRead(read, a)
  <2> DEFINE b == [a EXCEPT !.a0 = @ + read.n, !.RunLength = @ + read.n]
  <2>1. read.type = "makeup" /\ pc' = pc /\ FaxStep(b, used)
    BY <1>12 DEF MakeUpRead, used
  <2>2. read # NullCode
    BY <1>6, <2>1, CodeArguments
  <2>3. b.no = a.no
    BY <1>10 DEF RunsAre, RowType
  <2>4. ASSUME a.no > 0 PROVE WithinRow(b, used, "1D", t)
    <3>1. MakesLonger(s, read, t)
      BY <1>11, <2>1, <2>4, RightKinds
    <3> QED BY <1>9, <1>10, <1>11, <2>4, <3>1, MakeUpReads DEF ref
  <2> HIDE DEF b
  <2>5. f[used.bp] = t
    BY <1>9, <2>2 DEF t
  <2> QED BY <1>1, <1>4, <1>5, <1>9, <2>1, <2>3, <2>4, <2>5, RowGoesOn DEF ref
<1>13. CASE read.type = "term" /\ \E b \in {SetValue(a, read.n)} :
          IF b.a0 >= lastx THEN RowDone(b, Consumed(read))
          ELSE UNCHANGED pc /\ FaxStep(WithoutEmpty(b), Consumed(read))
  <2> DEFINE b == SetValue(a, read.n)
             c == WithoutEmpty(b)
  <2>1. IF b.a0 >= lastx THEN RowDone(b, used) ELSE UNCHANGED pc /\ FaxStep(c, used)
    BY <1>13 DEF used
  <2>2. read # NullCode /\ read.n \in Nat
    BY <1>6, <1>13, CodeArguments
  <2>3. Between(b, ref) /\ b.pa > 0
    BY <1>7, <2>2, RunEndsBetween
  <2>4. b.pb = a.pb /\ b.no = a.no /\ b.a0 = a.a0 + read.n /\ b.a0 \in Nat /\ b.RunLength = 0
    <3>1. a \in RowType /\ a.pa <= Len(a.runs) /\ a.a0 \in Nat /\ a.RunLength \in Nat
      BY <1>10, RowNumbers DEF RunsAre
    <3>2. read.n \in Int /\ a.a0 + read.n \in Nat /\ a.RunLength + read.n \in Nat
      BY <2>2, <3>1
    <3> QED BY <3>1, <3>2, SetValueIs
  <2>5. ASSUME a.no > 0
        PROVE  /\ RunsRight(b) /\ b.a0 <= lastx
               /\ t = SpotTo(a.no, b.a0, b.pa % 2, "1D")
    <3>1. EndsRun(s, read, t)
      BY <1>11, <1>13, <2>5, RightKinds
    <3>2. /\ RunsRight(b) /\ b.a0 <= lastx /\ b.pa = a.pa + 1
          /\ t = SpotTo(a.no, a.a0 + read.n, (a.pa + 1) % 2, "1D")
      BY <1>4, <1>10, <1>11, <2>4, <2>5, <3>1, TermReads
    <3> QED BY <2>4, <3>2
  <2>6. f[used.bp] = t
    BY <1>9, <2>2 DEF t
  <2>7. /\ RunsRight(b) => RunsRight(c)
        /\ c.no = b.no
        /\ RunsRight(b) => c.a0 = b.a0 /\ c.pa % 2 = b.pa % 2
    <3>1. c.no = b.no
      BY <2>3 DEF WithoutEmpty, Between, RunsAre, RowType
    <3>2. b.pb > 0
      BY <1>8, <2>4
    <3> HIDE DEF b
    <3> QED BY <2>3, <2>4, <3>1, <3>2, EmptyOutRight
  <2> HIDE DEF b, c
  <2>8. CASE b.a0 >= lastx
    <3>1. pc' = "done" /\ FaxStep(b, used)
      BY <2>1, <2>8 DEF RowDone
    <3>2. pc' \in RowPcs /\ pc' \notin RunPcs
      BY <3>1 DEF RowPcs, RunPcs
    <3>3. ASSUME b.no > 0 PROVE RowRead(b, t)
      <4>1. a.no > 0
        BY <2>4, <3>3
      <4>2. b.a0 = lastx
        BY <2>4, <2>5, <2>8, <4>1, Width
      <4>3. t = LineStart(b.no + 1)
        BY <2>4, <2>5, <4>1, <4>2 DEF SpotTo
      <4> QED BY <2>4, <2>5, <4>1, <4>2, <4>3 DEF RowRead
    <3> QED BY <1>4, <1>5, <1>9, <2>4, <2>6, <3>1, <3>2, <3>3, RowGoesOn DEF ref
  <2>9. CASE ~(b.a0 >= lastx)
    <3>1. pc' = pc /\ FaxStep(c, used)
      BY <2>1, <2>9
    <3>2. ASSUME c.no > 0 PROVE WithinRow(c, used, "1D", t)
      <4>1. a.no > 0
        BY <2>4, <2>7, <3>2
      <4>2. b.a0 # lastx
        BY <2>4, <2>9, Width
      <4>3. t = Spot(a.no, b.a0, b.pa % 2, "1D")
        BY <2>5, <4>1, <4>2 DEF SpotTo
      <4>4. t = SpotOf(c, "1D")
        BY <2>4, <2>5, <2>7, <4>1, <4>3 DEF SpotOf, Color
      <4> QED BY <2>5, <2>7, <4>1, <4>4 DEF WithinRow
    <3>3. c.no # 0
      BY <1>4, <2>4, <2>7
    <3> QED BY <1>1, <1>4, <1>5, <1>9, <2>6, <3>1, <3>2, <3>3, RowGoesOn DEF ref
  <2> QED BY <2>8, <2>9
<1>14. CASE read.type = "eol" /\ RowDone(a, [Consumed(read) EXCEPT !.EOLcnt = 1])
  <2> DEFINE e == [used EXCEPT !.EOLcnt = 1]
  <2>1. pc' = "done" /\ FaxStep(a, e)
    BY <1>14 DEF RowDone, used
  <2>2. pc' \in RowPcs /\ pc' \notin RunPcs
    BY <2>1 DEF RowPcs, RunPcs
  <2>3. ~(a.no > 0)
    BY <1>11, <1>14
  <2>4. e.refno = dec3.refno /\ e.refruns = ref
    BY <1>9
  <2> HIDE DEF e
  <2> QED BY <1>4, <1>5, <2>1, <2>2, <2>3, <2>4, RowGoesOn DEF ref
<1>15. CASE read.type = "null" /\ RowDone(a, dec3)
  <2>1. pc' = "done" /\ FaxStep(a, dec3)
    BY <1>15 DEF RowDone
  <2>2. pc' \in RowPcs /\ pc' \notin RunPcs
    BY <2>1 DEF RowPcs, RunPcs
  <2>3. ~(a.no > 0)
    BY <1>11, <1>15
  <2> QED BY <1>4, <1>5, <2>1, <2>2, <2>3, RowGoesOn
<1> QED BY <1>10, <1>12, <1>13, <1>14, <1>15 DEF Expand1D

\* CHECK_b1 finds the next place of the same color, and it is not too far.
LEMMA CheckedAt ==
  ASSUME NEW a, RefIs(dec3.refruns), Between(a, dec3.refruns),
         a.pb >= 2 => Sum(dec3.refruns, a.pb - 2) <= a.a0
  PROVE  /\ CheckB1(a).pb % 2 = a.pb % 2 /\ CheckB1(a).pb \in Nat \ {0}
         /\ CheckB1(a).pb >= 2 => Sum(dec3.refruns, CheckB1(a).pb - 2) <= a.a0
         /\ CheckB1(a).b1 = Sum(dec3.refruns, CheckB1(a).pb)
         /\ RunsAre(CheckB1(a)) /\ CheckB1(a).no = a.no /\ CheckB1(a).a0 = a.a0
         /\ CheckB1(a).RunLength = a.RunLength /\ CheckB1(a).pa = a.pa
         /\ CheckB1(a).runs = a.runs /\ CheckB1(a).left = a.left
         /\ (a.pa = 0 => CheckB1(a) = a)
         /\ (a.pa > 0 => CheckB1(a).b1 > a.a0 \/ CheckB1(a).b1 >= lastx)
<1>1. a \in RowType /\ PlaceIs(a, dec3.refruns) /\ a.pb \in Nat
  BY RowNumbers DEF Between, RunsAre
<1>2. PICK c : c = CheckB1(a)
  OBVIOUS
<1>3. PICK n \in Nat : /\ c.pb = a.pb + 2 * n
                       /\ n > 0 => Sum(dec3.refruns, a.pb + 2 * (n - 1)) <= a.a0
  BY <1>1, <1>2, CheckB1Moves
<1>4. /\ c.pb > 0 /\ PlaceIs(c, dec3.refruns) /\ c.runs = a.runs /\ c.no = a.no
      /\ RunsAre(c)
  BY <1>1, <1>2, CheckB1Is, CheckB1Moves, CheckB1Between DEF Between
<1>5. c.pb % 2 = a.pb % 2
  BY <1>1, <1>3, Parity
<1>6. c.pb \in Nat \ {0}
  BY <1>1, <1>3, <1>4
<1>7. ASSUME c.pb >= 2 PROVE Sum(dec3.refruns, c.pb - 2) <= a.a0
  <2>1. CASE n = 0
    <3>1. c.pb = a.pb
      BY <1>1, <1>3, <2>1
    <3> QED BY <1>7, <3>1
  <2>2. CASE n > 0
    <3>1. c.pb - 2 = a.pb + 2 * (n - 1)
      BY <1>1, <1>3, <2>2
    <3> QED BY <1>3, <2>2, <3>1
  <2> QED BY <1>3, <2>1, <2>2
<1> QED BY <1>2, <1>4, <1>5, <1>6, <1>7, CheckB1Between DEF PlaceIs

\* The step goes on in two dimensions, or the row is read.
LEMMA Goes2D ==
  ASSUME NEW b, NEW d, NEW t, RunsAre(b), RunsRight(b), b.RunLength = 0, b.pa > 0,
         b.no \in Nat \ {0}, t = SpotTo(b.no, b.a0, b.pa % 2, "2D"), RefAt(b, d, FALSE)
  PROVE  /\ b.a0 < lastx => WithinRow(b, d, "2D", t)
         /\ b.a0 >= lastx => RowRead(b, t)
<1>1. b.a0 \in Nat /\ b.a0 <= lastx /\ lastx \in Nat
  BY RowNumbers, Width DEF RunsAre, RunsRight
<1>2. ASSUME b.a0 >= lastx PROVE RowRead(b, t)
  <2>1. b.a0 = lastx
    BY <1>1, <1>2
  <2>2. t = LineStart(b.no + 1)
    BY <2>1 DEF SpotTo
  <2> QED BY <2>1, <2>2 DEF RowRead
<1>3. ASSUME b.a0 < lastx PROVE WithinRow(b, d, "2D", t)
  <2>1. b.a0 # lastx
    BY <1>1, <1>3
  <2>2. t = Spot(b.no, b.a0, b.pa % 2, "2D")
    BY <2>1 DEF SpotTo
  <2>3. t = SpotOf(b, "2D")
    BY <2>2 DEF SpotOf, Color
  <2>4. t.no = b.no /\ t.x = b.a0 /\ t.c = b.pa % 2
    BY <2>2 DEF Spot
  <2>5. AtColor(t)
    BY <1>3, <2>4 DEF AtColor, RunsRight
  <2>6. b.pa # 0
    OBVIOUS
  <2> QED BY <2>3, <2>5, <2>6 DEF WithinRow
<1> QED BY <1>2, <1>3

LEMMA Next2DRows ==
  ASSUME scheme \in FaxSchemes, Bilevel, NEW f, Marked(f),
         NEW b, NEW dec, Next2D(b, dec), b.no # 0,
         dec.refruns = dec3.refruns, dec.refno = dec3.refno,
         b.no > 0 => /\ b.a0 < lastx => WithinRow(b, dec, "2D", f[dec.bp])
                     /\ b.a0 >= lastx => RowRead(b, f[dec.bp]),
         b.a0 \in Nat
  PROVE  RowsInv'
<1>1. FaxStep(b, dec) /\ pc' = (IF b.a0 < lastx THEN "2D" ELSE "done")
  BY DEF Next2D
<1>2. pc' \in RowPcs /\ (pc' \in {"done", "fill"} => ~(b.a0 < lastx))
      /\ (pc' \in RunPcs => b.a0 < lastx /\ pc' = "2D")
  BY <1>1 DEF RowPcs, RunPcs
<1>3. ~(b.a0 < lastx) => b.a0 >= lastx
  BY Width
<1> QED BY <1>1, <1>2, <1>3, RowGoesOn

LEMMA SpanHorizRows == FaxInv /\ RowsInv /\ SpanHoriz => RowsInv'
<1> SUFFICES ASSUME FaxInv, RowsInv, SpanHoriz PROVE RowsInv'
  OBVIOUS
<1> DEFINE table == SpanTable[Color(at)]
           ref == dec3.refruns
<1>1. pc = "horiz" /\ pc \in RunPcs /\ pc \in RowPcs
  BY DEF SpanHoriz, RunPcs, RowPcs
<1>2. PICK l \in Lookup(table) : ExpandHoriz(l.code, l.at)
  BY DEF SpanHoriz
<1>3. EolCode(FALSE, 0) \notin table /\ table \subseteq FaxCodes
  BY ColorIs, NoEndInTables, TablesTypes
<1> HIDE DEF table
<1> DEFINE read == l.code
           a == l.at
           used == Consumed(read)
<1>4. scheme \in FaxSchemes /\ Bilevel /\ a.no # 0
  BY <1>1, <1>2, <1>3, RightCode
<1>5. PICK f : Marked(f) /\ (a.no > 0 => CodeIsRight(a, read, f))
  BY <1>1, <1>2, <1>3, RightCode
<1>6. read \in FaxCodes
  BY <1>1, <1>2, <1>3, CodeRead
<1>7. Between(a, ref) /\ a.left = at.left /\ RefIs(ref)
  BY <1>1, <1>2, ReadInto
<1>8. a.left > 0 /\ a.left \in 0..2
  BY <1>1, <1>7 DEF FaxInv, FaxRowOK, RowType
<1>9. /\ used.refno = dec3.refno /\ used.refruns = ref
      /\ read # NullCode => used.bp = dec3.bp + 1
  BY ConsumedKeeps
<1>10. ExpandHoriz(read, a) /\ a.no \in Int /\ RunsAre(a) /\ ref \in Seq(Nat)
  BY <1>2, <1>7 DEF Between, RunsAre, RowType, RefIs
<1> DEFINE s == f[dec3.bp]
           t == f[dec3.bp + 1]
<1>11. ASSUME a.no > 0
       PROVE  /\ WithinRow(a, dec3, "horiz", s) /\ RunsRight(a) /\ s = SpotOf(a, "horiz")
              /\ s.md = (IF a.left = 2 THEN "h1" ELSE "h2")
              /\ InData(a.no) /\ a.no \in Nat \ {0}
              /\ RefAt(a, dec3, a.left = 1)
              /\ MakesLonger(s, read, t) \/ EndsRun(s, read, t)
              /\ read.type \in {"makeup", "term"}
  <2>1. CodeIsRight(a, read, f)
    BY <1>5, <1>11
  <2>2. WithinRow(a, dec3, "horiz", s) /\ InData(a.no)
        /\ (MakesLonger(s, read, t) \/ EndsRun(s, read, t) \/ Compares(s, read, t))
    BY <1>1, <2>1 DEF CodeIsRight
  <2>3. RunsRight(a) /\ s = SpotOf(a, "horiz") /\ RefAt(a, dec3, a.left = 1)
    BY <2>2 DEF WithinRow
  <2>4. s.md = (IF a.left = 2 THEN "h1" ELSE "h2")
    BY <2>3, SpotIsAt
  <2>5. ~Compares(s, read, t)
    BY <2>4, RightKinds
  <2>6. a.no \in Nat \ {0}
    BY <1>10, <1>11
  <2> QED BY <2>2, <2>3, <2>4, <2>5, <2>6, RightKinds
<1> HIDE DEF read, a, used, ref, s, t
<1>12. CASE MakeUpRead(read, a)
  <2> DEFINE b == [a EXCEPT !.a0 = @ + read.n, !.RunLength = @ + read.n]
  <2>1. read.type = "makeup" /\ pc' = pc /\ FaxStep(b, used)
    BY <1>12 DEF MakeUpRead, used
  <2>2. read # NullCode
    BY <1>6, <2>1, CodeArguments
  <2>3. b.no = a.no
    BY <1>10 DEF RunsAre, RowType
  <2>4. ASSUME a.no > 0 PROVE WithinRow(b, used, "horiz", t)
    <3>1. MakesLonger(s, read, t)
      BY <1>11, <2>1, <2>4, RightKinds
    <3> QED BY <1>9, <1>10, <1>11, <2>4, <3>1, MakeUpReads DEF ref
  <2> HIDE DEF b
  <2>5. f[used.bp] = t
    BY <1>9, <2>2 DEF t
  <2> QED BY <1>1, <1>4, <1>5, <1>9, <2>1, <2>3, <2>4, <2>5, RowGoesOn DEF ref
<1>13. CASE read.type = "term"
            /\ \E b \in {[SetValue(a, read.n) EXCEPT !.left = @ - 1]} :
                 IF b.left > 0 THEN UNCHANGED pc /\ FaxStep(b, Consumed(read))
                               ELSE Next2D(CheckB1(b), Consumed(read))
  <2> DEFINE v == SetValue(a, read.n)
             b == [v EXCEPT !.left = @ - 1]
  <2>1. IF b.left > 0 THEN UNCHANGED pc /\ FaxStep(b, used) ELSE Next2D(CheckB1(b), used)
    BY <1>13 DEF used
  <2>2. read # NullCode /\ read.n \in Nat
    BY <1>6, <1>13, CodeArguments
  <2>3. Between(b, ref) /\ Between(v, ref)
    BY <1>7, <1>8, <2>2, HorizTurns, RunEndsBetween DEF ref
  <2>4. /\ v.pb = a.pb /\ v.no = a.no /\ v.a0 = a.a0 + read.n /\ v.a0 \in Nat
        /\ v.RunLength = 0 /\ v.left = a.left /\ v.pa = a.pa + 1
        /\ a.a0 \in Nat /\ a.a0 <= v.a0 /\ a.pa \in Nat /\ a.pb \in Nat
    <3>1. /\ a \in RowType /\ a.pa <= Len(a.runs) /\ a.a0 \in Nat /\ a.RunLength \in Nat
          /\ a.pa \in Nat /\ a.pb \in Nat
      BY <1>10, RowNumbers DEF RunsAre
    <3>2. read.n \in Int /\ a.a0 + read.n \in Nat /\ a.RunLength + read.n \in Nat
          /\ a.a0 <= a.a0 + read.n
      BY <2>2, <3>1
    <3> QED BY <3>1, <3>2, SetValueIs
  <2>5. ASSUME a.no > 0
        PROVE  /\ RunsRight(v) /\ v.a0 <= lastx
               /\ (v.pa % 2) = 1 - (a.pa % 2)
               /\ s.md = "h1" => t = Spot(a.no, v.a0, v.pa % 2, "h2")
               /\ s.md = "h2" => t = SpotTo(a.no, v.a0, v.pa % 2, "2D")
    <3>1. EndsRun(s, read, t)
      BY <1>11, <1>13, <2>5, RightKinds
    <3>2. /\ RunsRight(v) /\ v.a0 <= lastx /\ (a.pa + 1) % 2 = 1 - (a.pa % 2)
          /\ s.md = "h1" => t = Spot(a.no, a.a0 + read.n, (a.pa + 1) % 2, "h2")
          /\ s.md = "h2" => t = SpotTo(a.no, a.a0 + read.n, (a.pa + 1) % 2, "2D")
      BY <1>4, <1>10, <1>11, <2>4, <2>5, <3>1, TermReads
    <3> QED BY <2>4, <3>2
  <2>6. f[used.bp] = t
    BY <1>9, <2>2 DEF t
  <2>7. /\ b.pb = v.pb /\ b.no = v.no /\ b.a0 = v.a0 /\ b.RunLength = v.RunLength
        /\ b.pa = v.pa /\ b.runs = v.runs /\ b.left = v.left - 1 /\ RunsAre(b)
    BY <2>3 DEF Between, RunsAre, RowType
  <2> HIDE DEF b, v
  <2>8. RunsRight(v) => RunsRight(b)
    BY <2>7 DEF RunsRight
  <2>9. ASSUME a.no > 0
        PROVE  /\ scheme \in {"g32d", "g4"} /\ dec3.refno = a.no - 1
               /\ b.pb >= 2 => Sum(ref, b.pb - 2) <= b.a0
               /\ a.left = 2 => b.pb % 2 = b.pa % 2
               /\ a.left = 1 => b.pb % 2 = (b.pa + 1) % 2
    <3>1. RefAt(a, dec3, a.left = 1)
      BY <1>11, <2>9
    <3>2. b.pb >= 2 => Sum(ref, b.pb - 2) <= b.a0
      <4>1. ASSUME a.pb >= 2 PROVE Sum(ref, a.pb - 2) <= v.a0
        <5>1. a.pb - 2 \in Nat
          BY <2>4, <4>1
        <5>2. Sum(ref, a.pb - 2) \in Nat
          BY <1>10, <5>1, SumRange
        <5>3. Sum(ref, a.pb - 2) <= a.a0
          BY <3>1, <4>1 DEF RefAt, ref
        <5> QED BY <2>4, <5>2, <5>3
      <4> QED BY <2>4, <2>7, <4>1
    <3>3. a.left = 2 => b.pb % 2 = b.pa % 2
      BY <2>4, <2>7, <3>1 DEF RefAt
    <3>4. a.left = 1 => b.pb % 2 = (b.pa + 1) % 2
      <4>1. a.left = 1 => a.pb % 2 = a.pa % 2
        BY <3>1 DEF RefAt
      <4>2. (a.pa + 1 + 1) % 2 = a.pa % 2
        BY <2>4, Parity
      <4> QED BY <2>4, <2>7, <4>1, <4>2
    <3> QED BY <3>1, <3>2, <3>3, <3>4 DEF RefAt
  <2>10. CASE b.left > 0
    <3>1. pc' = pc /\ FaxStep(b, used)
      BY <2>1, <2>10
    <3>2. a.left = 2 /\ b.left = 1
      BY <1>8, <2>4, <2>7, <2>10
    <3>3. ASSUME b.no > 0 PROVE WithinRow(b, used, "horiz", t)
      <4>1. a.no > 0
        BY <2>4, <2>7, <3>3
      <4>2. t = Spot(a.no, v.a0, v.pa % 2, "h2")
        BY <1>11, <2>5, <3>2, <4>1
      <4>3. t = SpotOf(b, "horiz")
        BY <2>4, <2>7, <3>2, <4>2 DEF SpotOf, Color
      <4>4. RefAt(b, used, TRUE)
        BY <1>9, <2>4, <2>7, <2>9, <3>2, <4>1 DEF RefAt
      <4> QED BY <2>5, <2>8, <3>2, <4>1, <4>3, <4>4 DEF WithinRow
    <3> QED BY <1>1, <1>4, <1>5, <1>9, <2>4, <2>6, <2>7, <3>1, <3>3, RowGoesOn DEF ref
  <2>11. CASE ~(b.left > 0)
    <3> DEFINE c == CheckB1(b)
    <3>1. Next2D(c, used)
      BY <2>1, <2>11
    <3>2. a.left = 1
      BY <1>8, <2>4, <2>7, <2>11
    <3>3. c.a0 = b.a0 /\ c.no = b.no
      BY <1>7, <2>3, CheckB1Between, CheckB1Moves DEF ref, Between, RunsAre
    <3>4. ASSUME a.no > 0
          PROVE  /\ c.pb % 2 = b.pb % 2
                 /\ c.pb >= 2 => Sum(ref, c.pb - 2) <= b.a0
                 /\ RunsAre(c) /\ c.RunLength = b.RunLength /\ c.pa = b.pa /\ c.runs = b.runs
      BY <1>7, <2>3, <2>9, <3>4, CheckedAt DEF ref
    <3> HIDE DEF c
    <3>5. ASSUME c.no > 0
          PROVE  /\ c.a0 < lastx => WithinRow(c, used, "2D", t)
                 /\ c.a0 >= lastx => RowRead(c, t)
      <4>1. a.no > 0
        BY <2>4, <2>7, <3>3, <3>5
      <4>2. t = SpotTo(c.no, c.a0, c.pa % 2, "2D")
        BY <1>11, <2>4, <2>5, <2>7, <3>2, <3>3, <3>4, <4>1
      <4>3. RefAt(c, used, FALSE)
        BY <1>9, <2>4, <2>7, <2>9, <3>2, <3>3, <3>4, <4>1 DEF RefAt
      <4>4. RunsRight(b)
        BY <2>5, <2>8, <4>1
      <4>5. RunsRight(c)
        BY <3>3, <3>4, <4>1, <4>4 DEF RunsRight
      <4>6. c.pa > 0 /\ c.RunLength = 0 /\ c.no \in Nat \ {0}
        BY <1>11, <2>4, <2>7, <3>3, <3>4, <4>1
      <4> QED BY <3>4, <4>1, <4>2, <4>3, <4>5, <4>6, Goes2D
    <3>6. c.no # 0 /\ c.a0 \in Nat
      BY <1>4, <2>4, <2>7, <3>3
    <3> QED BY <1>4, <1>5, <1>9, <2>6, <3>1, <3>5, <3>6, Next2DRows DEF ref
  <2> QED BY <2>10, <2>11
<1>14. CASE read.type \in {"eol", "null"} /\ RowDone(a, Consumed(read))
  <2>1. pc' = "done" /\ FaxStep(a, used)
    BY <1>14 DEF RowDone, used
  <2>2. pc' \in RowPcs /\ pc' \notin RunPcs
    BY <2>1 DEF RowPcs, RunPcs
  <2>3. ~(a.no > 0)
    BY <1>11, <1>14
  <2> QED BY <1>4, <1>5, <1>9, <2>1, <2>2, <2>3, RowGoesOn DEF ref
<1> QED BY <1>10, <1>12, <1>13, <1>14 DEF ExpandHoriz

\* A row that is decoded in two dimensions, and the reference line it is compared with.
Compared(a, s) ==
  /\ RefIs(dec3.refruns) /\ Between(a, dec3.refruns) /\ a.a0 < lastx
  /\ a.no \in Nat \ {0} /\ InData(a.no)
  /\ s \in Spots /\ s = SpotOf(a, "2D") /\ AtColor(s) /\ RunsRight(a) /\ RefAt(a, dec3, FALSE)
  /\ a.pa = 0 => IF a.a0 = 0 THEN a.pb = 1 ELSE a.b1 > a.a0
  /\ RefRight(dec3.refruns, RefRow(a.no))

\* At its beginning a row has no runs.
LEMMA NoRunsFirst ==
  ASSUME NEW a, NEW s, Compared(a, s), First(s)
  PROVE  a.a0 = 0 /\ a.pa = 0
<1>1. s.x = a.a0 /\ s.c = a.pa % 2
  BY SpotIsAt DEF Compared, Color
<1>2. a.a0 = 0 /\ a.pa % 2 = 0
  BY <1>1 DEF First, White
<1>3. RunsAre(a) /\ RunsRight(a) /\ a.a0 < lastx
  BY DEF Compared, Between
<1>4. /\ a.pa \in Nat /\ a.runs \in Seq(Nat) /\ a.RunLength \in Nat
      /\ Sum(a.runs, a.pa) \in Nat
  BY <1>3, RowNumbers DEF RunsAre
<1>5. Sum(a.runs, a.pa) = 0
  BY <1>2, <1>3, <1>4 DEF RunsAre
<1>6. ASSUME a.pa # 0 PROVE FALSE
  <2>1. 1 \in 1..(a.pa - 1) /\ 1 \in 0..a.pa /\ 2 \in 0..a.pa
    BY <1>2, <1>4, <1>6
  <2>2. Sum(a.runs, 1) <= 0 /\ Sum(a.runs, 2) <= 0
    BY <1>4, <1>5, <2>1, SumRange
  <2>3. Sum(a.runs, 1) \in Nat /\ Sum(a.runs, 1 + 1) \in Nat /\ 1 + 1 = 2
    BY <1>4, SumRange
  <2>4. Sum(a.runs, 1) < lastx
    BY <2>2, <2>3, Width
  <2>5. Sum(a.runs, 1) < Sum(a.runs, 1 + 1)
    BY <1>3, <2>1, <2>4 DEF RunsRight
  <2> QED BY <2>2, <2>3, <2>5
<1> QED BY <1>2, <1>6

\* The decoder finds the change of the reference line that the encoder has found.
LEMMA RefFound ==
  ASSUME NEW a, NEW s, Compared(a, s), NEW p, p = CheckB1(a)
  PROVE  /\ p.b1 = RefChange(s)
         /\ \E k \in Nat \ {0} : /\ RunsUpTo(dec3.refruns, RefRow(a.no), k)
                                 /\ p.pb \in 1..(k + 1)
<1> DEFINE ref == dec3.refruns
           row == RefRow(a.no)
<1>1. PICK k \in 1..Len(ref) : RunsUpTo(ref, row, k)
  BY DEF Compared, RefRight, RunsUpTo
<1>2. /\ ref \in Seq(Nat) /\ k \in Nat \ {0} /\ RunsAre(a) /\ RunsRight(a) /\ lastx \in Nat
      /\ a.a0 < lastx
  BY Width DEF Compared, RefIs, Between
<1>3. /\ a.a0 \in Nat /\ a.pa \in Nat
  BY <1>2, RowNumbers DEF RunsAre
<1>4. s.no = a.no /\ s.x = a.a0 /\ s.c = a.pa % 2
  BY SpotIsAt DEF Compared, Color
<1>5. /\ p.pb % 2 = a.pb % 2 /\ p.pb \in Nat \ {0}
      /\ p.pb >= 2 => Sum(ref, p.pb - 2) <= a.a0
      /\ p.b1 = Sum(ref, p.pb)
      /\ (a.pa = 0 => p = a)
      /\ (a.pa > 0 => p.b1 > a.a0 \/ p.b1 >= lastx)
  BY CheckedAt DEF Compared, RefAt
<1>6. a.pb % 2 = (a.pa + 1) % 2
  BY DEF Compared, RefAt
<1> HIDE DEF ref, row
<1>7. CASE First(s)
  <2>1. a.a0 = 0 /\ a.pa = 0
    BY <1>7, NoRunsFirst
  <2>2. p.pb = 1
    BY <1>5, <2>1 DEF Compared
  <2>3. RefChange(s) = FindDiff(row, 0, White)
    BY <1>4, <1>7 DEF RefChange, row
  <2>4. 0 \in 0..k /\ 0 \in Sum(ref, 0)..Sum(ref, 0 + 1) /\ White = 0 % 2 /\ 1 \in 1..(k + 1)
    <3>1. Sum(ref, 0) = 0 /\ Sum(ref, 0 + 1) \in Nat
      BY <1>2, SumRange
    <3> QED BY <1>2, <3>1 DEF White
  <2>5. FindDiff(row, 0, White) = Sum(ref, 0 + 1)
    BY <1>1, <1>2, <2>4, ChangeAtEnd
  <2> QED BY <1>1, <1>2, <1>5, <2>2, <2>3, <2>4, <2>5 DEF ref, row
<1>8. CASE ~First(s)
  <2>1. PICK c \in {0, 1} : c = a.pa % 2 /\ (a.pa + 1) % 2 = 1 - c
    BY <1>3, Parity
  <2>2. RefChange(s) = FindDiff(row, FindDiff(row, a.a0, 1 - c), c)
    BY <1>4, <1>8, <2>1 DEF RefChange, row
  <2>3. p.pb % 2 = 1 - c
    BY <1>5, <1>6, <2>1
  <2>4. Sum(ref, p.pb) > a.a0 \/ Sum(ref, p.pb) >= lastx
    <3>1. CASE a.pa = 0
      <4>1. a.a0 # 0
        BY <1>4, <1>8, <2>1, <3>1 DEF First, White
      <4>2. a.b1 > a.a0
        BY <3>1, <4>1 DEF Compared
      <4> QED BY <1>5, <3>1, <4>2
    <3>2. CASE a.pa > 0
      BY <1>5, <3>2
    <3> QED BY <1>3, <3>1, <3>2
  <2>5. /\ FindDiff(row, FindDiff(row, a.a0, 1 - c), c) = Sum(ref, p.pb)
        /\ p.pb <= k + 1
    <3>1. PICK x \in Nat : x = a.a0
      BY <1>3
    <3>2. PICK i \in Nat \ {0} : i = p.pb
      BY <1>5
    <3>3. /\ x < lastx /\ i % 2 = 1 - c
          /\ Sum(ref, i) > x \/ Sum(ref, i) >= lastx
      BY <1>2, <2>3, <2>4, <3>1, <3>2
    <3>4. i >= 2 => Sum(ref, i - 2) <= x
      BY <1>5, <3>1, <3>2
    <3>5. ref \in Seq(Nat) /\ k \in Nat \ {0} /\ RunsUpTo(ref, row, k)
      BY <1>1, <1>2
    <3>6. Sought(ref, row, k, x, c, i)
      BY <3>3, <3>4, <3>5 DEF Sought
    <3>7. /\ FindDiff(row, FindDiff(row, x, 1 - c), c) = Sum(ref, i)
          /\ i <= k + 1
      BY <3>6, ChangesFound
    <3> QED BY <3>1, <3>2, <3>7
  <2>6. p.pb \in 1..(k + 1)
    BY <1>2, <1>5, <2>5
  <2> QED BY <1>1, <1>2, <1>5, <2>2, <2>5, <2>6 DEF ref, row
<1> QED BY <1>7, <1>8

\* A pass code.
LEMMA PassReads ==
  ASSUME NEW a, NEW s, Compared(a, s), NEW q, NEW t, Passes(s, q, t),
         NEW b, b = NextRef(Pass(NextRef(CheckB1(a)))),
         NEW d, d.refruns = dec3.refruns, d.refno = dec3.refno
  PROVE  b.no = a.no /\ b.a0 < lastx /\ WithinRow(b, d, "2D", t)
<1> DEFINE ref == dec3.refruns
<1>1. PICK p : p = CheckB1(a)
  OBVIOUS
<1>2. PICK k \in Nat \ {0} : RunsUpTo(ref, RefRow(a.no), k) /\ p.pb \in 1..(k + 1)
  BY <1>1, RefFound
<1>3. /\ p.pb % 2 = a.pb % 2 /\ p.pb \in Nat \ {0} /\ p.b1 = Sum(ref, p.pb)
      /\ RunsAre(p) /\ p.no = a.no /\ p.a0 = a.a0
      /\ p.RunLength = a.RunLength /\ p.pa = a.pa /\ p.runs = a.runs
  BY <1>1, CheckedAt DEF Compared, RefAt
<1>4. p.b1 = RefChange(s)
  BY <1>1, RefFound
<1>5. /\ s \in Spots /\ s = SpotOf(a, "2D") /\ AtColor(s) /\ RunsRight(a) /\ InData(a.no)
      /\ a.a0 < lastx /\ ref \in Seq(Nat) /\ RunsAre(a) /\ RefIs(ref)
  BY DEF Compared, RefIs, Between
<1>6. s.no = a.no /\ s.x = a.a0 /\ s.c = a.pa % 2
  BY <1>5, SpotIsAt DEF Color
<1>7. PICK z : z = RefChange2(s)
  OBVIOUS
<1>8. PICK e : e = NextChange(s)
  OBVIOUS
<1>9. z < e /\ t = Spot(a.no, z, a.pa % 2, "2D")
  BY <1>6, <1>7, <1>8 DEF Passes
<1>10. /\ e \in a.a0..lastx /\ e \in Nat /\ Alike(a.no, a.a0, e, a.pa % 2)
  BY <1>5, <1>6, <1>8, NextChangeIs
<1>11. /\ p.b1 \in 0..lastx /\ p.b1 >= a.a0 /\ z \in p.b1..lastx
       /\ p.b1 < lastx => p.b1 < z
  BY <1>4, <1>5, <1>6, <1>7, ChangesAre
<1>12. /\ a.a0 \in Nat /\ a.pa \in Nat /\ a.RunLength \in Nat /\ lastx \in Nat /\ p.b1 \in Nat
       /\ z \in Nat /\ e <= lastx /\ z >= p.b1
  BY <1>5, <1>10, <1>11, RowNumbers, Width DEF RunsAre
<1>13. z < lastx /\ z > 0 /\ z \in a.a0..lastx /\ z \in a.a0..e
  BY <1>9, <1>10, <1>11, <1>12
\* b2 is the end of the next run of the reference line.
<1>14. /\ z = Sum(ref, p.pb + 1) /\ Sum(ref, p.pb + 1) < Sum(ref, p.pb + 2)
  <2>1. z = FindDiff2(RefRow(a.no), Sum(ref, p.pb))
    BY <1>3, <1>4, <1>6, <1>7 DEF RefChange2
  <2> QED BY <1>2, <1>5, <1>13, <2>1, SecondFound
<1> DEFINE r == NextRef(p)
           h == Pass(r)
           n == NextRef(h)
<1>15. /\ RunsAre(r) /\ r.pb = p.pb + 1 /\ r.b1 = z
       /\ r.a0 = a.a0 /\ r.pa = a.pa /\ r.RunLength = a.RunLength /\ r.runs = a.runs
  BY <1>3, <1>5, <1>14, NextRefIs
<1>16. r.no = a.no
  BY <1>3 DEF NextRef, RunsAre, RowType
<1> HIDE DEF r
<1>17. r \in RowType /\ r.a0 \in Nat /\ r.RunLength \in Nat /\ z \in Nat
       /\ r.RunLength + z - r.a0 \in Nat /\ r.RunLength + z - r.a0 = a.RunLength + (z - a.a0)
  <2>1. r \in RowType
    BY <1>15 DEF RunsAre
  <2>2. z >= a.a0
    BY <1>12, <1>13
  <2> QED BY <1>12, <1>15, <2>1, <2>2
<1>18. h = [r EXCEPT !.RunLength = @ + z - r.a0, !.a0 = z]
  BY <1>15 DEF Pass
<1>19. /\ h.a0 = z /\ h.RunLength = a.RunLength + (z - a.a0) /\ h.pa = a.pa
       /\ h.runs = a.runs /\ h.b1 = z /\ h.pb = p.pb + 1 /\ h.no = a.no
  BY <1>15, <1>16, <1>17, <1>18 DEF RowType
<1>20. h \in RowType
  BY <1>17, <1>18 DEF RowType
<1> HIDE DEF h
<1>21. RunsAre(h)
  <2>1. a.a0 = Sum(a.runs, a.pa) + a.RunLength /\ a.pa <= Len(a.runs) /\ Sum(a.runs, a.pa) \in Nat
    BY <1>5, RowNumbers DEF RunsAre
  <2>2. z = Sum(a.runs, a.pa) + (a.RunLength + (z - a.a0))
    BY <1>12, <2>1
  <2> QED BY <1>19, <1>20, <2>1, <2>2 DEF RunsAre
<1>22. /\ n.pb = h.pb + 1 /\ n.b1 = Sum(ref, h.pb + 1)
       /\ n.a0 = z /\ n.pa = a.pa /\ n.RunLength = h.RunLength /\ n.runs = a.runs
  BY <1>5, <1>14, <1>19, <1>21, NextRefIs
<1>23. n.no = a.no
  BY <1>19, <1>20 DEF NextRef, RowType
<1>24. b = n
  BY <1>1 DEF n, h, r
<1> HIDE DEF n
<1>25. RunsRight(n)
  <2>1. Alike(a.no, a.a0, z, a.pa % 2)
    BY <1>10, <1>12, <1>13 DEF Alike
  <2> QED BY <1>5, <1>13, <1>19, <1>22, <1>23, <2>1, RunGrows
<1>26. t = SpotOf(n, "2D")
  BY <1>9, <1>22, <1>23 DEF SpotOf, Color
<1>27. n.pb = p.pb + 2 /\ n.pb - 2 = p.pb /\ h.pb + 1 = p.pb + 2
  BY <1>3, <1>19, <1>22
<1>28. RefAt(n, d, FALSE)
  <2>1. n.pb % 2 = (n.pa + 1) % 2
    <3>1. (p.pb + 2) % 2 = p.pb % 2
      BY <1>3, Parity
    <3>2. a.pb % 2 = (a.pa + 1) % 2
      BY DEF Compared, RefAt
    <3> QED BY <1>3, <1>22, <1>27, <3>1, <3>2
  <2>2. Sum(d.refruns, n.pb - 2) <= n.a0
    BY <1>3, <1>12, <1>22, <1>27
  <2>3. scheme \in {"g32d", "g4"} /\ d.refno = n.no - 1
    BY <1>23 DEF Compared, RefAt
  <2> QED BY <2>1, <2>2, <2>3 DEF RefAt
<1>29. AtColor(t)
  <2>1. t.no = a.no /\ t.x = z /\ t.c = a.pa % 2
    BY <1>9 DEF Spot
  <2>2. z + 1 \in (a.a0 + 1)..e
    BY <1>9, <1>10, <1>12, <1>13
  <2> QED BY <1>10, <2>1, <2>2 DEF AtColor, Alike
<1>30. n.a0 # 0 /\ n.b1 > n.a0
  <2>1. n.b1 = Sum(ref, p.pb + 2)
    BY <1>22, <1>27
  <2> QED BY <1>12, <1>13, <1>14, <1>22, <2>1
<1>31. WithinRow(n, d, "2D", t)
  BY <1>25, <1>26, <1>28, <1>29, <1>30 DEF WithinRow
<1> QED BY <1>13, <1>22, <1>23, <1>24, <1>31

\* A vertical code.
LEMMA VerticalReads ==
  ASSUME NEW a, NEW s, Compared(a, s), NEW q, NEW t, GoesBy(s, q, t), Bilevel,
         NEW d, d.refruns = dec3.refruns, d.refno = dec3.refno,
         NEW p, p = CheckB1(a),
         NEW b, b = IF q.n >= 0 THEN NextRef(Change(p, q.n)) ELSE PreviousRef(Change(p, q.n))
  PROVE  /\ ~BadVL(p, q.n) /\ q.n \in Int
         /\ b.no = a.no /\ b.a0 \in Nat
         /\ b.a0 < lastx => WithinRow(b, d, "2D", t)
         /\ b.a0 >= lastx => RowRead(b, t)
<1> DEFINE ref == dec3.refruns
<1>1. PICK n \in -Reach..Reach :
        /\ q = VertCode(n) /\ NextChange(s) = RefChange(s) + n
        /\ t = SpotTo(s.no, NextChange(s), 1 - s.c, "2D")
  BY DEF GoesBy
<1>2. n \in Int /\ q.n = n
  BY <1>1 DEF VertCode
<1>3. /\ p.pb % 2 = a.pb % 2 /\ p.pb \in Nat \ {0} /\ p.b1 = Sum(ref, p.pb)
      /\ p.pb >= 2 => Sum(ref, p.pb - 2) <= a.a0
      /\ RunsAre(p) /\ p.no = a.no /\ p.a0 = a.a0
      /\ p.RunLength = a.RunLength /\ p.pa = a.pa /\ p.runs = a.runs
  BY CheckedAt DEF Compared, RefAt
<1>4. p.b1 = RefChange(s)
  BY RefFound
<1>5. /\ s \in Spots /\ s = SpotOf(a, "2D") /\ AtColor(s) /\ RunsRight(a) /\ InData(a.no)
      /\ a.a0 < lastx /\ ref \in Seq(Nat) /\ RunsAre(a) /\ RefIs(ref) /\ a.no \in Nat \ {0}
  BY DEF Compared, RefIs, Between
<1>6. s.no = a.no /\ s.x = a.a0 /\ s.c = a.pa % 2
  BY <1>5, SpotIsAt DEF Color
<1>7. PICK e : e = NextChange(s)
  OBVIOUS
<1>8. /\ e \in a.a0..lastx /\ e \in Nat /\ Alike(a.no, a.a0, e, a.pa % 2)
      /\ TurnsAt(a.no, e, a.pa % 2)
      /\ ~First(s) => e > a.a0
  BY <1>5, <1>6, <1>7, NextChangeIs
<1>9. p.b1 \in Nat /\ a.a0 \in Nat /\ a.pa \in Nat /\ e = p.b1 + n /\ e >= a.a0
  <2>1. p.b1 \in Nat /\ a.a0 \in Nat /\ a.pa \in Nat
    BY <1>3, <1>5, RowNumbers DEF RunsAre
  <2> QED BY <1>1, <1>4, <1>7, <1>8, <2>1
<1>10. ~BadVL(p, n)
  <2>1. SUFFICES ASSUME BadVL(p, n) PROVE FALSE
    OBVIOUS
  <2>2. e < a.a0 \/ (e = a.a0 /\ a.pa # 0)
    BY <1>3, <1>9, <2>1 DEF BadVL
  <2>3. e = a.a0 /\ a.pa # 0
    BY <1>9, <2>2
  <2>4. First(s)
    BY <1>8, <1>9, <2>3
  <2> QED BY <2>3, <2>4, NoRunsFirst
<1> DEFINE v == Change(p, n)
<1>11. /\ RunsRight(v) /\ RunsAre(v) /\ v.no = a.no /\ v.a0 = e /\ v.pa = a.pa + 1
       /\ v.RunLength = 0 /\ v.pb = p.pb /\ v.b1 = p.b1
  <2>1. v = SetValue(p, e - p.a0)
    <3>1. p.b1 - p.a0 + n = e - p.a0
      BY <1>3, <1>9
    <3> QED BY <3>1 DEF Change
  <2>2. RunsRight(p)
    BY <1>3, <1>5 DEF RunsRight
  <2>3. \A i \in 1..lastx : Row(p.no)[i] \in {White, Black}
    BY <1>3, <1>5, RowIsBilevel
  <2>4. InData(p.no) /\ e \in p.a0..lastx /\ Alike(p.no, p.a0, e, p.pa % 2)
        /\ TurnsAt(p.no, e, p.pa % 2)
    BY <1>3, <1>5, <1>8
  <2> HIDE DEF v
  <2>5. /\ RunsRight(v) /\ RunsAre(v) /\ v.no = p.no /\ v.a0 = e /\ v.pa = p.pa + 1
        /\ v.RunLength = 0 /\ v.pb = p.pb /\ v.b1 = p.b1
    BY <1>3, <2>1, <2>2, <2>3, <2>4, RunEndsRight
  <2> QED BY <1>3, <2>5
<1> HIDE DEF v
<1>12. b = IF n >= 0 THEN NextRef(v) ELSE PreviousRef(v)
  BY <1>2 DEF v
<1>13. /\ RunsAre(b) /\ b.a0 = e /\ b.pa = a.pa + 1
       /\ b.pb = (IF n >= 0 THEN p.pb + 1 ELSE p.pb - 1)
  <2>1. v.b1 = Sum(ref, v.pb) /\ v.pb > 0
    BY <1>3, <1>11
  <2> QED BY <1>5, <1>11, <1>12, <2>1, NextRefIs, PreviousRefIs
<1>14. b.no = a.no /\ b.runs = v.runs /\ b.RunLength = 0
  BY <1>11, <1>12, ZenonT(40) DEF NextRef, PreviousRef, RunsAre, RowType
<1>15. RunsRight(b)
  BY <1>11, <1>13, <1>14 DEF RunsRight
<1>16. t = SpotTo(b.no, b.a0, b.pa % 2, "2D")
  <2>1. (a.pa + 1) % 2 = 1 - (a.pa % 2)
    BY <1>9, Parity
  <2> QED BY <1>1, <1>6, <1>7, <1>13, <1>14, <2>1
<1>17. RefAt(b, d, FALSE)
  <2>1. /\ scheme \in {"g32d", "g4"} /\ d.refno = b.no - 1
        /\ a.pb % 2 = (a.pa + 1) % 2
    BY <1>14 DEF Compared, RefAt
  <2>2. b.pb % 2 = (b.pa + 1) % 2
    <3>1. (a.pa + 1) % 2 \in {0, 1} /\ (a.pa + 1 + 1) % 2 = 1 - ((a.pa + 1) % 2)
      BY <1>9, Parity
    <3>2. (p.pb + 1) % 2 = 1 - (p.pb % 2)
      BY <1>3, Parity
    <3>3. (p.pb - 1) % 2 = 1 - (p.pb % 2)
      <4>1. PICK m \in Nat : m = p.pb - 1 /\ p.pb = m + 1
        BY <1>3
      <4>2. m % 2 \in {0, 1} /\ (m + 1) % 2 = 1 - (m % 2)
        BY Parity
      <4>3. m % 2 = 1 - ((m + 1) % 2)
        BY <4>2
      <4> QED BY <4>1, <4>3
    <3> QED BY <1>3, <1>13, <2>1, <3>1, <3>2, <3>3
  <2>3. ASSUME b.pb >= 2 PROVE Sum(ref, b.pb - 2) <= e
    <3>1. CASE n >= 0
      <4>1. PICK m \in Nat : m = b.pb - 2 /\ p.pb = m + 1
        BY <1>3, <1>13, <2>3, <3>1
      <4>2. Sum(ref, m) <= Sum(ref, m + 1) /\ Sum(ref, m) \in Nat
        <5>1. m + 1 \in Nat /\ m \in 0..(m + 1)
          OBVIOUS
        <5> QED BY <1>5, <5>1, SumRange
      <4> QED BY <1>3, <1>9, <3>1, <4>1, <4>2
    <3>2. CASE ~(n >= 0)
      <4>1. PICK m \in Nat : m = b.pb - 2 /\ p.pb - 2 = m + 1 /\ p.pb >= 2
        BY <1>3, <1>13, <2>3, <3>2
      <4>2. Sum(ref, m) <= Sum(ref, m + 1) /\ Sum(ref, m) \in Nat /\ Sum(ref, m + 1) \in Nat
        <5>1. m + 1 \in Nat /\ m \in 0..(m + 1)
          OBVIOUS
        <5> QED BY <1>5, <5>1, SumRange
      <4>3. Sum(ref, m + 1) <= a.a0
        BY <1>3, <4>1
      <4> QED BY <1>9, <4>1, <4>2, <4>3
    <3> QED BY <3>1, <3>2
  <2> QED BY <1>13, <2>1, <2>2, <2>3 DEF RefAt
<1>18. b.pa > 0 /\ b.no \in Nat \ {0} /\ b.a0 \in Nat
  <2>1. b.pa = a.pa + 1 /\ a.pa \in Nat
    BY <1>9, <1>13
  <2>2. b.pa > 0
    BY <2>1
  <2>3. b.no = a.no /\ a.no \in Nat \ {0}
    BY <1>5, <1>14
  <2>4. b.a0 = e /\ e \in Nat
    BY <1>8, <1>13
  <2> QED BY <2>2, <2>3, <2>4
<1> QED BY <1>2, <1>10, <1>13, <1>14, <1>15, <1>16, <1>17, <1>18, Goes2D

LEMMA Code2DRows == FaxInv /\ RowsInv /\ Code2D => RowsInv'
<1> SUFFICES ASSUME FaxInv, RowsInv, Code2D PROVE RowsInv'
  OBVIOUS
<1> DEFINE ref == dec3.refruns
<1>1. pc = "2D" /\ pc \in RunPcs /\ pc \in RowPcs
  BY DEF Code2D, RunPcs, RowPcs
<1>2. PICK l \in Lookup(MainTable) : Expand2D(l.code, l.at)
  BY DEF Code2D
<1> DEFINE read == l.code
           a == l.at
           used == Consumed(read)
<1>3. scheme \in FaxSchemes /\ Bilevel /\ a.no # 0
  BY <1>1, <1>2, NoEndInTables, RightCode
<1>4. PICK f : Marked(f) /\ (a.no > 0 => a = at /\ CodeIsRight(a, read, f))
  BY <1>1, <1>2, NoEndInTables, RightCode
<1>5. read \in FaxCodes
  BY <1>1, <1>2, TablesTypes, CodeRead
<1>6. Between(a, ref) /\ a.a0 = at.a0 /\ RefIs(ref)
  BY <1>1, <1>2, ReadInto
<1>7. a.a0 < lastx
  BY <1>1, <1>6 DEF FaxInv, FaxRowOK
<1>8. /\ used.refno = dec3.refno /\ used.refruns = ref
      /\ read # NullCode => used.bp = dec3.bp + 1
      /\ \A n : /\ [used EXCEPT !.EOLcnt = n].refno = dec3.refno
                /\ [used EXCEPT !.EOLcnt = n].refruns = ref
  BY ConsumedKeeps
<1>9. Expand2D(read, a) /\ a.no \in Int /\ RunsAre(a) /\ a \in RowType /\ a.a0 \in Nat
  BY <1>2, <1>6, RowNumbers DEF Between, RunsAre, RowType
<1> DEFINE s == f[dec3.bp]
           t == f[dec3.bp + 1]
<1>10. ASSUME a.no > 0
       PROVE  /\ WithinRow(a, dec3, "2D", s) /\ Compared(a, s)
              /\ Passes(s, read, t) \/ GoesBy(s, read, t) \/ TwoRuns(s, read, t)
  <2>1. CodeIsRight(a, read, f)
    BY <1>4, <1>10
  <2>2. /\ WithinRow(a, dec3, "2D", s) /\ InData(a.no) /\ s \in Spots
        /\ (MakesLonger(s, read, t) \/ EndsRun(s, read, t) \/ Compares(s, read, t))
    BY <1>1, <2>1 DEF CodeIsRight
  <2>3. /\ RunsRight(a) /\ s = SpotOf(a, "2D") /\ RefAt(a, dec3, FALSE) /\ AtColor(s)
        /\ a.pa = 0 => IF a.a0 = 0 THEN a.pb = 1 ELSE a.b1 > a.a0
    BY <2>2 DEF WithinRow
  <2>4. s.md = "2D"
    BY <2>3, SpotIsAt
  <2>5. Compares(s, read, t)
    BY <2>2, <2>4, RightKinds
  <2>6. a.no \in Nat \ {0}
    BY <1>9, <1>10
  <2>7. RefRight(ref, RefRow(a.no))
    <3>1. scheme \in {"g32d", "g4"} /\ dec3.refno = a.no - 1
      BY <2>3 DEF RefAt
    <3>2. dec3.refno >= 0 /\ dec3.refno + 1 = a.no
      BY <2>6, <3>1
    <3> QED BY <1>4, <3>1, <3>2 DEF Marked, DecodedTo
  <2> QED BY <1>6, <1>7, <2>2, <2>3, <2>5, <2>6, <2>7 DEF Compared, Compares
<1>11. ASSUME a.no > 0
       PROVE  /\ read.type = "pass" => Passes(s, read, t)
              /\ read.type = "vert" => GoesBy(s, read, t)
              /\ read.type = "horiz" => TwoRuns(s, read, t)
              /\ read.type \in {"pass", "vert", "horiz"}
  <2>1. Passes(s, read, t) => read.type = "pass"
    BY DEF Passes, PassCode
  <2>2. GoesBy(s, read, t) => read.type = "vert"
    BY DEF GoesBy, VertCode
  <2>3. TwoRuns(s, read, t) => read.type = "horiz"
    BY DEF TwoRuns, HorizCode
  <2> HIDE DEF s, t, read, a
  <2> QED BY <1>10, <1>11, <2>1, <2>2, <2>3
<1> HIDE DEF read, a, used, ref, s, t
<1>12. read # NullCode => f[used.bp] = t
  BY <1>8 DEF t
<1>13. CASE read.type = "pass"
            /\ \E b \in {NextRef(CheckB1(a))} : Next2D(NextRef(Pass(b)), Consumed(read))
  <2> DEFINE b == NextRef(Pass(NextRef(CheckB1(a))))
  <2>1. Next2D(b, used)
    BY <1>13 DEF used
  <2>2. f[used.bp] = t
    BY <1>5, <1>12, <1>13, CodeArguments
  <2>3. b.no = a.no /\ b.a0 \in Nat
    <3>1. PICK c : c = CheckB1(a)
      OBVIOUS
    <3>2. c \in RowType /\ RunsAre(c) /\ c.b1 = Sum(ref, c.pb) /\ c.no = a.no
      BY <1>6, <3>1, CheckB1Between, CheckB1Moves DEF Between, RunsAre, PlaceIs, ref
    <3>3. PICK e : e = NextRef(c)
      OBVIOUS
    <3>4. RunsAre(e) /\ e \in RowType
      BY <1>6, <3>2, <3>3, NextRefIs DEF ref, RunsAre
    <3>5. e.no = a.no
      BY <3>2, <3>3 DEF NextRef, RowType
    <3>6. Pass(e).no = a.no /\ Pass(e).a0 = e.b1
      BY <3>4, <3>5 DEF Pass, RowType
    <3>7. NextRef(Pass(e)).no = a.no /\ NextRef(Pass(e)).a0 = e.b1
      <4>1. Pass(e) = [e EXCEPT !.RunLength = e.RunLength + e.b1 - e.a0, !.a0 = e.b1]
        BY <3>4 DEF Pass, RowType
      <4>2. \A u, w : [e EXCEPT !.RunLength = u, !.a0 = w] \in
                [a0 : {w}, b1 : Nat, RunLength : {u}, pa : Nat, pb : Nat, runs : Seq(Nat),
                 left : 0..2, no : Int]
        BY <3>4 DEF RowType
      <4> QED BY <3>6, <4>1, <4>2 DEF NextRef
    <3> QED BY <3>1, <3>3, <3>4, <3>7, RowNumbers
  <2>4. a.no > 0 => b.a0 < lastx /\ WithinRow(b, used, "2D", t)
    BY <1>8, <1>10, <1>11, <1>13, PassReads DEF ref
  <2> HIDE DEF b
  <2>5. b.no > 0 => /\ b.a0 < lastx => WithinRow(b, used, "2D", t)
                    /\ b.a0 >= lastx => RowRead(b, t)
    <3>1. b.a0 < lastx => ~(b.a0 >= lastx)
      BY <2>3, Width
    <3> QED BY <2>3, <2>4, <3>1
  <2> QED BY <1>3, <1>4, <1>8, <2>1, <2>2, <2>3, <2>5, Next2DRows DEF ref
<1>14. CASE read.type = "horiz" /\ pc' = "horiz" /\ FaxStep([a EXCEPT !.left = 2], Consumed(read))
  <2> DEFINE b == [a EXCEPT !.left = 2]
  <2>1. FaxStep(b, used) /\ pc' = "horiz" /\ pc' \in RowPcs /\ pc' \in RunPcs
    BY <1>14 DEF used, RowPcs, RunPcs
  <2>2. /\ b.left = 2 /\ b.a0 = a.a0 /\ b.pa = a.pa /\ b.pb = a.pb /\ b.no = a.no
        /\ b.b1 = a.b1 /\ b.runs = a.runs /\ b.RunLength = a.RunLength
    BY <1>9 DEF RowType
  <2> HIDE DEF b
  <2>3. f[used.bp] = t
    BY <1>5, <1>12, <1>14, CodeArguments
  <2>4. ASSUME b.no > 0 PROVE WithinRow(b, used, "horiz", t)
    <3>1. a.no > 0
      BY <2>2, <2>4
    <3>2. t = Spot(s.no, s.x, s.c, "h1")
      BY <1>11, <1>14, <3>1 DEF TwoRuns
    <3>3. /\ RunsRight(a) /\ s = SpotOf(a, "2D") /\ RefAt(a, dec3, FALSE)
      BY <1>10, <3>1 DEF Compared
    <3>4. t = SpotOf(b, "horiz")
      BY <2>2, <3>2, <3>3, SpotIsAt DEF SpotOf, Color
    <3>5. RunsRight(b)
      BY <2>2, <3>3 DEF RunsRight
    <3>6. RefAt(b, used, FALSE)
      BY <1>8, <2>2, <3>3 DEF RefAt, ref
    <3>7. ~(b.left = 1)
      BY <2>2
    <3> QED BY <3>4, <3>5, <3>6, <3>7 DEF WithinRow
  <2> QED BY <1>3, <1>4, <1>8, <2>1, <2>2, <2>3, <2>4, RowGoesOn DEF ref
<1>15. CASE read.type = "vert" /\ \E b \in {CheckB1(a)} : Vertical(read, b)
  <2> DEFINE p == CheckB1(a)
             n == read.n
             b == IF n >= 0 THEN NextRef(Change(p, n)) ELSE PreviousRef(Change(p, n))
  <2>1. Vertical(read, p) /\ f[used.bp] = t
    BY <1>5, <1>12, <1>15, CodeArguments
  <2>2. n \in Int
    BY <1>5, <1>15, CodeArguments
  <2>3. \/ n >= 0 /\ Next2D(NextRef(Change(p, n)), used)
        \/ n < 0 /\ ~BadVL(p, n) /\ Next2D(PreviousRef(Change(p, n)), used)
        \/ n < 0 /\ BadVL(p, n) /\ RowDone(p, used)
    BY <2>1 DEF Vertical, used
  <2>4. /\ p.no = a.no /\ RunsAre(p) /\ p \in RowType /\ p.b1 = Sum(ref, p.pb) /\ p.pb > 0
    BY <1>6, CheckB1Between, CheckB1Moves DEF Between, RunsAre, PlaceIs, ref
  <2>5. a.no > 0 =>
          /\ ~BadVL(p, n)
          /\ b.no = a.no /\ b.a0 \in Nat
          /\ b.a0 < lastx => WithinRow(b, used, "2D", t)
          /\ b.a0 >= lastx => RowRead(b, t)
    BY <1>3, <1>8, <1>10, <1>11, <1>15, VerticalReads DEF ref
  <2> HIDE DEF p
  <2>6. Change(p, n).no = a.no
    BY <2>4 DEF Change, SetValue, RowType
  <2> DEFINE v == Change(p, n)
  <2>7. n >= 0 \/ ~BadVL(p, n) => RunsAre(v) /\ v.pb = p.pb /\ v.b1 = p.b1
    <3>1. a.pa = 0 => a.a0 <= a.b1
      BY <1>1, <1>2, ReadInto DEF FaxInv, FaxRowOK, a
    <3>2. p.b1 >= a.a0 /\ p.a0 = a.a0
      BY <1>6, <1>7, <3>1, B1Beyond, CheckB1Between DEF p, ref
    <3>3. /\ p.a0 \in Nat /\ p.b1 \in Nat /\ p.RunLength \in Nat
      BY <2>4, RowNumbers
    <3>4. ASSUME n >= 0 \/ ~BadVL(p, n)
          PROVE  /\ p.b1 - p.a0 + n \in Int /\ p.RunLength + (p.b1 - p.a0 + n) \in Nat
                 /\ p.a0 + (p.b1 - p.a0 + n) \in Nat
      <4>1. p.b1 + n >= p.a0
        BY <2>2, <3>2, <3>3, <3>4 DEF BadVL
      <4> QED BY <2>2, <3>3, <4>1
    <3> QED BY <2>4, <3>4, RunEnds DEF Change
  <2>8. n >= 0 \/ ~BadVL(p, n) => b.no = a.no /\ b.a0 \in Nat
    <3>1. SUFFICES ASSUME n >= 0 \/ ~BadVL(p, n) PROVE b.no = a.no /\ b.a0 \in Nat
      OBVIOUS
    <3>2. RunsAre(v) /\ v.b1 = Sum(ref, v.pb) /\ v.pb > 0 /\ v.no = a.no /\ v \in RowType
      BY <2>4, <2>6, <2>7, <3>1 DEF RunsAre
    <3> HIDE DEF v
    <3>3. RunsAre(NextRef(v)) /\ RunsAre(PreviousRef(v))
      BY <1>6, <3>2, NextRefIs, PreviousRefIs DEF ref
    <3>4. NextRef(v).no = a.no /\ PreviousRef(v).no = a.no
      BY <3>2 DEF NextRef, PreviousRef, RowType
    <3>5. NextRef(v).a0 \in Nat /\ PreviousRef(v).a0 \in Nat
      BY <3>3, RowNumbers DEF RunsAre
    <3> QED BY <3>4, <3>5 DEF v
  <2>9. CASE n < 0 /\ BadVL(p, n) /\ RowDone(p, used)
    <3>1. pc' = "done" /\ FaxStep(p, used)
      BY <2>9 DEF RowDone
    <3>2. pc' \in RowPcs /\ pc' \notin RunPcs
      BY <3>1 DEF RowPcs, RunPcs
    <3>3. ~(p.no > 0)
      BY <2>4, <2>5, <2>9
    <3> QED BY <1>3, <1>4, <1>8, <2>4, <3>1, <3>2, <3>3, RowGoesOn DEF ref
  <2>10. CASE Next2D(b, used) /\ (n >= 0 \/ ~BadVL(p, n))
    <3> HIDE DEF b
    <3> QED BY <1>3, <1>4, <1>8, <2>1, <2>5, <2>8, <2>10, Next2DRows DEF ref
  <2>11. n < 0 => ~(n >= 0)
    BY <2>2
  <2> HIDE DEF n
  <2> QED BY <2>3, <2>9, <2>10, <2>11
<1>16. CASE /\ read.type \in {"ext", "eol"}
            /\ RowDone(Rest(a), [Consumed(read) EXCEPT !.EOLcnt =
                                    IF read.type = "eol" THEN 1 ELSE @])
  <2> DEFINE d == [used EXCEPT !.EOLcnt = IF read.type = "eol" THEN 1 ELSE @]
  <2>1. pc' = "done" /\ FaxStep(Rest(a), d)
    BY <1>16 DEF RowDone, used
  <2>2. pc' \in RowPcs /\ pc' \notin RunPcs
    BY <2>1 DEF RowPcs, RunPcs
  <2>3. ~(a.no > 0) /\ Rest(a).no = a.no
    BY <1>9, <1>11, <1>16 DEF Rest, RowType
  <2>4. d.refno = dec3.refno /\ d.refruns = ref
    <3>1. d = [used EXCEPT !.EOLcnt = IF read.type = "eol" THEN 1 ELSE used.EOLcnt]
      OBVIOUS
    <3> HIDE DEF d
    <3> QED BY <1>8, <3>1
  <2> HIDE DEF d
  <2> QED BY <1>3, <1>4, <2>1, <2>2, <2>3, <2>4, RowGoesOn DEF ref
<1>17. CASE /\ read.type = "eol" /\ dec3.bp + 1 = Len(stream) /\ Len(stream) \in damaged
            /\ pc' = "eof" /\ FaxStep(Rest(a), Consumed(read))
  <2>1. pc' = "eof" /\ FaxStep(Rest(a), used)
    BY <1>17 DEF used
  <2>2. pc' \in RowPcs /\ pc' \notin RunPcs
    BY <2>1 DEF RowPcs, RunPcs
  <2>3. ~(a.no > 0) /\ Rest(a).no = a.no
    BY <1>9, <1>11, <1>17 DEF Rest, RowType
  <2> QED BY <1>3, <1>4, <1>8, <2>1, <2>2, <2>3, RowGoesOn DEF ref
<1> QED BY <1>9, <1>13, <1>14, <1>15, <1>16, <1>17 DEF Expand2D

\* A row begins with no runs, and the line above it is the one before.
LEMMA NewRowRight ==
  ASSUME FaxInv, NEW no \in Nat \ {0}, NEW p \in {"1D", "2D"}, NEW d,
         p = "2D" => scheme \in {"g32d", "g4"} /\ d.refno = no - 1
  PROVE  /\ WithinRow(NewRow(no), d, p, Spot(no, 0, White, p))
         /\ NewRow(no).no = no
<1> DEFINE b == NewRow(no)
<1>1. /\ b.a0 = 0 /\ b.pa = 0 /\ b.pb = 1 /\ b.runs \in Seq(Nat) /\ b.no = no
  <2>1. RunsAre(b) /\ b.pb = 1 /\ b.a0 = 0 /\ b.pa = 0
    BY NewRowIs
  <2>2. b.no = no
    BY DEF NewRow, StartFaxRow
  <2> QED BY <2>1, <2>2 DEF RunsAre, RowType
<1> HIDE DEF b
<1>2. Sum(b.runs, 0) = 0
  BY <1>1, SumRange
<1>3. RunsRight(b)
  BY <1>1, <1>2, Width DEF RunsRight
<1>4. SpotOf(b, p) = Spot(no, 0, White, p)
  <2>1. Color(b) = White
    BY <1>1, ColorsAre, 0 % 2 = 0 DEF Color
  <2> QED BY <1>1, <2>1 DEF SpotOf
<1>5. First(Spot(no, 0, White, p))
  BY DEF First, Spot
<1>6. p = "2D" => RefAt(b, d, FALSE)
  BY <1>1 DEF RefAt
<1>7. (p = "horiz" /\ b.left = 1) = FALSE
  OBVIOUS
<1>8. WithinRow(b, d, p, Spot(no, 0, White, p))
  BY <1>1, <1>3, <1>4, <1>5, <1>6, <1>7 DEF WithinRow, AtColor
<1> QED BY <1>1, <1>8 DEF b

\* Between two rows.
LEMMA BetweenMarked ==
  ASSUME FaxInv, RowsInv, pc \notin EncoderPcs
  PROVE  /\ scheme \in FaxSchemes /\ Bilevel
         /\ \E f : Marked(f) /\ \A i \in 0..Len(stream) : f[i] \in Spots
<1>1. scheme \in FaxSchemes /\ Bilevel
  BY DEF RowsInv
<1>2. PICK f : Marked(f)
  BY DEF RowsInv, Marked
<1>3. LineStart(1) \in Spots
  BY Width, ColorsAre, SpotIs DEF Modes
<1>4. stream \in Seq(FaxCodes)
  BY DEF FaxInv, FaxStripOK
<1>5. \A i \in 0..Len(stream) : f[i] \in Spots
  BY <1>2, <1>3, <1>4, AlongSpots DEF Marked
<1> QED BY <1>1, <1>2, <1>5

LEMMA NotEncoding ==
  /\ "call" \notin EncoderPcs /\ "idle" \notin EncoderPcs
  /\ \A p \in RowPcs : p \notin EncoderPcs
BY DEF EncoderPcs, RowPcs, RunPcs

LEMMA BeginRowRows == FaxInv /\ RowsInv /\ BeginRow => RowsInv'
<1> SUFFICES ASSUME FaxInv, RowsInv, BeginRow PROVE RowsInv'
  OBVIOUS
<1>1. pc = "call" /\ ~HasEol /\ FaxStep(NewRow(NextNo), dec3)
      /\ pc' = (IF scheme = "rle" THEN "1D" ELSE "2D")
  BY DEF BeginRow
<1>2. PICK f : Marked(f)
  BY <1>1, NotEncoding, BetweenMarked
<1>3. scheme \in FaxSchemes /\ Bilevel
  BY DEF RowsInv
<1>4. scheme \in {"rle", "g4"}
  BY <1>1, <1>3 DEF HasEol, FaxSchemes
<1>5. dec3.refno \in Int
  BY Stays DEF DecoderRecords
<1>6. PICK p \in {"1D", "2D"} : p = pc' /\ p = (IF scheme = "rle" THEN "1D" ELSE "2D")
  BY <1>1
<1>7. NewRow(NextNo).no = NextNo
  BY DEF NewRow, StartFaxRow
<1>8. NextNo # 0 /\ (NextNo > 0 => NextNo \in Nat \ {0} /\ dec3.refno >= 0
                                   /\ dec3.refno = NextNo - 1 /\ NextNo = dec3.refno + 1)
  BY <1>5 DEF NextNo
<1>9. NextNo > 0 => WithinRow(NewRow(NextNo), dec3, p, f[dec3.bp])
  <2>1. SUFFICES ASSUME NextNo > 0 PROVE WithinRow(NewRow(NextNo), dec3, p, f[dec3.bp])
    OBVIOUS
  <2>2. f[dec3.bp] = LineStart(NextNo)
    BY <1>1, <1>2, <1>8, <2>1 DEF Marked, DecodedTo
  <2>3. LineStart(NextNo) = Spot(NextNo, 0, White, p)
    BY <1>1, <1>6 DEF LineStart
  <2>4. p = "2D" => scheme \in {"g32d", "g4"} /\ dec3.refno = NextNo - 1
    BY <1>4, <1>6, <1>8, <2>1
  <2>5. PICK no \in Nat \ {0} : no = NextNo
    BY <1>8, <2>1
  <2>6. WithinRow(NewRow(no), dec3, p, Spot(no, 0, White, p))
    BY <2>4, <2>5, NewRowRight
  <2> QED BY <2>2, <2>3, <2>5, <2>6
<1>10. pc' \in RowPcs /\ pc' \notin {"done", "fill"}
  BY <1>6 DEF RowPcs, RunPcs
<1> QED BY <1>1, <1>2, <1>3, <1>6, <1>7, <1>8, <1>9, <1>10, RowGoesOn

LEMMA SyncRows == FaxInv /\ RowsInv /\ Sync => RowsInv'
<1> SUFFICES ASSUME FaxInv, RowsInv, Sync PROVE RowsInv'
  OBVIOUS
<1>1. pc = "call" /\ HasEol
  BY DEF Sync
<1>2. PICK f : Marked(f) /\ \A i \in 0..Len(stream) : f[i] \in Spots
  BY <1>1, NotEncoding, BetweenMarked
<1>3. scheme \in FaxSchemes /\ Bilevel /\ scheme \in {"g3", "g32d"}
  BY <1>1 DEF RowsInv, HasEol
<1>4. /\ dec3 \in DecoderRecords /\ dec3.bp \in Nat /\ dec3.bp <= Len(stream)
      /\ dec3.EOLcnt \in {0, 1} /\ (dec3.EOLcnt = 1 => dec3.bp > 0) /\ dec3.refno \in Int
      /\ Len(stream) \in Nat
  BY Stays DEF DecoderRecords
<1>5. PICK i \in EolToUse : \E is1D \in Tags(i) :
        /\ pc' = IF is1D THEN "1D" ELSE "2D"
        /\ LET known == IsEol(i) /\ (is1D \/ stream[i].n = NextNo)
           IN  FaxStep(NewRow(IF known THEN stream[i].n ELSE -1),
                       [dec3 EXCEPT !.EOLcnt = 0, !.bp = i,
                                    !.seen = IF IsEol(i) THEN @ \cup {stream[i].n} ELSE @])
  BY DEF Sync
<1>6. i \in 1..Len(stream)
  <2>1. /\ dec3.EOLcnt = 1 => i = dec3.bp
        /\ dec3.EOLcnt # 1 => i \in (dec3.bp + 1)..Len(stream)
    BY <1>5 DEF EolToUse, Candidates
  <2> QED BY <1>4, <2>1
<1>7. PICK is1D \in Tags(i) :
        /\ pc' = IF is1D THEN "1D" ELSE "2D"
        /\ FaxStep(NewRow(IF IsEol(i) /\ (is1D \/ stream[i].n = NextNo)
                          THEN stream[i].n ELSE -1),
                   [dec3 EXCEPT !.EOLcnt = 0, !.bp = i,
                                !.seen = IF IsEol(i) THEN @ \cup {stream[i].n} ELSE @])
  BY <1>5
<1>8. PICK no : no = IF IsEol(i) /\ (is1D \/ stream[i].n = NextNo) THEN stream[i].n ELSE -1
  OBVIOUS
<1>9. PICK dec : dec = [dec3 EXCEPT !.EOLcnt = 0, !.bp = i,
                          !.seen = IF IsEol(i) THEN @ \cup {stream[i].n} ELSE @]
  OBVIOUS
<1>10. dec.refruns = dec3.refruns /\ dec.refno = dec3.refno /\ dec.bp = i
  BY <1>4, <1>9 DEF DecoderRecords
<1>11. FaxStep(NewRow(no), dec)
  BY <1>7, <1>8, <1>9
<1>12. PICK p \in {"1D", "2D"} : p = pc' /\ p = IF is1D THEN "1D" ELSE "2D"
  BY <1>7
<1>13. IsEol(i) => /\ stream[i].n \in Nat \ {0}
                   /\ f[i] = Spot(stream[i].n, 0, White, p)
  <2>1. SUFFICES ASSUME IsEol(i) PROVE /\ stream[i].n \in Nat \ {0}
                                       /\ f[i] = Spot(stream[i].n, 0, White, p)
    OBVIOUS
  <2>2. CodeFits(f[i - 1], stream[i], f[i])
    BY <1>2, <1>6 DEF Marked, Along
  <2>3. stream[i].type = "eol"
    BY <2>1 DEF IsEol
  <2>4. BeginsLine(f[i - 1], stream[i], f[i])
    BY <1>3, <2>2, <2>3, RightKinds DEF CodeFits, EndsStrip
  <2>5. PICK b \in BOOLEAN : /\ stream[i] = EolCode(b, f[i - 1].no)
                             /\ scheme = "g3" => b
                             /\ f[i] = Spot(f[i - 1].no, 0, White, IF b THEN "1D" ELSE "2D")
    BY <2>4 DEF BeginsLine
  <2>6. stream[i].n = f[i - 1].no /\ stream[i].is1D = b
    BY <2>5 DEF EolCode
  <2>7. f[i - 1] \in Spots
    BY <1>2, <1>4, <1>6
  <2>8. is1D = b
    BY <1>7, <2>1, <2>5, <2>6 DEF Tags
  <2> QED BY <1>12, <2>5, <2>6, <2>7, <2>8, SpotParts
<1>14. NewRow(no).no = no
  BY DEF NewRow, StartFaxRow
<1>15. no # 0
  BY <1>8, <1>13
<1>16. no > 0 => WithinRow(NewRow(no), dec, p, f[i])
  <2>1. SUFFICES ASSUME no > 0 PROVE WithinRow(NewRow(no), dec, p, f[i])
    OBVIOUS
  <2>2. IsEol(i) /\ (is1D \/ stream[i].n = NextNo) /\ no = stream[i].n
    BY <1>8, <2>1
  <2>3. no \in Nat \ {0} /\ f[i] = Spot(no, 0, White, p)
    BY <1>13, <2>2
  <2>4. p = "2D" => scheme \in {"g32d", "g4"} /\ dec.refno = no - 1
    <3>1. SUFFICES ASSUME p = "2D" PROVE scheme \in {"g32d", "g4"} /\ dec.refno = no - 1
      OBVIOUS
    <3>2. is1D # TRUE
      BY <1>12, <3>1
    <3>3. scheme # "g3"
      BY <1>7, <3>2 DEF Tags
    <3>4. no = NextNo
      BY <2>2, <1>7, <1>12, <3>1
    <3>5. dec3.refno = no - 1
      BY <1>4, <2>3, <3>4 DEF NextNo
    <3> QED BY <1>3, <1>10, <3>3, <3>5
  <2> QED BY <2>3, <2>4, NewRowRight
<1>17. pc' \in RowPcs /\ pc' \notin {"done", "fill"}
  BY <1>12 DEF RowPcs, RunPcs
<1> QED BY <1>2, <1>3, <1>10, <1>11, <1>12, <1>14, <1>15, <1>16, <1>17, RowGoesOn

\* The row is not known when there is no EOL for it, or when the data end in it.
LEMMA UnknownRows ==
  ASSUME FaxInv, RowsInv, pc \notin EncoderPcs, NEW a, NEW dec, FaxStep(a, dec), a.no = -1,
         dec.refruns = dec3.refruns, dec.refno = dec3.refno, pc' \in RowPcs
  PROVE  RowsInv'
<1>1. PICK f : Marked(f)
  BY BetweenMarked
<1>2. scheme \in FaxSchemes /\ Bilevel
  BY DEF RowsInv
<1>3. a.no # 0 /\ ~(a.no > 0)
  OBVIOUS
<1> QED BY <1>1, <1>2, <1>3, RowGoesOn

LEMMA SyncFailsRows == FaxInv /\ RowsInv /\ SyncFails => RowsInv'
<1> SUFFICES ASSUME FaxInv, RowsInv, SyncFails PROVE RowsInv'
  OBVIOUS
<1>1. pc = "call" /\ pc' = "eof" /\ FaxStep(NewRow(-1), [dec3 EXCEPT !.bp = Len(stream)])
  BY DEF SyncFails
<1>2. NewRow(-1).no = -1
  BY DEF NewRow, StartFaxRow
<1>3. dec3 \in DecoderRecords
  BY Stays
<1>4. /\ [dec3 EXCEPT !.bp = Len(stream)].refruns = dec3.refruns
      /\ [dec3 EXCEPT !.bp = Len(stream)].refno = dec3.refno
  BY <1>3 DEF DecoderRecords
<1>5. pc \notin EncoderPcs /\ pc' \in RowPcs
  BY <1>1, NotEncoding DEF RowPcs
<1> QED BY <1>1, <1>2, <1>4, <1>5, UnknownRows

LEMMA DataEndRows == FaxInv /\ RowsInv /\ DataEnd => RowsInv'
<1> SUFFICES ASSUME FaxInv, RowsInv, DataEnd PROVE RowsInv'
  OBVIOUS
<1>1. pc \in RunPcs /\ pc' = "eof" /\ FaxStep([at EXCEPT !.no = -1], dec3)
  BY DEF DataEnd, RunPcs
<1>2. at \in RowType
  BY DEF FaxInv, FaxRowOK
<1>3. [at EXCEPT !.no = -1].no = -1
  BY <1>2 DEF RowType
<1>4. pc \notin EncoderPcs /\ pc' \in RowPcs
  BY <1>1, NotEncoding DEF RowPcs
<1> QED BY <1>1, <1>3, <1>4, UnknownRows

\* A row that is complete is left as it is.
LEMMA NothingToClean ==
  ASSUME NEW a \in RowType, a.a0 = lastx, a.RunLength = 0
  PROVE  Ended(a) = a /\ Dropped(a) = a
<1> DEFINE end(i) == a.a0 - SumRuns(a.runs, i, a.pa)
           P == {0} \cup {i \in 0..a.pa : end(i) <= lastx}
<1>1. a.pa \in Nat /\ a.runs \in Seq(Nat) /\ lastx \in Nat
  BY Width DEF RowType
<1>2. SumRuns(a.runs, a.pa, a.pa) = 0
  <2>1. PICK n \in Nat : n = a.pa
    BY <1>1
  <2>2. n <= n
    BY <2>1
  <2>3. SumRuns(a.runs, n, n) = 0
    BY <1>1, <2>1, <2>2, SumStep
  <2> QED BY <2>1, <2>3
<1>3. end(a.pa) = lastx
  BY <1>1, <1>2
<1>4. P \in SUBSET Nat /\ P # {} /\ a.pa \in P /\ \A i \in P : i <= a.pa
  <2>1. end(a.pa) <= lastx
    BY <1>1, <1>3
  <2> HIDE DEF end
  <2> QED BY <1>1, <2>1
<1>5. Max(P) = a.pa
  <2> HIDE DEF P
  <2>1. Max(P) \in P /\ \A i \in P : Max(P) >= i
    BY <1>1, <1>4, MaxOf
  <2>2. Max(P) \in Nat /\ Max(P) <= a.pa /\ Max(P) >= a.pa
    BY <1>4, <2>1
  <2> QED BY <1>1, <2>2
<1>6. Dropped(a) = [a EXCEPT !.a0 = end(Max(P)), !.pa = Max(P)]
  BY DEF Dropped
<1>7. end(Max(P)) = a.a0
  <2> HIDE DEF P
  <2> QED BY <1>3, <1>5
<1>8. Dropped(a) = [a EXCEPT !.a0 = a.a0, !.pa = a.pa]
  <2> HIDE DEF P, end
  <2> QED BY <1>5, <1>6, <1>7
<1>9. [a EXCEPT !.a0 = a.a0, !.pa = a.pa] = a
  BY DEF RowType
<1> QED BY <1>8, <1>9 DEF Ended

\* The row stays the one it is known to be.
LEMMA NumberKept ==
  ASSUME NEW a, "no" \in DOMAIN a
  PROVE  /\ \A x : SetValue(a, x).no = a.no /\ "no" \in DOMAIN SetValue(a, x)
         /\ Dropped(a).no = a.no /\ "no" \in DOMAIN Dropped(a)
<1>1. ASSUME NEW x PROVE SetValue(a, x).no = a.no /\ "no" \in DOMAIN SetValue(a, x)
  BY DEF SetValue
<1>2. \E m, n : Dropped(a) = [a EXCEPT !.a0 = m, !.pa = n]
  BY DEF Dropped
<1> QED BY <1>1, <1>2

LEMMA CleanUpRows == FaxInv /\ RowsInv /\ CleanUp => RowsInv'
<1> SUFFICES ASSUME FaxInv, RowsInv, CleanUp PROVE RowsInv'
  OBVIOUS
<1> DEFINE b == Ended(at)
           d == Dropped(b)
           e == IF d.a0 < lastx THEN Filled(d) ELSE IF d.a0 > lastx THEN OnlyRun(d) ELSE d
<1>1. /\ pc \in {"done", "eof"} /\ pc' = (IF pc = "done" THEN "fill" ELSE "fillLast")
      /\ FaxStep(e, dec3)
  BY DEF CleanUp
<1>2. at \in RowType
  BY DEF FaxInv, FaxRowOK
<1>3. e.no = at.no
  <2>1. "no" \in DOMAIN at
    BY <1>2 DEF RowType
  <2>2. b.no = at.no /\ "no" \in DOMAIN b
    BY <2>1, NumberKept DEF Ended
  <2> HIDE DEF b
  <2>3. d.no = at.no /\ "no" \in DOMAIN d
    BY <2>2, NumberKept
  <2> HIDE DEF d
  <2>4. Filled(d).no = at.no
    <3>1. SetValue(d, 0).no = at.no /\ "no" \in DOMAIN SetValue(d, 0)
      BY <2>3, NumberKept
    <3>2. PICK c : c = IF d.pa % 2 = 1 THEN SetValue(d, 0) ELSE d
      OBVIOUS
    <3>3. c.no = at.no /\ "no" \in DOMAIN c
      BY <2>3, <3>1, <3>2
    <3>4. SetValue(c, lastx - d.a0).no = at.no
      BY <3>3, NumberKept
    <3> QED BY <3>2, <3>4 DEF Filled
  <2>5. OnlyRun(d).no = at.no
    BY <2>3, NumberKept DEF OnlyRun
  <2> QED BY <2>3, <2>4, <2>5
<1>4. pc \in RowPcs /\ pc' \in RowPcs /\ pc' \notin RunPcs /\ pc' # "done"
  BY <1>1 DEF RowPcs, RunPcs
<1>5. PICK f : Marked(f)
  BY <1>4, NotEncoding, BetweenMarked
<1>6. scheme \in FaxSchemes /\ Bilevel /\ at.no # 0
  BY <1>4, <1>5 DEF RowsInv, Marked, DecodedTo
<1>7. e.no > 0 /\ pc' = "fill" => RowRead(e, f[dec3.bp])
  <2>1. SUFFICES ASSUME at.no > 0, pc = "done" PROVE RowRead(e, f[dec3.bp])
    BY <1>1, <1>3
  <2>2. RowRead(at, f[dec3.bp])
    BY <1>5, <2>1 DEF Marked, DecodedTo
  <2>3. at.a0 = lastx /\ at.RunLength = 0
    BY <2>2 DEF RowRead
  <2>4. b = at
    BY <1>2, <2>3, NothingToClean
  <2>5. d = at
    BY <1>2, <2>3, <2>4, NothingToClean
  <2>6. e = at
    <3>1. lastx \in Nat /\ ~(lastx < lastx) /\ ~(lastx > lastx)
      BY Width
    <3> HIDE DEF b, d
    <3> QED BY <2>3, <2>5, <3>1
  <2> HIDE DEF e
  <2> QED BY <2>2, <2>6
<1> HIDE DEF b, d, e
<1> QED BY <1>1, <1>3, <1>4, <1>5, <1>6, <1>7, RowGoesOn

\* What is left to the next row, and to the pixels: the runs of the row, up to its end.
RowComplete(a) ==
  /\ IsRow(a) /\ Sum(a.runs, a.pa) >= lastx
  /\ RunsRight(a) /\ a.a0 = lastx /\ a.no \in Nat \ {0}

LEMMA RunsGoUp ==
  ASSUME NEW a, RowComplete(a)
  PROVE  /\ a.pa \in Nat /\ lastx \in Nat /\ lastx > 0 /\ InData(a.no)
         /\ \A i \in Nat : /\ Sum(a.runs, i) \in Nat /\ Sum(a.runs, i) <= Sum(a.runs, i + 1)
                           /\ EndOfRun(a, i) \in 0..lastx
                           /\ EndOfRun(a, i) <= EndOfRun(a, i + 1)
                           /\ (Sum(a.runs, i) >= lastx => EndOfRun(a, i) = lastx)
                           /\ (Sum(a.runs, i) < lastx => EndOfRun(a, i) = Sum(a.runs, i))
         /\ Sum(a.runs, 0) = 0
<1>1. IsRow(a) /\ a.runs \in Seq(Nat) /\ a.pa \in Nat
  BY DEF RowComplete, IsRow
<1>2. lastx \in Nat /\ lastx > 0
  BY Width
<1>3. InData(a.no)
  BY <1>2 DEF RowComplete, RunsRight
<1>4. ASSUME NEW i \in Nat
      PROVE  /\ Sum(a.runs, i) \in Nat /\ Sum(a.runs, i) <= Sum(a.runs, i + 1)
             /\ EndOfRun(a, i) \in 0..lastx
             /\ EndOfRun(a, i) <= EndOfRun(a, i + 1)
             /\ (Sum(a.runs, i) >= lastx => EndOfRun(a, i) = lastx)
             /\ (Sum(a.runs, i) < lastx => EndOfRun(a, i) = Sum(a.runs, i))
  <2>1. Sum(a.runs, i) \in Nat
    BY <1>1, SumRange
  <2>2. Sum(a.runs, i) <= Sum(a.runs, i + 1)
    <3>1. i + 1 \in Nat /\ i \in 0..(i + 1)
      OBVIOUS
    <3> QED BY <1>1, <3>1, SumRange
  <2>3. /\ EndOfRun(a, i) \in 0..lastx /\ EndOfRun(a, i) <= EndOfRun(a, i + 1)
        /\ (Sum(a.runs, i) >= lastx => EndOfRun(a, i) = lastx)
    BY <1>1, EndOfRunIs
  <2>4. EndOfRun(a, i) = IF Sum(a.runs, i) < lastx THEN Sum(a.runs, i) ELSE lastx
    BY <1>2, <2>1 DEF EndOfRun, Smaller, Sum
  <2> QED BY <2>1, <2>2, <2>3, <2>4
<1>5. Sum(a.runs, 0) = 0
  BY <1>1, SumRange
<1> QED BY <1>1, <1>2, <1>3, <1>4, <1>5

LEMMA MarkIsRight ==
  ASSUME NEW a, RowComplete(a)
  PROVE  RefRight(EndMark(a), Row(a.no))
<1> DEFINE m == EndMark(a)
           S == {i \in Nat : Sum(a.runs, i) >= lastx}
<1>1. IsRow(a) /\ a.runs \in Seq(Nat) /\ a.pa \in Nat /\ lastx \in Nat /\ lastx > 0
      /\ Len(a.runs) \in Nat /\ a.pa <= Len(a.runs)
  BY Width DEF RowComplete, IsRow
<1>2. S \in SUBSET Nat /\ a.pa \in S
  BY <1>1 DEF RowComplete
<1>3. PICK k \in S : \A i \in S : k <= i
  <2> HIDE DEF S
  <2> QED BY <1>2, LeastOf
<1>4. k \in Nat /\ k <= a.pa /\ Sum(a.runs, k) >= lastx
  BY <1>2, <1>3
<1>5. Sum(a.runs, 0) = 0 /\ \A i \in Nat : Sum(a.runs, i) \in Nat
  BY RunsGoUp
<1>6. k > 0
  BY <1>1, <1>4, <1>5
<1>7. \A i \in 0..(k - 1) : Sum(a.runs, i) < lastx
  <2>1. SUFFICES ASSUME NEW i \in 0..(k - 1), Sum(a.runs, i) >= lastx PROVE FALSE
    BY <1>1, <1>4, <1>5
  <2>2. i \in S
    BY <1>4, <2>1
  <2> QED BY <1>3, <1>4, <2>1, <2>2
<1>8. EndOfRun(a, k) = lastx /\ EndOfRun(a, a.pa) = lastx
      /\ (k + 1 <= a.pa => EndOfRun(a, k + 1) = lastx)
  <2>1. EndOfRun(a, k) = lastx /\ EndOfRun(a, a.pa) = lastx
    BY <1>1, <1>4, RunsGoUp DEF RowComplete
  <2>2. EndOfRun(a, k + 1) = lastx
    <3>1. k + 1 \in Nat
      BY <1>4
    <3>2. EndOfRun(a, k + 1) \in 0..lastx /\ EndOfRun(a, k) <= EndOfRun(a, k + 1)
      BY <1>4, <3>1, RunsGoUp
    <3> QED BY <1>1, <2>1, <3>2
  <2> QED BY <2>1, <2>2
<1>9. /\ FillRuns(a) \in Seq(Nat) /\ Len(FillRuns(a)) \in Nat /\ a.pa \in 0..Len(FillRuns(a))
  <2>1. FillRuns(a) \in Seq(Nat) /\ Len(FillRuns(a)) >= Len(a.runs)
    BY <1>1, FillRunsIs
  <2>2. Len(FillRuns(a)) \in Nat
    BY <2>1
  <2> QED BY <1>1, <2>1, <2>2
<1>10. /\ Len(m) \in Nat /\ Len(m) >= a.pa + 1
       /\ \A i \in 0..a.pa : Sum(m, i) = Sum(FillRuns(a), i)
       /\ Sum(m, a.pa + 1) = Sum(FillRuns(a), a.pa) + 0
  <2>1. PICK runs \in Seq(Nat) : runs = FillRuns(a)
    BY <1>9
  <2>2. PICK i \in 0..Len(runs) : i = a.pa
    BY <1>9, <2>1
  <2>3. m = SetRun(runs, i, 0)
    BY <2>1, <2>2 DEF EndMark
  <2> HIDE DEF m, S
  <2>4. 0 \in Nat
    OBVIOUS
  <2>5. Len(m) \in Nat /\ Len(m) >= i + 1
    BY <2>3, <2>4, SetRunIs
  <2>6. /\ \A j \in 0..i : Sum(m, j) = Sum(runs, j)
        /\ Sum(m, i + 1) = Sum(runs, i) + 0
    BY <2>3, <2>4, SetRunSum
  <2> QED BY <2>1, <2>2, <2>5, <2>6
<1> HIDE DEF m, S
<1>11. \A i \in 0..a.pa : Sum(m, i) = EndOfRun(a, i)
  <2>1. SUFFICES ASSUME NEW i \in 0..a.pa PROVE Sum(m, i) = EndOfRun(a, i)
    OBVIOUS
  <2>2. Sum(FillRuns(a), i) = EndOfRun(a, i)
    BY <1>1, FillRunsSum
  <2> QED BY <1>10, <2>2
<1>12. Sum(m, k) = lastx /\ Sum(m, k + 1) = lastx
  <2>1. Sum(m, k) = lastx
    BY <1>1, <1>4, <1>8, <1>11
  <2>2. Sum(m, a.pa) = lastx /\ Sum(m, a.pa + 1) = lastx
    <3>1. a.pa \in 0..a.pa
      BY <1>1
    <3>2. Sum(m, a.pa) = lastx /\ Sum(FillRuns(a), a.pa) = lastx
      BY <1>8, <1>10, <1>11, <3>1
    <3> QED BY <1>1, <1>10, <3>2
  <2>3. k + 1 <= a.pa => Sum(m, k + 1) = lastx
    BY <1>1, <1>4, <1>8, <1>11
  <2>4. k = a.pa \/ k + 1 <= a.pa
    BY <1>1, <1>4
  <2> QED BY <2>1, <2>2, <2>3, <2>4
<1>13. \A i \in 0..(k - 1) : /\ Sum(m, i) = Sum(a.runs, i) /\ Sum(m, i) < lastx
                             /\ Sum(m, i + 1) = EndOfRun(a, i + 1)
                             /\ i \in 0..(a.pa - 1) /\ i \in Nat
  <2>1. SUFFICES ASSUME NEW i \in 0..(k - 1)
                 PROVE  /\ Sum(m, i) = Sum(a.runs, i) /\ Sum(m, i) < lastx
                        /\ Sum(m, i + 1) = EndOfRun(a, i + 1)
                        /\ i \in 0..(a.pa - 1) /\ i \in Nat
    OBVIOUS
  <2>2. i \in Nat /\ i \in 0..(a.pa - 1) /\ i \in 0..a.pa /\ i + 1 \in 0..a.pa
    BY <1>1, <1>4
  <2>3. EndOfRun(a, i) = Sum(a.runs, i)
    BY <1>7, <2>2, RunsGoUp
  <2> QED BY <1>7, <1>11, <2>2, <2>3
<1>14. \A i \in Nat : /\ EndOfRun(a, i + 1) <= Sum(a.runs, i + 1) /\ EndOfRun(a, i + 1) \in Nat
                      /\ Sum(a.runs, i + 1) \in Nat
                      /\ EndOfRun(a, i + 1) = Sum(a.runs, i + 1) \/ EndOfRun(a, i + 1) = lastx
  <2>1. SUFFICES ASSUME NEW i \in Nat
                 PROVE  /\ EndOfRun(a, i + 1) <= Sum(a.runs, i + 1)
                        /\ EndOfRun(a, i + 1) \in Nat
                        /\ Sum(a.runs, i + 1) \in Nat
                        /\ EndOfRun(a, i + 1) = Sum(a.runs, i + 1) \/ EndOfRun(a, i + 1) = lastx
    OBVIOUS
  <2>2. PICK j \in Nat : j = i + 1
    OBVIOUS
  <2>3. /\ Sum(a.runs, j) \in Nat /\ EndOfRun(a, j) \in 0..lastx
        /\ (Sum(a.runs, j) >= lastx => EndOfRun(a, j) = lastx)
        /\ (Sum(a.runs, j) < lastx => EndOfRun(a, j) = Sum(a.runs, j))
    BY RunsGoUp
  <2>4. /\ EndOfRun(a, j) <= Sum(a.runs, j) /\ EndOfRun(a, j) \in Nat
        /\ EndOfRun(a, j) = Sum(a.runs, j) \/ EndOfRun(a, j) = lastx
    BY <1>1, <2>3
  <2> QED BY <2>2, <2>3, <2>4
<1>15. ASSUME NEW i \in 1..(k - 1) PROVE Sum(m, i) < Sum(m, i + 1)
  <2>1. i \in 0..(k - 1) /\ i \in Nat /\ i \in 1..(a.pa - 1)
    BY <1>1, <1>4
  <2>2. Sum(m, i) = Sum(a.runs, i) /\ Sum(m, i) < lastx /\ Sum(m, i + 1) = EndOfRun(a, i + 1)
    BY <1>13, <2>1
  <2>3. Sum(a.runs, i) < Sum(a.runs, i + 1)
    BY <2>1, <2>2 DEF RowComplete, RunsRight
  <2> QED BY <1>14, <2>1, <2>2, <2>3
<1>16. ASSUME NEW i \in 0..(k - 1), NEW y \in (Sum(m, i) + 1)..Sum(m, i + 1)
       PROVE  Row(a.no)[y] = i % 2
  <2>1. Sum(m, i) = Sum(a.runs, i) /\ Sum(m, i + 1) = EndOfRun(a, i + 1)
        /\ i \in 0..(a.pa - 1) /\ i \in Nat
    BY <1>13
  <2>2. EndOfRun(a, i + 1) <= Sum(a.runs, i + 1) /\ EndOfRun(a, i + 1) \in Nat
        /\ Sum(a.runs, i + 1) \in Nat /\ Sum(a.runs, i) \in Nat
    BY <1>5, <1>14, <2>1
  <2>3. y \in (Sum(a.runs, i) + 1)..Sum(a.runs, i + 1)
    BY <2>1, <2>2
  <2> QED BY <2>1, <2>3 DEF RowComplete, RunsRight
<1>17. k \in 1..Len(m)
  BY <1>1, <1>4, <1>6, <1>10
<1>18. RefRight(m, Row(a.no))
  BY <1>12, <1>15, <1>16, <1>17 DEF RefRight
<1> QED BY <1>18 DEF m

\* The pixels are those of the row.
LEMMA PixelsRight ==
  ASSUME NEW a, RowComplete(a), Bilevel
  PROVE  Pixels(a) = Row(a.no)
<1>1. a.pa \in Nat /\ lastx \in Nat /\ lastx > 0 /\ InData(a.no) /\ a.no \in Nat \ {0}
  BY RunsGoUp DEF RowComplete
<1>2. EndOfRun(a, a.pa) = lastx /\ EndOfRun(a, 0) = 0
  <2>1. Sum(a.runs, 0) < lastx
    BY <1>1, RunsGoUp
  <2> QED BY <1>1, <2>1, RunsGoUp DEF RowComplete
<1>3. ASSUME NEW x \in 1..lastx
      PROVE  (IF x > EndOfRun(a, a.pa) THEN -1 ELSE (RunAt(a, x) + 1) % 2) = Row(a.no)[x]
  <2> DEFINE S == {i \in Nat : x <= EndOfRun(a, i)}
             Holds(i) == EndOfRun(a, i - 1) < x /\ x <= EndOfRun(a, i)
  <2>1. S \in SUBSET Nat /\ a.pa \in S
    BY <1>1, <1>2
  <2>2. PICK k \in S : \A i \in S : k <= i
    <3> HIDE DEF S
    <3> QED BY <2>1, LeastOf
  <2>3. k \in Nat /\ k <= a.pa /\ x <= EndOfRun(a, k)
    BY <2>1, <2>2
  <2>4. k > 0
    BY <1>1, <1>2, <2>3
  <2>5. EndOfRun(a, k - 1) < x
    <3>1. k - 1 \in Nat /\ ~(k <= k - 1)
      BY <2>3, <2>4
    <3>2. k - 1 \notin S
      BY <2>2, <3>1
    <3>3. EndOfRun(a, k - 1) \in 0..lastx
      BY <3>1, RunsGoUp
    <3> QED BY <1>1, <3>1, <3>2, <3>3
  <2>6. k \in 1..a.pa /\ Holds(k)
    BY <1>1, <2>3, <2>4, <2>5
  <2>7. RunAt(a, x) = CHOOSE i \in 1..a.pa : Holds(i)
    BY DEF RunAt
  <2> HIDE DEF S, Holds
  <2>8. RunAt(a, x) \in 1..a.pa /\ Holds(RunAt(a, x))
    BY <2>6, <2>7
  <2>9. PICK n \in Nat : RunAt(a, x) = n + 1 /\ n \in 0..(a.pa - 1) /\ n + 1 \in Nat
    <3>1. RunAt(a, x) - 1 \in Nat /\ RunAt(a, x) = (RunAt(a, x) - 1) + 1
          /\ RunAt(a, x) - 1 \in 0..(a.pa - 1) /\ (RunAt(a, x) - 1) + 1 \in Nat
      BY <1>1, <2>8
    <3> QED BY <3>1
  <2>10. EndOfRun(a, n) < x /\ x <= EndOfRun(a, n + 1)
    <3>1. (n + 1) - 1 = n
      OBVIOUS
    <3> QED BY <2>8, <2>9, <3>1 DEF Holds
  <2>11. Sum(a.runs, n) < x /\ Sum(a.runs, n) \in Nat
    <3>1. /\ Sum(a.runs, n) \in Nat /\ EndOfRun(a, n) \in 0..lastx
          /\ (Sum(a.runs, n) >= lastx => EndOfRun(a, n) = lastx)
          /\ (Sum(a.runs, n) < lastx => EndOfRun(a, n) = Sum(a.runs, n))
      BY RunsGoUp
    <3> QED BY <1>1, <2>10, <3>1
  <2>12. x <= Sum(a.runs, n + 1) /\ Sum(a.runs, n + 1) \in Nat
    <3>1. PICK j \in Nat : j = n + 1
      OBVIOUS
    <3>2. /\ Sum(a.runs, j) \in Nat /\ EndOfRun(a, j) \in 0..lastx
          /\ (Sum(a.runs, j) >= lastx => EndOfRun(a, j) = lastx)
          /\ (Sum(a.runs, j) < lastx => EndOfRun(a, j) = Sum(a.runs, j))
      BY RunsGoUp
    <3>3. x <= EndOfRun(a, j)
      BY <2>10, <3>1
    <3>4. x <= Sum(a.runs, j)
      BY <1>1, <3>2, <3>3
    <3> QED BY <3>1, <3>2, <3>4
  <2>13. x \in (Sum(a.runs, n) + 1)..Sum(a.runs, n + 1)
    BY <2>11, <2>12
  <2>14. Row(a.no)[x] = n % 2
    BY <2>9, <2>13 DEF RowComplete, RunsRight
  <2>15. (RunAt(a, x) + 1) % 2 = n % 2
    <3>1. RunAt(a, x) + 1 = n + 2
      BY <2>9
    <3>2. (n + 2) % 2 = n % 2
      BY Parity
    <3> QED BY <3>1, <3>2
  <2>16. ~(x > EndOfRun(a, a.pa))
    BY <1>1, <1>2
  <2> QED BY <2>14, <2>15, <2>16
<1>4. Row(a.no) \in Seq({White, Black}) /\ Len(Row(a.no)) = lastx
  BY <1>1, RowIsBilevel
<1>5. Row(a.no) = [x \in 1..lastx |-> Row(a.no)[x]]
  BY <1>4
<1>6. Pixels(a) = [x \in 1..lastx |->
                     IF x > EndOfRun(a, a.pa) THEN -1 ELSE (RunAt(a, x) + 1) % 2]
  BY DEF Pixels
<1> QED BY <1>3, <1>5, <1>6

\* The row that is filled.
LEMMA FilledRight ==
  ASSUME FaxInv, RowsInv, pc = "fill", at.no > 0
  PROVE  RowComplete(at)
<1>1. pc \in RowPcs
  BY DEF RowPcs
<1>2. PICK f : Marked(f)
  BY <1>1, NotEncoding, BetweenMarked
<1>3. RowRead(at, f[dec3.bp])
  BY <1>2 DEF Marked, DecodedTo
<1>4. IsRow(at) /\ Sum(at.runs, at.pa) >= lastx
  BY RowLeaves
<1>5. at.no \in Int
  BY DEF FaxInv, FaxRowOK, RowType
<1> QED BY <1>3, <1>4, <1>5 DEF RowComplete, RowRead

\* Between two rows.
LEMMA MarkedOn ==
  ASSUME scheme \in FaxSchemes, Bilevel, NEW f, Marked(f), UNCHANGED <<stripVars, stream>>,
         pc' \notin EncoderPcs, DecodedTo(f[dec3.bp])'
  PROVE  RowsInv'
<1>1. Bilevel' /\ scheme' \in FaxSchemes /\ LineStart(1)' = LineStart(1)
  BY RowsKept DEF stripVars
<1>2. Along(f, stream)'
  <2>1. PICK u : u = stream
    OBVIOUS
  <2>2. Along(f, u)'
    BY <2>1, WaysKept DEF Marked
  <2> QED BY <2>1, <2>2
<1>3. f[0] = LineStart(1)'
  BY <1>1 DEF Marked
<1> QED BY <1>1, <1>2, <1>3 DEF RowsInv

LEMMA FillRowRows == FaxInv /\ RowsInv /\ FillRow => RowsInv'
<1> SUFFICES ASSUME FaxInv, RowsInv, FillRow PROVE RowsInv'
  OBVIOUS
<1> DEFINE next == [dec3 EXCEPT !.line = @ + 1, !.refno = at.no]
           dec == IF scheme \in {"rle", "g3"} THEN [next EXCEPT !.curruns = FillRuns(at)]
                  ELSE [next EXCEPT !.curruns = dec3.refruns, !.refruns = EndMark(at)]
<1>1. pc = "fill" /\ pc' = "call" /\ dec3' = dec /\ UNCHANGED <<stripVars, stream>>
  BY DEF FillRow
<1>2. pc \in RowPcs /\ pc' \notin RowPcs /\ pc' \notin EncoderPcs /\ pc' \notin RunPcs
      /\ pc' \notin {"done", "fill"}
  BY <1>1, NotEncoding DEF RowPcs, RunPcs
<1>3. PICK f : Marked(f)
  BY <1>2, NotEncoding, BetweenMarked
<1>4. scheme \in FaxSchemes /\ Bilevel /\ at.no # 0 /\ at.no \in Int
  BY <1>2, <1>3 DEF RowsInv, Marked, DecodedTo, FaxInv, FaxRowOK, RowType
<1>5. /\ dec.bp = dec3.bp /\ dec.refno = at.no
      /\ scheme \in {"g32d", "g4"} => dec.refruns = EndMark(at)
  <2>1. dec3 \in DecoderRecords
    BY Stays
  <2>2. next.bp = dec3.bp /\ next.refno = at.no /\ DOMAIN next = DOMAIN dec3
    BY <2>1 DEF DecoderRecords
  <2>3. "refruns" \in DOMAIN next /\ "curruns" \in DOMAIN next
    BY <2>1, <2>2 DEF DecoderRecords
  <2> HIDE DEF next
  <2> QED BY <2>2, <2>3
<1> HIDE DEF dec, next
<1>6. at.no > 0 => RowComplete(at)
  BY <1>1, FilledRight
<1>7. PICK n : n = at.no
  OBVIOUS
<1>8. n > 0 => f[dec3.bp] = LineStart(n + 1)
  BY <1>1, <1>3, <1>7 DEF Marked, DecodedTo, RowRead
<1>9. scheme \in {"g32d", "g4"} /\ n > 0 => RefRight(EndMark(at), RefRow(n + 1))
  <2>1. SUFFICES ASSUME n > 0 PROVE RefRight(EndMark(at), RefRow(n + 1))
    OBVIOUS
  <2>2. RefRight(EndMark(at), Row(n))
    BY <1>6, <1>7, <2>1, MarkIsRight
  <2>3. n \in Nat /\ n + 1 # 1 /\ (n + 1) - 1 = n
    BY <1>4, <1>7, <2>1
  <2> QED BY <2>2, <2>3 DEF RefRow
<1>10. dec3'.refno = n /\ n # 0 /\ n \in Int /\ dec3'.bp = dec3.bp
  BY <1>1, <1>4, <1>5, <1>7
<1>11. scheme' = scheme /\ HasEol' = HasEol /\ LineStart(n + 1)' = LineStart(n + 1)
       /\ RefRow(n + 1)' = RefRow(n + 1)
  BY <1>1, RowsKept DEF HasEol, stripVars
<1>12. dec3'.refno >= 0 => f[dec3'.bp] = LineStart(dec3.refno + 1)'
  <2>1. SUFFICES ASSUME n > 0 PROVE f[dec3'.bp] = LineStart(dec3.refno + 1)'
    BY <1>10, <1>11
  <2>2. LineStart(dec3.refno + 1)' = LineStart(n + 1)'
    BY <1>10
  <2> QED BY <1>8, <1>10, <1>11, <2>1, <2>2
<1>13. scheme' \in {"g32d", "g4"} /\ dec3'.refno >= 0 =>
         RefRight(dec3.refruns, RefRow(dec3.refno + 1))'
  <2>1. SUFFICES ASSUME scheme \in {"g32d", "g4"}, n > 0
                 PROVE  RefRight(dec3.refruns, RefRow(dec3.refno + 1))'
    BY <1>10, <1>11
  <2>2. PICK ref : ref = EndMark(at)
    OBVIOUS
  <2>3. PICK r : r = RefRow(n + 1)
    OBVIOUS
  <2>4. RefRight(ref, r)
    BY <1>9, <2>1, <2>2, <2>3
  <2>5. dec3'.refruns = ref
    BY <1>1, <1>5, <2>1, <2>2
  <2>6. RefRow(dec3.refno + 1)' = r
    BY <1>10, <1>11, <2>3
  <2> QED BY <2>4, <2>5, <2>6 DEF RefRight
<1>14. DecodedTo(f[dec3.bp])'
  BY <1>2, <1>12, <1>13 DEF DecodedTo
<1> QED BY <1>1, <1>2, <1>3, <1>4, <1>14, MarkedOn

LEMMA FillLastRowRows == FaxInv /\ RowsInv /\ FillLastRow => RowsInv'
<1> SUFFICES ASSUME FaxInv, RowsInv, FillLastRow PROVE RowsInv'
  OBVIOUS
<1>1. /\ pc \in {"fill", "fillLast"} /\ pc' = "idle" /\ UNCHANGED <<stripVars, stream>>
      /\ dec3' = [dec3 EXCEPT !.curruns = FillRuns(at), !.refno = -1,
                              !.bp = IF scheme = "g4" THEN Len(stream) ELSE @]
  BY DEF FillLastRow, Finish
<1>2. pc \in RowPcs /\ pc' \notin RowPcs /\ pc' \notin EncoderPcs /\ pc' \notin RunPcs
      /\ pc' \notin {"done", "fill"}
  BY <1>1, NotEncoding DEF RowPcs, RunPcs
<1>3. PICK f : Marked(f)
  BY <1>2, NotEncoding, BetweenMarked
<1>4. scheme \in FaxSchemes /\ Bilevel
  BY DEF RowsInv
<1>5. dec3'.refno = -1
  <2>1. dec3 \in DecoderRecords
    BY Stays
  <2> QED BY <1>1, <2>1 DEF DecoderRecords
<1>6. ~(dec3'.refno >= 0)
  BY <1>5
<1>7. DecodedTo(f[dec3.bp])'
  BY <1>2, <1>6 DEF DecodedTo
<1> QED BY <1>1, <1>2, <1>3, <1>4, <1>7, MarkedOn

\* Between two calls nothing is read.
LEMMA NothingRead ==
  ASSUME FaxInv, RowsInv, UNCHANGED <<stripVars, stream>>, dec3' = dec3,
         pc \in {"idle", "call"}, pc' \in {"idle", "call"}
  PROVE  RowsInv'
<1>1. pc \notin EncoderPcs /\ pc' \notin EncoderPcs /\ pc' \notin RowPcs /\ pc' \notin RunPcs
      /\ pc' \notin {"done", "fill"}
  BY NotEncoding DEF RowPcs, RunPcs
<1>2. PICK f : Marked(f)
  BY <1>1, BetweenMarked
<1>3. scheme \in FaxSchemes /\ Bilevel
  BY DEF RowsInv
<1>4. PICK d : d = dec3
  OBVIOUS
<1>5. scheme' = scheme /\ HasEol' = HasEol
  BY DEF HasEol, stripVars
<1>6. LineStart(d.refno + 1)' = LineStart(d.refno + 1)
      /\ RefRow(d.refno + 1)' = RefRow(d.refno + 1)
  BY RowsKept
<1>7. /\ pc \in {"idle", "call"} /\ d.refno >= 0 => f[d.bp] = LineStart(d.refno + 1)
      /\ scheme \in {"g32d", "g4"} /\ d.refno >= 0 => RefRight(d.refruns, RefRow(d.refno + 1))
  BY <1>2, <1>4 DEF Marked, DecodedTo
<1>8. dec3' = d
  BY <1>4
<1>9. dec3'.refno >= 0 => f[dec3'.bp] = LineStart(dec3.refno + 1)'
  <2>1. LineStart(dec3.refno + 1)' = LineStart(d.refno + 1)'
    BY <1>8
  <2> QED BY <1>5, <1>6, <1>7, <1>8, <2>1
<1>10. scheme' \in {"g32d", "g4"} /\ dec3'.refno >= 0 =>
         RefRight(dec3.refruns, RefRow(dec3.refno + 1))'
  <2>1. PICK r : r = RefRow(d.refno + 1)
    OBVIOUS
  <2>2. RefRow(dec3.refno + 1)' = r
    BY <1>6, <1>8, <2>1
  <2> QED BY <1>5, <1>7, <1>8, <2>1, <2>2 DEF RefRight
<1>11. DecodedTo(f[dec3.bp])'
  BY <1>1, <1>9, <1>10 DEF DecodedTo
<1> QED BY <1>1, <1>2, <1>3, <1>11, MarkedOn

LEMMA CallRows == FaxInv /\ RowsInv /\ (FaxAsk \/ FaxReturn) => RowsInv'
<1> SUFFICES ASSUME FaxInv, RowsInv, FaxAsk \/ FaxReturn PROVE RowsInv'
  OBVIOUS
<1>1. /\ pc \in {"idle", "call"} /\ pc' \in {"idle", "call"}
      /\ UNCHANGED <<stripVars, stream>> /\ dec3' = dec3
  BY DEF FaxAsk, FaxReturn, Ask, Finish, faxVars
<1> QED BY <1>1, NothingRead

LEMMA RowsUnchanged == FaxInv /\ RowsInv /\ UNCHANGED vars => RowsInv'
<1> SUFFICES ASSUME FaxInv, RowsInv, UNCHANGED vars PROVE RowsInv'
  OBVIOUS
<1>1. /\ UNCHANGED stripVars /\ given' = given /\ stream' = stream /\ pc' = pc
      /\ enc3' = enc3 /\ dec3' = dec3 /\ at' = at /\ scheme' = scheme /\ data' = data
      /\ UNCHANGED <<clientVars, damaged, whole>>
  BY DEF vars, codecVars, stripVars, clientVars, faxVars
<1>2. scheme \in FaxSchemes /\ Bilevel /\ scheme' \in FaxSchemes /\ Bilevel'
  BY <1>1, RowsKept DEF RowsInv
<1>3. CASE pc \in EncoderPcs
  <2>1. PICK s : Leads(LineStart(1), stream, s) /\ (pc # "sent" => EncodedTo(s))
    BY <1>3 DEF RowsInv
  <2>2. Leads(LineStart(1), stream, s)'
    <3>1. PICK u, l : u = stream /\ l = LineStart(1)
      OBVIOUS
    <3>2. Leads(l, u, s)'
      BY <1>1, <2>1, <3>1, WaysKept
    <3>3. LineStart(1)' = l
      BY <1>1, <3>1, RowsKept
    <3> QED BY <1>1, <3>1, <3>2, <3>3
  <2>3. pc # "sent" => EncodedTo(s)'
    <3>1. SUFFICES ASSUME EncodedTo(s) PROVE EncodedTo(s)'
      BY <2>1
    <3>2. Now' = Now /\ Coding2D' = Coding2D /\ A0Color' = A0Color
      BY <1>1 DEF Now, Coding2D, A0Color, ThisRow, Row
    <3>3. AtColor(s)' = AtColor(s)
      BY <1>1 DEF AtColor, First, Row
    <3>4. LineStart(Now)' = LineStart(Now) /\ RefRow(Now)' = RefRow(Now)
      BY <1>1, <3>2 DEF LineStart, HasEol, RefRow, Row, Spot
    <3> QED BY <1>1, <3>1, <3>2, <3>3, <3>4 DEF EncodedTo
  <2> QED BY <1>1, <1>2, <1>3, <2>2, <2>3 DEF RowsInv
<1>4. CASE pc \in {"idle", "call"}
  BY <1>1, <1>4, NothingRead
<1>5. CASE pc \in RowPcs
  <2>1. PICK f : Marked(f)
    BY <1>5, NotEncoding, BetweenMarked
  <2>2. FaxStep(at, dec3)
    BY <1>1 DEF FaxStep
  <2>3. /\ at.no # 0
        /\ at.no > 0 /\ pc' \in RunPcs => WithinRow(at, dec3, pc', f[dec3.bp])
        /\ at.no > 0 /\ pc' \in {"done", "fill"} => RowRead(at, f[dec3.bp])
    BY <1>1, <1>5, <2>1 DEF Marked, DecodedTo
  <2> QED BY <1>1, <1>2, <1>5, <2>1, <2>2, <2>3, RowGoesOn
<1> QED BY <1>3, <1>4, <1>5 DEF FaxInv, FaxStripOK, FaxPcs

LEMMA RowsNext == FaxInv /\ RowsInv /\ FaxNext => RowsInv'
BY StartLineRows, Encode1DRowRows, PassModeRows, VerticalModeRows, HorizontalModeRows,
   FaxPostEncodeRows, ArriveRows, CallRows, BeginRowRows, SyncRows, SyncFailsRows,
   Span1DRows, Code2DRows, SpanHorizRows, DataEndRows, CleanUpRows, FillRowRows, FillLastRowRows
   DEF FaxNext, FaxEncode, FaxDecode

\* The rows of the strips of the fax schemes are coded and decoded as RowsInv says.
FaxRowsSafe == scheme \in FaxSchemes => RowsInv

LEMMA RowsAlways == Spec => []FaxRowsSafe
<1>1. Init => FaxRowsSafe
  <2>1. ASSUME Init, scheme \in FaxSchemes PROVE FaxInit
    BY <2>1 DEF Init, FaxSchemes, PackBitsInit, LzwInit
  <2> QED BY <2>1, FaxInitRows DEF FaxRowsSafe
<1>2. FaxSafe /\ FaxRowsSafe /\ [Next]_vars => FaxRowsSafe'
  <2>1. SUFFICES ASSUME FaxSafe, FaxRowsSafe, [Next]_vars, scheme' \in FaxSchemes
                 PROVE  RowsInv'
    BY DEF FaxRowsSafe
  <2>2. scheme \in FaxSchemes /\ (FaxNext \/ UNCHANGED vars)
    BY <2>1, SchemeKept
  <2>3. FaxInv /\ RowsInv
    BY <2>1, <2>2 DEF FaxSafe, FaxRowsSafe
  <2> QED BY <2>2, <2>3, RowsNext, RowsUnchanged
<1> QED BY <1>1, <1>2, FaxAlways, PTL DEF Spec

-----------------------------------------------------------------------------
(***************************************************************************)
(* A stream that has arrived as it was sent is decoded to its end, each    *)
(* row of it by its own codes.                                             *)
(***************************************************************************)
\* The codes of the stream lead to the end of the strip.
LeadsOut == \E t : Leads(LineStart(1), stream, t) /\ AllCoded(t)

\* What the calls so far have given the client.
RowsGiven ==
  /\ dec3.refno * RowSize = taken + (IF pc = "idle" THEN 0 ELSE Len(buf))
  /\ pc # "idle" => buf = SubSeq(data, taken + 1, taken + Len(buf))
  /\ pc = "idle" /\ taken > 0 => buf = SubSeq(data, taken - asked + 1, taken)
RowAtHand == pc \notin {"eof", "fillLast"} /\ at.no = dec3.refno + 1 /\ InData(at.no)
Coming ==
  /\ LeadsOut /\ damaged = {} /\ ret = 1
  /\ dec3.EOLcnt = 0 /\ dec3.refno >= 0
  /\ RowsGiven
  /\ pc \in RowPcs => RowAtHand
RowsTrip ==
  /\ pc \in EncoderPcs => damaged = {} /\ ret = 1 /\ taken = 0
  /\ pc = "sent" => LeadsOut
  /\ pc \notin EncoderPcs /\ whole => Coming

\* A code leads to one spot.
LEMMA OneWayOn ==
  ASSUME NEW s \in Spots, NEW q, NEW t, NEW u, CodeFits(s, q, t), CodeFits(s, q, u)
  PROVE  t = u
<1>1. s.no \in Nat \ {0}
  BY SpotParts
<1>2. \A w : /\ MakesLonger(s, q, w) => q.type = "makeup"
             /\ EndsRun(s, q, w) => q.type = "term"
             /\ Compares(s, q, w) => q.type \in {"pass", "vert", "horiz"}
             /\ BeginsLine(s, q, w) => q.type = "eol" /\ q.n = s.no
             /\ EndsStrip(s, q, w) => q.type = "eol" /\ q.n = 0
  <2>1. \A w : BeginsLine(s, q, w) => q.type = "eol" /\ q.n = s.no
    BY DEF BeginsLine, EolCode
  <2>2. \A w : EndsStrip(s, q, w) => q.type = "eol" /\ q.n = 0
    BY DEF EndsStrip, EolCode
  <2> QED BY <2>1, <2>2, RightKinds
<1>3. CASE q.type = "makeup"
  <2>1. MakesLonger(s, q, t) /\ MakesLonger(s, q, u)
    BY <1>2, <1>3 DEF CodeFits
  <2>2. t = Spot(s.no, s.x + q.n, s.c, s.md)
    BY <2>1 DEF MakesLonger, MakeUpCode
  <2>3. u = Spot(s.no, s.x + q.n, s.c, s.md)
    BY <2>1 DEF MakesLonger, MakeUpCode
  <2> QED BY <2>2, <2>3
<1>4. CASE q.type = "term"
  <2> DEFINE end == IF s.md = "1D" THEN SpotTo(s.no, s.x + q.n, 1 - s.c, "1D")
                    ELSE IF s.md = "h1" THEN Spot(s.no, s.x + q.n, 1 - s.c, "h2")
                    ELSE SpotTo(s.no, s.x + q.n, 1 - s.c, "2D")
  <2>1. EndsRun(s, q, t) /\ EndsRun(s, q, u)
    BY <1>2, <1>4 DEF CodeFits
  <2>2. ASSUME NEW w, EndsRun(s, q, w) PROVE w = end
    <3>1. PICK n \in Lengths :
            /\ q = TermCode(s.c, n)
            /\ \/ s.md = "1D" /\ w = SpotTo(s.no, s.x + n, 1 - s.c, "1D")
               \/ s.md = "h1" /\ w = Spot(s.no, s.x + n, 1 - s.c, "h2")
               \/ s.md = "h2" /\ w = SpotTo(s.no, s.x + n, 1 - s.c, "2D")
      BY <2>2 DEF EndsRun
    <3>2. q.n = n
      BY <3>1 DEF TermCode
    <3> QED BY <3>1, <3>2
  <2> QED BY <2>1, <2>2
<1>5. CASE q.type \in {"pass", "vert", "horiz"}
  <2>1. Compares(s, q, t) /\ Compares(s, q, u)
    BY <1>2, <1>5 DEF CodeFits
  <2>2. ASSUME NEW w, Compares(s, q, w)
        PROVE  w = IF q.type = "pass" THEN Spot(s.no, RefChange2(s), s.c, "2D")
                   ELSE IF q.type = "vert" THEN SpotTo(s.no, NextChange(s), 1 - s.c, "2D")
                   ELSE Spot(s.no, s.x, s.c, "h1")
    <3>1. CASE Passes(s, q, w)
      BY <3>1 DEF Passes, PassCode
    <3>2. CASE GoesBy(s, q, w)
      BY <3>2 DEF GoesBy, VertCode
    <3>3. CASE TwoRuns(s, q, w)
      BY <3>3 DEF TwoRuns, HorizCode
    <3> QED BY <2>2, <3>1, <3>2, <3>3 DEF Compares
  <2> QED BY <2>1, <2>2
<1>6. CASE q.type = "eol"
  <2>1. BeginsLine(s, q, t) \/ EndsStrip(s, q, t)
    BY <1>2, <1>6 DEF CodeFits
  <2>2. BeginsLine(s, q, u) \/ EndsStrip(s, q, u)
    BY <1>2, <1>6 DEF CodeFits
  <2>3. CASE EndsStrip(s, q, t)
    <3>1. EndsStrip(s, q, u)
      BY <1>1, <1>2, <2>2, <2>3
    <3> QED BY <2>3, <3>1 DEF EndsStrip
  <2>4. CASE BeginsLine(s, q, t)
    <3>1. BeginsLine(s, q, u)
      BY <1>1, <1>2, <2>2, <2>4
    <3>2. \A w : BeginsLine(s, q, w) =>
                   w = Spot(s.no, 0, White, IF q.is1D THEN "1D" ELSE "2D")
      BY DEF BeginsLine, EolCode
    <3> QED BY <2>4, <3>1, <3>2
  <2> QED BY <2>1, <2>3, <2>4
<1> QED BY <1>2, <1>3, <1>4, <1>5, <1>6 DEF CodeFits

LEMMA SameWay ==
  ASSUME NEW f, NEW g, NEW codes \in Seq(FaxCodes), f[0] \in Spots, f[0] = g[0],
         Along(f, codes), Along(g, codes)
  PROVE  \A i \in 0..Len(codes) : f[i] = g[i]
<1> DEFINE S == {i \in 0..Len(codes) : f[i] # g[i]}
<1>1. Len(codes) \in Nat
  OBVIOUS
<1>2. CASE S # {}
  <2>1. S \in SUBSET Nat
    BY <1>1
  <2>2. PICK m \in S : \A k \in S : m <= k
    <3> HIDE DEF S
    <3> QED BY <1>2, <2>1, LeastOf
  <2>3. m \in 1..Len(codes) /\ m - 1 \in 0..Len(codes) /\ m - 1 < m
    BY <1>1, <2>2
  <2>4. f[m - 1] = g[m - 1] /\ f[m - 1] \in Spots
    <3>1. m - 1 \notin S
      <4> HIDE DEF S
      <4> QED BY <1>1, <2>2, <2>3
    <3> QED BY <2>3, <3>1, AlongSpots
  <2>5. CodeFits(f[m - 1], codes[m], f[m]) /\ CodeFits(g[m - 1], codes[m], g[m])
    BY <2>3 DEF Along
  <2> QED BY <2>2, <2>4, <2>5, OneWayOn
<1> QED BY <1>2

\* The way that the decoder goes ends beyond the last row.
LEMMA WayOut ==
  ASSUME FaxInv, RowsInv, pc \notin EncoderPcs, LeadsOut
  PROVE  /\ scheme \in FaxSchemes /\ Bilevel
         /\ \E f : /\ Marked(f) /\ \A i \in 0..Len(stream) : f[i] \in Spots
                   /\ AllCoded(f[Len(stream)])
<1>1. PICK f : Marked(f) /\ \A i \in 0..Len(stream) : f[i] \in Spots
  BY BetweenMarked
<1>2. PICK t : Leads(LineStart(1), stream, t) /\ AllCoded(t)
  BY DEF LeadsOut
<1>3. PICK g : g[0] = LineStart(1) /\ g[Len(stream)] = t /\ Along(g, stream)
  BY <1>2 DEF Leads
<1>4. stream \in Seq(FaxCodes) /\ Len(stream) \in Nat
  BY DEF FaxInv, FaxStripOK
<1>5. 0 \in 0..Len(stream) /\ Len(stream) \in 0..Len(stream)
  BY <1>4
<1>6. f[0] = g[0] /\ f[0] \in Spots /\ Along(f, stream)
  BY <1>1, <1>3, <1>5 DEF Marked
<1>7. f[Len(stream)] = g[Len(stream)]
  BY <1>3, <1>4, <1>5, <1>6, SameWay
<1> QED BY <1>1, <1>2, <1>3, <1>7 DEF RowsInv

-----------------------------------------------------------------------------
(***************************************************************************)
(* The stream is written, and arrives.                                     *)
(***************************************************************************)
LEMMA WayOutKept ==
  ASSUME UNCHANGED stripVars, LeadsOut, stream' = stream
  PROVE  LeadsOut'
<1>1. PICK t : Leads(LineStart(1), stream, t) /\ AllCoded(t)
  BY DEF LeadsOut
<1>2. PICK u : u = stream
  OBVIOUS
<1>3. PICK z : z = LineStart(1)
  OBVIOUS
<1>4. Leads(z, u, t)'
  BY <1>1, <1>2, <1>3, WaysKept
<1>5. z = LineStart(1)' /\ u = stream'
  BY <1>2, <1>3, RowsKept
<1>6. AllCoded(t)'
  BY <1>1, RowsKept DEF AllCoded
<1> QED BY <1>4, <1>5, <1>6 DEF LeadsOut

LEMMA FaxPostEncodeTrips ==
  FaxInv /\ RowsInv /\ RowsTrip /\ FaxPostEncode => RowsTrip'
<1> SUFFICES ASSUME FaxInv, RowsInv, RowsTrip, FaxPostEncode PROVE RowsTrip'
  OBVIOUS
<1>1. /\ pc = "line" /\ pc' = "sent" /\ UNCHANGED stripVars
      /\ ret' = ret /\ taken' = taken /\ damaged' = damaged
  BY DEF FaxPostEncode, clientVars
<1>2. PICK s, t : \E codes \in Seq(FaxCodes) :
        /\ Leads(LineStart(1), stream, s) /\ Leads(s, codes, t)
        /\ stream' = stream \o codes /\ AllCoded(t)
  BY StripEnds
<1>3. PICK codes \in Seq(FaxCodes) :
        /\ Leads(LineStart(1), stream, s) /\ Leads(s, codes, t)
        /\ stream' = stream \o codes
  BY <1>2
<1>4. Leads(LineStart(1), stream', t)
  <2>1. stream \in Seq(FaxCodes)
    BY EncoderIs
  <2>2. Leads(LineStart(1), stream \o codes, t)
    BY <1>3, <2>1, LeadsJoin
  <2> QED BY <1>3, <2>2
<1>5. LeadsOut'
  <2>1. PICK u : u = stream'
    OBVIOUS
  <2>2. PICK z : z = LineStart(1)
    OBVIOUS
  <2>3. Leads(z, u, t)'
    BY <1>1, <1>4, <2>1, <2>2, WaysKept
  <2>4. z = LineStart(1)'
    BY <1>1, <2>2, RowsKept
  <2>5. AllCoded(t)'
    BY <1>1, <1>2, RowsKept DEF AllCoded
  <2> QED BY <2>1, <2>3, <2>4, <2>5 DEF LeadsOut
<1> QED BY <1>1, <1>5 DEF RowsTrip, EncoderPcs

LEMMA EncodingTrips ==
  ASSUME RowsTrip,
         StartLine \/ Encode1DRow \/ PassMode \/ VerticalMode \/ HorizontalMode
  PROVE  RowsTrip'
<1>1. /\ pc \in {"line", "encode1D", "encode2D"} /\ pc' \in {"line", "encode1D", "encode2D"}
      /\ UNCHANGED clientVars /\ damaged' = damaged
  <2>1. CASE StartLine
    BY <2>1 DEF StartLine
  <2>2. CASE Encode1DRow
    BY <2>2 DEF Encode1DRow, PutCodes
  <2>3. CASE PassMode \/ VerticalMode \/ HorizontalMode
    BY <2>3 DEF PassMode, VerticalMode, HorizontalMode, PutCodes
  <2> QED BY <2>1, <2>2, <2>3
<1> QED BY <1>1 DEF RowsTrip, EncoderPcs, clientVars

LEMMA ArriveTrips == FaxInv /\ RowsTrip /\ Arrive => RowsTrip'
<1> SUFFICES ASSUME FaxInv, RowsTrip, Arrive PROVE RowsTrip'
  OBVIOUS
<1>1. /\ pc = "sent" /\ pc' = "idle" /\ UNCHANGED <<stripVars, clientVars>> /\ dec3' = dec3
      /\ (stream' = stream /\ damaged' = damaged) \/ ~whole'
  BY DEF Arrive
<1>2. pc \in EncoderPcs /\ pc' \notin EncoderPcs /\ pc' \notin RowPcs
  BY <1>1 DEF EncoderPcs, RowPcs, RunPcs
<1>3. dec3 = StartFaxDecoder
  BY <1>2 DEF FaxInv, FaxStripOK
<1>4. dec3'.EOLcnt = 0 /\ dec3'.refno = 0
  BY <1>1, <1>3 DEF StartFaxDecoder
<1>5. LeadsOut /\ damaged = {} /\ ret' = 1 /\ taken' = 0
  BY <1>1, <1>2 DEF RowsTrip, clientVars
<1>6. RowsGiven'
  <2>1. 0 * RowSize = 0 + 0
    BY CodecAssumption
  <2> QED BY <1>1, <1>4, <1>5, <2>1 DEF RowsGiven
<1>7. whole' => Coming'
  BY <1>1, <1>2, <1>4, <1>5, <1>6, WayOutKept DEF Coming
<1> QED BY <1>1, <1>2, <1>7 DEF RowsTrip

LEMMA FaxInitTrips ==
  ASSUME scheme \in FaxSchemes, FaxInit
  PROVE  RowsTrip
BY DEF FaxInit, CodecInit, RowsTrip, EncoderPcs

-----------------------------------------------------------------------------
(***************************************************************************)
(* The codes of the row at hand are read.                                  *)
(***************************************************************************)
LEMMA TripsOn ==
  ASSUME pc \notin EncoderPcs, pc' \notin EncoderPcs, whole' = whole,
         whole => Coming'
  PROVE  RowsTrip'
<1>1. pc' # "sent"
  BY DEF EncoderPcs
<1> QED BY <1>1 DEF RowsTrip

LEMMA RowTripsOn ==
  ASSUME Coming, pc \in {"call"} \cup RowPcs, NEW a, NEW d, FaxStep(a, d),
         a.no = dec3.refno + 1, InData(a.no),
         d.EOLcnt = 0, d.refno = dec3.refno,
         pc' \in RowPcs, pc' \notin {"eof", "fillLast"}
  PROVE  Coming'
<1>1. /\ UNCHANGED <<stripVars, clientVars>> /\ damaged' = damaged /\ stream' = stream
      /\ at' = a /\ dec3' = d
  BY DEF FaxStep
<1>2. /\ asked' = asked /\ buf' = buf /\ taken' = taken /\ ret' = ret /\ data' = data
  BY <1>1 DEF clientVars, stripVars
<1>3. pc # "idle" /\ pc' # "idle"
  BY DEF RowPcs, RunPcs
<1>4. LeadsOut'
  BY <1>1, WayOutKept DEF Coming
<1>5. RowsGiven'
  BY <1>1, <1>2, <1>3 DEF Coming, RowsGiven
<1>6. RowAtHand'
  <2>1. InData(a.no)'
    BY <1>1, RowsKept
  <2> QED BY <1>1, <2>1 DEF RowAtHand
<1> QED BY <1>1, <1>2, <1>4, <1>5, <1>6 DEF Coming

\* The number of a row is kept by what is done to it.
HasNo(a, n) == "no" \in DOMAIN a /\ a.no = n

LEMMA NoKept ==
  ASSUME NEW n, NEW a, HasNo(a, n)
  PROVE  /\ \A x : HasNo(SetValue(a, x), n)
         /\ HasNo(Dropped(a), n) /\ HasNo(Ended(a), n)
         /\ HasNo(CheckB1(a), n) /\ HasNo(NextRef(a), n) /\ HasNo(PreviousRef(a), n)
         /\ HasNo(Pass(a), n) /\ HasNo(WithoutEmpty(a), n)
         /\ \A x : HasNo([a EXCEPT !.left = x], n)
         /\ \A x, y : HasNo([a EXCEPT !.a0 = x, !.RunLength = y], n)
<1>1. \A x : HasNo(SetValue(a, x), n)
  BY NumberKept DEF HasNo
<1>2. HasNo(Dropped(a), n)
  BY NumberKept DEF HasNo
<1>3. HasNo(Ended(a), n)
  BY <1>1 DEF Ended
<1>4. HasNo(CheckB1(a), n)
  <2>1. \E x, y : CheckB1(a) = a \/ CheckB1(a) = [a EXCEPT !.b1 = x, !.pb = y]
    BY DEF CheckB1
  <2> QED BY <2>1, ZenonT(40) DEF HasNo
<1>5. HasNo(NextRef(a), n) /\ HasNo(PreviousRef(a), n)
  BY DEF NextRef, PreviousRef, HasNo
<1>6. HasNo(Pass(a), n)
  BY DEF Pass, HasNo
<1>7. HasNo(WithoutEmpty(a), n)
  BY DEF WithoutEmpty, HasNo
<1>8. ASSUME NEW x PROVE HasNo([a EXCEPT !.left = x], n)
  BY DEF HasNo
<1>9. ASSUME NEW x, NEW y PROVE HasNo([a EXCEPT !.a0 = x, !.RunLength = y], n)
  BY DEF HasNo
<1> QED BY <1>1, <1>2, <1>3, <1>4, <1>5, <1>6, <1>7, <1>8, <1>9

\* There is a code for what is left of a row.
LEMMA CodeComes ==
  ASSUME FaxInv, NEW f, Marked(f), AllCoded(f[Len(stream)]),
         InData(f[dec3.bp].no), f[dec3.bp].md # "over"
  PROVE  /\ ~AtEnd /\ dec3.bp + 1 \in 1..Len(stream)
         /\ CodeFits(f[dec3.bp], stream[dec3.bp + 1], f[dec3.bp + 1])
         /\ ~EndsStrip(f[dec3.bp], stream[dec3.bp + 1], f[dec3.bp + 1])
<1>1. dec3.bp \in Nat /\ dec3.bp <= Len(stream) /\ Len(stream) \in Nat
  BY Stays
<1>2. dec3.bp # Len(stream)
  BY DEF AllCoded
<1>3. PICK i \in 1..Len(stream) : i = dec3.bp + 1 /\ i - 1 = dec3.bp
  <2>1. dec3.bp + 1 \in 1..Len(stream) /\ (dec3.bp + 1) - 1 = dec3.bp
    BY <1>1, <1>2
  <2> QED BY <2>1
<1>4. CodeFits(f[i - 1], stream[i], f[i])
  BY DEF Marked, Along
<1>5. ~EndsStrip(f[dec3.bp], stream[dec3.bp + 1], f[dec3.bp + 1])
  <2>1. f[dec3.bp] # Over
    BY DEF Over, Spot
  <2> QED BY <2>1 DEF EndsStrip
<1> QED BY <1>2, <1>3, <1>4, <1>5 DEF AtEnd

\* It is one of those that the decoder looks for.
LEMMA RowCode ==
  ASSUME FaxInv, RowsInv, Coming, pc \in RunPcs
  PROVE  /\ ~AtEnd
         /\ pc = "2D" => /\ stream[dec3.bp + 1] \in MainTable
                         /\ stream[dec3.bp + 1].type \in {"pass", "vert", "horiz"}
         /\ pc # "2D" => /\ stream[dec3.bp + 1] \in SpanTable[Color(at)]
                         /\ stream[dec3.bp + 1].type \in {"makeup", "term"}
<1>1. pc \notin EncoderPcs /\ pc \in RowPcs /\ LeadsOut
  BY NotEncoding DEF RowPcs, Coming
<1>2. PICK f : Marked(f) /\ AllCoded(f[Len(stream)])
  BY <1>1, WayOut
<1>3. at.no = dec3.refno + 1 /\ InData(at.no) /\ dec3.refno >= 0 /\ dec3.refno \in Int
  BY <1>1, Stays DEF Coming, RowAtHand, DecoderRecords
<1>4. at.no > 0
  BY <1>3
<1>5. PICK s : s = f[dec3.bp]
  OBVIOUS
<1>6. s = SpotOf(at, pc)
  BY <1>2, <1>4, <1>5 DEF Marked, DecodedTo, WithinRow
<1>7. /\ s.no = at.no /\ s.c = Color(at)
      /\ pc = "2D" => s.md = "2D"
      /\ pc # "2D" => s.md \in {"1D", "h1", "h2"}
      /\ s.md \notin {"over", "line"}
  BY <1>6, SpotIsAt DEF RunPcs
<1>8. PICK q, t : q = stream[dec3.bp + 1] /\ t = f[dec3.bp + 1]
  OBVIOUS
<1>9. ~AtEnd /\ CodeFits(s, q, t) /\ ~EndsStrip(s, q, t)
  BY <1>2, <1>3, <1>5, <1>7, <1>8, CodeComes
<1>10. MakesLonger(s, q, t) \/ EndsRun(s, q, t) \/ Compares(s, q, t)
  BY <1>7, <1>9 DEF CodeFits, BeginsLine
<1>11. CASE pc = "2D"
  <2>1. Compares(s, q, t)
    BY <1>7, <1>10, <1>11, RightKinds
  <2>2. q.type \in {"pass", "vert", "horiz"}
    BY <2>1, RightKinds
  <2>3. q \in MainTable
    <3>1. CASE Passes(s, q, t)
      BY <3>1 DEF Passes, MainTable
    <3>2. CASE GoesBy(s, q, t)
      BY <3>2 DEF GoesBy, MainTable
    <3>3. CASE TwoRuns(s, q, t)
      BY <3>3 DEF TwoRuns, MainTable
    <3> QED BY <2>1, <3>1, <3>2, <3>3 DEF Compares
  <2> QED BY <1>8, <1>9, <1>11, <2>2, <2>3
<1>12. CASE pc # "2D"
  <2>1. MakesLonger(s, q, t) \/ EndsRun(s, q, t)
    BY <1>7, <1>10, <1>12, RightKinds
  <2>2. q.type \in {"makeup", "term"}
    BY <2>1, RightKinds
  <2>3. Color(at) \in {White, Black}
    <3>1. at.pa \in Nat
      BY DEF FaxInv, FaxRowOK, RowType
    <3> QED BY <3>1, Parity DEF Color, White, Black
  <2>4. SpanTable[Color(at)] = {TermCode(Color(at), n) : n \in Lengths}
          \cup {MakeUpCode(Color(at), n) : n \in MakeUps} \cup {EolCode(TRUE, 0), NullCode}
    BY <2>3 DEF SpanTable
  <2>5. q \in SpanTable[Color(at)]
    <3>1. CASE MakesLonger(s, q, t)
      BY <1>7, <2>4, <3>1 DEF MakesLonger
    <3>2. CASE EndsRun(s, q, t)
      BY <1>7, <2>4, <3>2 DEF EndsRun
    <3> QED BY <2>1, <3>1, <3>2
  <2> QED BY <1>8, <1>9, <1>12, <2>2, <2>5
<1> QED BY <1>11, <1>12

LEMMA LookupIs ==
  ASSUME damaged = {}, NEW table, stream[dec3.bp + 1] \in table, NEW l \in Lookup(table)
  PROVE  l.at = at /\ l.code = stream[dec3.bp + 1]
BY DEF Lookup, Readings, IsOf

LEMMA DecoderReads ==
  ASSUME FaxInv, Coming, NEW read
  PROVE  Consumed(read).EOLcnt = 0 /\ Consumed(read).refno = dec3.refno
<1>1. Consumed(read).EOLcnt = dec3.EOLcnt
  BY Stays DEF DecoderRecords, Consumed
<1> QED BY <1>1, ConsumedKeeps DEF Coming

LEMMA RowKnown ==
  ASSUME FaxInv, Coming, pc \in RowPcs
  PROVE  HasNo(at, at.no) /\ at.no = dec3.refno + 1 /\ InData(at.no) /\ pc \notin EncoderPcs
<1>1. at \in RowType
  BY DEF FaxInv, FaxRowOK
<1> QED BY <1>1, NotEncoding DEF HasNo, RowType, Coming, RowAtHand

LEMMA Span1DTrips == FaxInv /\ RowsInv /\ Coming /\ Span1D => Coming'
<1> SUFFICES ASSUME FaxInv, RowsInv, Coming, Span1D PROVE Coming'
  OBVIOUS
<1>1. pc = "1D" /\ pc \in RunPcs /\ pc \in RowPcs
  BY DEF Span1D, RunPcs, RowPcs
<1>2. PICK l \in Lookup(SpanTable[Color(at)]) : Expand1D(l.code, l.at)
  BY DEF Span1D
<1>3. l.at = at /\ l.code.type \in {"makeup", "term"}
  BY <1>1, <1>2, RowCode, LookupIs DEF Coming
<1>4. HasNo(at, at.no) /\ at.no = dec3.refno + 1 /\ InData(at.no)
  BY <1>1, RowKnown
<1>5. PICK read, n, d : read = l.code /\ n = at.no /\ d = Consumed(read)
  OBVIOUS
<1>6. d.EOLcnt = 0 /\ d.refno = dec3.refno
  BY <1>5, DecoderReads
<1>7. \E a : FaxStep(a, d) /\ HasNo(a, n) /\ pc' \in {"1D", "done"}
  <2>1. Expand1D(read, at)
    BY <1>2, <1>3, <1>5
  <2>2. CASE MakeUpRead(read, at)
    BY <1>1, <1>4, <1>5, <2>2, NoKept DEF MakeUpRead
  <2>3. CASE read.type = "term"
    <3>1. PICK b : b = SetValue(at, read.n)
      OBVIOUS
    <3>2. HasNo(b, n) /\ HasNo(WithoutEmpty(b), n)
      BY <1>4, <1>5, <3>1, NoKept
    <3>3. \/ pc' = "done" /\ FaxStep(b, d)
          \/ pc' = pc /\ FaxStep(WithoutEmpty(b), d)
      BY <1>5, <2>1, <2>3, <3>1 DEF Expand1D, MakeUpRead, RowDone
    <3> QED BY <1>1, <3>2, <3>3
  <2> QED BY <1>3, <1>5, <2>1, <2>2, <2>3 DEF Expand1D
<1>8. pc' \in RowPcs /\ pc' \notin {"eof", "fillLast"}
  BY <1>7 DEF RowPcs, RunPcs
<1> QED BY <1>1, <1>4, <1>5, <1>6, <1>7, <1>8, RowTripsOn DEF HasNo

LEMMA Code2DTrips == FaxInv /\ RowsInv /\ Coming /\ Code2D => Coming'
<1> SUFFICES ASSUME FaxInv, RowsInv, Coming, Code2D PROVE Coming'
  OBVIOUS
<1>1. pc = "2D" /\ pc \in RunPcs /\ pc \in RowPcs
  BY DEF Code2D, RunPcs, RowPcs
<1>2. PICK l \in Lookup(MainTable) : Expand2D(l.code, l.at)
  BY DEF Code2D
<1>3. l.at = at /\ l.code.type \in {"pass", "vert", "horiz"}
  BY <1>1, <1>2, RowCode, LookupIs DEF Coming
<1>4. HasNo(at, at.no) /\ at.no = dec3.refno + 1 /\ InData(at.no)
  BY <1>1, RowKnown
<1>5. PICK read, n, d : read = l.code /\ n = at.no /\ d = Consumed(read)
  OBVIOUS
<1>6. d.EOLcnt = 0 /\ d.refno = dec3.refno
  BY <1>5, DecoderReads
<1>7. Expand2D(read, at)
  BY <1>2, <1>3, <1>5
<1>8. PICK b : b = CheckB1(at)
  OBVIOUS
<1>9. HasNo(b, n)
  BY <1>4, <1>5, <1>8, NoKept
<1>10. \E a : FaxStep(a, d) /\ HasNo(a, n) /\ pc' \in {"2D", "horiz", "done"}
  <2>1. CASE read.type = "pass"
    <3>1. PICK c : c = NextRef(b)
      OBVIOUS
    <3>2. Next2D(NextRef(Pass(c)), d)
      BY <1>5, <1>7, <1>8, <2>1, <3>1 DEF Expand2D
    <3>3. HasNo(c, n)
      BY <1>9, <3>1, NoKept
    <3>4. HasNo(Pass(c), n)
      BY <3>3, NoKept
    <3>5. HasNo(NextRef(Pass(c)), n)
      BY <3>4, NoKept
    <3> QED BY <3>2, <3>5 DEF Next2D
  <2>2. CASE read.type = "horiz"
    <3>1. pc' = "horiz" /\ FaxStep([at EXCEPT !.left = 2], d)
      BY <1>5, <1>7, <2>2 DEF Expand2D
    <3> QED BY <1>4, <1>5, <3>1, NoKept
  <2>3. CASE read.type = "vert"
    <3>1. Vertical(read, b)
      BY <1>7, <1>8, <2>3 DEF Expand2D
    <3>2. PICK c : c = Change(b, read.n)
      OBVIOUS
    <3>3. HasNo(c, n)
      BY <1>9, <3>2, NoKept DEF Change
    <3>4. HasNo(NextRef(c), n) /\ HasNo(PreviousRef(c), n)
      BY <3>3, NoKept
    <3>5. Next2D(NextRef(c), d) \/ Next2D(PreviousRef(c), d) \/ RowDone(b, d)
      BY <1>5, <3>1, <3>2 DEF Vertical
    <3> QED BY <1>9, <3>4, <3>5 DEF Next2D, RowDone
  <2> QED BY <1>3, <1>5, <2>1, <2>2, <2>3
<1>11. pc' \in RowPcs /\ pc' \notin {"eof", "fillLast"}
  BY <1>10 DEF RowPcs, RunPcs
<1> QED BY <1>1, <1>4, <1>5, <1>6, <1>10, <1>11, RowTripsOn DEF HasNo

LEMMA SpanHorizTrips == FaxInv /\ RowsInv /\ Coming /\ SpanHoriz => Coming'
<1> SUFFICES ASSUME FaxInv, RowsInv, Coming, SpanHoriz PROVE Coming'
  OBVIOUS
<1>1. pc = "horiz" /\ pc \in RunPcs /\ pc \in RowPcs
  BY DEF SpanHoriz, RunPcs, RowPcs
<1>2. PICK l \in Lookup(SpanTable[Color(at)]) : ExpandHoriz(l.code, l.at)
  BY DEF SpanHoriz
<1>3. l.at = at /\ l.code.type \in {"makeup", "term"}
  BY <1>1, <1>2, RowCode, LookupIs DEF Coming
<1>4. HasNo(at, at.no) /\ at.no = dec3.refno + 1 /\ InData(at.no)
  BY <1>1, RowKnown
<1>5. PICK read, n, d : read = l.code /\ n = at.no /\ d = Consumed(read)
  OBVIOUS
<1>6. d.EOLcnt = 0 /\ d.refno = dec3.refno
  BY <1>5, DecoderReads
<1>7. ExpandHoriz(read, at)
  BY <1>2, <1>3, <1>5
<1>8. \E a : FaxStep(a, d) /\ HasNo(a, n) /\ pc' \in {"2D", "horiz", "done"}
  <2>1. CASE MakeUpRead(read, at)
    BY <1>1, <1>4, <1>5, <2>1, NoKept DEF MakeUpRead
  <2>2. CASE read.type = "term"
    <3>1. PICK c : c = SetValue(at, read.n)
      OBVIOUS
    <3>2. PICK b : b = [c EXCEPT !.left = @ - 1]
      OBVIOUS
    <3>3. HasNo(c, n)
      BY <1>4, <1>5, <3>1, NoKept
    <3>4. HasNo(b, n)
      BY <3>2, <3>3 DEF HasNo
    <3>5. HasNo(CheckB1(b), n)
      BY <3>4, NoKept
    <3>6. \/ pc' = pc /\ FaxStep(b, d)
          \/ Next2D(CheckB1(b), d)
      BY <1>5, <1>7, <2>2, <3>1, <3>2 DEF ExpandHoriz, MakeUpRead
    <3> QED BY <1>1, <3>4, <3>5, <3>6 DEF Next2D
  <2> QED BY <1>3, <1>5, <1>7, <2>1, <2>2 DEF ExpandHoriz
<1>9. pc' \in RowPcs /\ pc' \notin {"eof", "fillLast"}
  BY <1>8 DEF RowPcs, RunPcs
<1> QED BY <1>1, <1>4, <1>5, <1>6, <1>8, <1>9, RowTripsOn DEF HasNo

LEMMA CleanUpTrips == FaxInv /\ Coming /\ CleanUp => Coming'
<1> SUFFICES ASSUME FaxInv, Coming, CleanUp PROVE Coming'
  OBVIOUS
<1>1. pc \in {"done", "eof"} /\ pc \in RowPcs /\ pc' = IF pc = "done" THEN "fill" ELSE "fillLast"
  BY DEF CleanUp, RowPcs
<1>2. pc = "done" /\ pc' = "fill"
  BY <1>1 DEF Coming, RowAtHand
<1>3. HasNo(at, at.no) /\ at.no = dec3.refno + 1 /\ InData(at.no)
  BY <1>1, RowKnown
<1>4. PICK n : n = at.no
  OBVIOUS
<1>5. PICK d : d = Dropped(Ended(at))
  OBVIOUS
<1>6. HasNo(d, n)
  <2>1. HasNo(Ended(at), n)
    BY <1>3, <1>4, NoKept
  <2> QED BY <1>5, <2>1, NoKept
<1>7. HasNo(Filled(d), n)
  <2>1. HasNo(SetValue(d, 0), n)
    BY <1>6, NoKept
  <2>2. PICK c : c = IF d.pa % 2 = 1 THEN SetValue(d, 0) ELSE d
    OBVIOUS
  <2>3. HasNo(c, n)
    BY <1>6, <2>1, <2>2
  <2>4. Filled(d) = SetValue(c, lastx - d.a0)
    BY <2>2 DEF Filled
  <2> QED BY <2>3, <2>4, NoKept
<1>8. HasNo(OnlyRun(d), n)
  <2>1. HasNo(SetValue(d, lastx), n)
    BY <1>6, NoKept
  <2> QED BY <2>1, NoKept DEF OnlyRun
<1>9. PICK a : FaxStep(a, dec3) /\ HasNo(a, n)
  <2>1. FaxStep(Filled(d), dec3) \/ FaxStep(OnlyRun(d), dec3) \/ FaxStep(d, dec3)
    BY <1>5 DEF CleanUp
  <2> QED BY <1>6, <1>7, <1>8, <2>1
<1>10. dec3.EOLcnt = 0 /\ pc' \in RowPcs
  BY <1>2 DEF Coming, RowPcs
<1> QED BY <1>1, <1>2, <1>3, <1>4, <1>9, <1>10, RowTripsOn DEF HasNo

\* The data do not end within a row.
LEMMA DataEndTrips == ~(FaxInv /\ RowsInv /\ Coming /\ DataEnd)
BY RowCode DEF DataEnd, RunPcs

-----------------------------------------------------------------------------
(***************************************************************************)
(* Rows, and calls.                                                        *)
(***************************************************************************)
LEMMA RowIsThere ==
  ASSUME FaxInv, Coming, pc = "call", occ > 0
  PROVE  /\ InData(dec3.refno + 1) /\ dec3.refno \in Nat
         /\ NextNo = dec3.refno + 1 /\ pc \notin EncoderPcs
<1>1. /\ StripSize = Len(data) /\ StripSize \in Nat /\ taken + asked <= StripSize
  BY DEF FaxInv, FaxStripOK, FaxClientOK, StripSize
<1>2. /\ asked \in Nat /\ taken \in Nat /\ Len(buf) \in Nat
      /\ Len(buf) + RowSize <= asked
  BY Client, Asking, RowsAdded
<1>3. dec3.refno \in Nat /\ dec3.refno * RowSize = taken + Len(buf)
  BY Stays DEF Coming, RowsGiven, DecoderRecords
<1>4. RowSize \in Nat
  BY CodecAssumption
<1>5. (dec3.refno + 1) * RowSize = dec3.refno * RowSize + RowSize
  BY <1>3, RowsTimes, dec3.refno < dec3.refno + 1, dec3.refno + 1 \in Nat
<1>6. (dec3.refno + 1) * RowSize <= Len(data)
  <2>1. PICK m \in Nat : m = (dec3.refno + 1) * RowSize
    BY <1>3, <1>4
  <2>2. m = (taken + Len(buf)) + RowSize
    BY <1>3, <1>5, <2>1
  <2> QED BY <1>1, <1>2, <1>4, <2>1, <2>2
<1> QED BY <1>3, <1>6, NotEncoding DEF InData, NextNo

LEMMA BeginRowTrips == FaxInv /\ Coming /\ BeginRow => Coming'
<1> SUFFICES ASSUME FaxInv, Coming, BeginRow PROVE Coming'
  OBVIOUS
<1>1. pc = "call" /\ occ > 0 /\ FaxStep(NewRow(NextNo), dec3) /\ pc' \in {"1D", "2D"}
  BY DEF BeginRow
<1>2. InData(dec3.refno + 1) /\ NextNo = dec3.refno + 1
  BY <1>1, RowIsThere
<1>3. NewRow(NextNo).no = NextNo
  BY DEF NewRow, StartFaxRow
<1>4. pc' \in RowPcs /\ pc' \notin {"eof", "fillLast"} /\ dec3.EOLcnt = 0
  BY <1>1 DEF RowPcs, RunPcs, Coming
<1> QED BY <1>1, <1>2, <1>3, <1>4, RowTripsOn

\* The next code is the EOL of the next row.
LEMMA EolComes ==
  ASSUME FaxInv, RowsInv, Coming, pc = "call", occ > 0, HasEol
  PROVE  /\ dec3.bp + 1 \in 1..Len(stream) /\ IsEol(dec3.bp + 1)
         /\ stream[dec3.bp + 1].n = dec3.refno + 1
<1>1. /\ InData(dec3.refno + 1) /\ dec3.refno \in Nat /\ pc \notin EncoderPcs
  BY RowIsThere
<1>2. PICK f : Marked(f) /\ AllCoded(f[Len(stream)])
  BY <1>1, WayOut DEF Coming
<1>3. f[dec3.bp] = LineStart(dec3.refno + 1)
  BY <1>1, <1>2 DEF Marked, DecodedTo
<1>4. PICK s : s = f[dec3.bp]
  OBVIOUS
<1>5. s.no = dec3.refno + 1 /\ s.md = "line"
  BY <1>3, <1>4 DEF LineStart, Spot
<1>6. PICK q, t : q = stream[dec3.bp + 1] /\ t = f[dec3.bp + 1]
  OBVIOUS
<1>7. dec3.bp + 1 \in 1..Len(stream) /\ CodeFits(s, q, t) /\ ~EndsStrip(s, q, t)
  BY <1>1, <1>2, <1>4, <1>5, <1>6, CodeComes
<1>8. BeginsLine(s, q, t)
  BY <1>5, <1>7, RightKinds DEF CodeFits
<1>9. q.type = "eol" /\ q.n = s.no
  BY <1>8 DEF BeginsLine, EolCode
<1> QED BY <1>5, <1>6, <1>7, <1>9 DEF IsEol, Coming

LEMMA SyncTrips == FaxInv /\ RowsInv /\ Coming /\ Sync => Coming'
<1> SUFFICES ASSUME FaxInv, RowsInv, Coming, Sync PROVE Coming'
  OBVIOUS
<1>1. pc = "call" /\ occ > 0 /\ HasEol
  BY DEF Sync
<1>2. /\ InData(dec3.refno + 1) /\ NextNo = dec3.refno + 1
  BY <1>1, RowIsThere
<1>3. /\ dec3.bp + 1 \in 1..Len(stream) /\ IsEol(dec3.bp + 1)
      /\ stream[dec3.bp + 1].n = dec3.refno + 1
  BY <1>1, EolComes
<1>4. dec3 \in DecoderRecords /\ dec3.bp \in Nat /\ Len(stream) \in Nat
  BY Stays
<1>5. PICK i \in EolToUse : \E is1D \in Tags(i) :
        /\ pc' = IF is1D THEN "1D" ELSE "2D"
        /\ LET known == IsEol(i) /\ (is1D \/ stream[i].n = NextNo)
           IN  FaxStep(NewRow(IF known THEN stream[i].n ELSE -1),
                       [dec3 EXCEPT !.EOLcnt = 0, !.bp = i,
                                    !.seen = IF IsEol(i) THEN @ \cup {stream[i].n} ELSE @])
  BY DEF Sync
<1>6. i = dec3.bp + 1
  <2>1. i \in (dec3.bp + 1)..Len(stream) /\ \A j \in (dec3.bp + 1)..(i - 1) : ~IsEol(j)
    BY <1>5 DEF EolToUse, Candidates, Coming
  <2>2. PICK m \in Nat : m = dec3.bp + 1
    BY <1>4
  <2>3. i \in m..Len(stream) /\ m \notin m..(i - 1)
    BY <1>3, <2>1, <2>2
  <2> QED BY <1>4, <2>2, <2>3
<1>7. PICK n : n = dec3.refno + 1
  OBVIOUS
<1>8. PICK d : d = [dec3 EXCEPT !.EOLcnt = 0, !.bp = i,
                      !.seen = IF IsEol(i) THEN @ \cup {stream[i].n} ELSE @]
  OBVIOUS
<1>9. d.EOLcnt = 0 /\ d.refno = dec3.refno
  BY <1>4, <1>8 DEF DecoderRecords
<1>10. FaxStep(NewRow(n), d) /\ pc' \in {"1D", "2D"}
  BY <1>2, <1>3, <1>5, <1>6, <1>7, <1>8
<1>11. NewRow(n).no = n
  BY DEF NewRow, StartFaxRow
<1>12. pc' \in RowPcs /\ pc' \notin {"eof", "fillLast"}
  BY <1>10 DEF RowPcs, RunPcs
<1> QED BY <1>1, <1>2, <1>7, <1>9, <1>10, <1>11, <1>12, RowTripsOn

LEMMA SyncFailsTrips == ~(FaxInv /\ RowsInv /\ Coming /\ SyncFails)
<1> SUFFICES ASSUME FaxInv, RowsInv, Coming, SyncFails PROVE FALSE
  OBVIOUS
<1>1. pc = "call" /\ occ > 0 /\ HasEol
  BY DEF SyncFails
<1>2. dec3.bp + 1 \in 1..Len(stream) /\ IsEol(dec3.bp + 1)
  BY <1>1, EolComes
<1>3. dec3.bp + 1 \in (dec3.bp + 1)..Len(stream)
  BY <1>2, Stays
<1> QED BY <1>2, <1>3 DEF SyncFails, Coming

LEMMA JoinedParts ==
  ASSUME NEW S, NEW s \in Seq(S), NEW t \in Seq(S)
  PROVE  /\ s \o t \in Seq(S) /\ Len(s) \in Nat /\ Len(t) \in Nat /\ Len(s \o t) = Len(s) + Len(t)
         /\ \A i \in 1..Len(s) : (s \o t)[i] = s[i]
         /\ \A i \in 1..Len(t) : (s \o t)[Len(s) + i] = t[i]
OBVIOUS

\* A part of a sequence, and the part after it.
LEMMA PartsJoin ==
  ASSUME NEW S, NEW s \in Seq(S), NEW m \in Nat, NEW n \in Nat, NEW k \in Nat,
         (m + n) + k <= Len(s)
  PROVE  SubSeq(s, m + 1, m + n) \o SubSeq(s, (m + n) + 1, (m + n) + k)
           = SubSeq(s, m + 1, (m + n) + k)
<1> DEFINE a == SubSeq(s, m + 1, m + n)
           b == SubSeq(s, (m + n) + 1, (m + n) + k)
           c == SubSeq(s, m + 1, (m + n) + k)
<1>1. Len(s) \in Nat
  OBVIOUS
<1>2. /\ a \in Seq(S) /\ Len(a) = n /\ \A i \in 1..n : a[i] = s[m + i]
  BY <1>1
<1>3. /\ b \in Seq(S) /\ Len(b) = k /\ \A i \in 1..k : b[i] = s[(m + n) + i]
  BY <1>1
<1>4. /\ c \in Seq(S) /\ Len(c) = n + k /\ \A i \in 1..(n + k) : c[i] = s[m + i]
  BY <1>1
<1> HIDE DEF a, b, c
<1>5. /\ a \o b \in Seq(S) /\ Len(a \o b) = n + k
      /\ \A i \in 1..n : (a \o b)[i] = a[i]
      /\ \A i \in 1..k : (a \o b)[n + i] = b[i]
  <2>1. /\ a \o b \in Seq(S) /\ Len(a \o b) = Len(a) + Len(b)
        /\ \A i \in 1..Len(a) : (a \o b)[i] = a[i]
        /\ \A i \in 1..Len(b) : (a \o b)[Len(a) + i] = b[i]
    <3>1. a \in Seq(S) /\ b \in Seq(S)
      BY <1>2, <1>3
    <3> QED BY <3>1, JoinedParts, SMTT(30)
  <2> QED BY <1>2, <1>3, <2>1
<1> DEFINE u == a \o b
<1> HIDE DEF u
<1>6. /\ u \in Seq(S) /\ Len(u) = n + k
      /\ \A i \in 1..n : u[i] = a[i]
      /\ \A i \in 1..k : u[n + i] = b[i]
  BY <1>5 DEF u
<1>7. ASSUME NEW i \in 1..(n + k) PROVE u[i] = c[i]
  <2>1. CASE i <= n
    <3>1. i \in 1..n
      BY <2>1
    <3> QED BY <1>2, <1>4, <1>6, <3>1
  <2>2. CASE i > n
    <3>1. PICK j \in 1..k : i = n + j
      <4>1. i - n \in 1..k /\ i = n + (i - n)
        BY <2>2
      <4> QED BY <4>1
    <3>2. (m + n) + j = m + i
      BY <3>1
    <3>3. u[i] = b[j] /\ b[j] = s[(m + n) + j] /\ c[i] = s[m + i]
      BY <1>3, <1>4, <1>6, <3>1
    <3> QED BY <3>2, <3>3
  <2> QED BY <2>1, <2>2
<1>8. u = c
  <2>1. u = [i \in 1..(n + k) |-> u[i]] /\ c = [i \in 1..(n + k) |-> c[i]]
    BY <1>4, <1>6
  <2> QED BY <1>7, <2>1
<1> QED BY <1>8 DEF u, a, b, c

LEMMA FillRowTrips == FaxInv /\ RowsInv /\ Coming /\ FillRow => Coming'
<1> SUFFICES ASSUME FaxInv, RowsInv, Coming, FillRow PROVE Coming'
  OBVIOUS
<1> DEFINE next == [dec3 EXCEPT !.line = @ + 1, !.refno = at.no]
           d == IF scheme \in {"rle", "g3"} THEN [next EXCEPT !.curruns = FillRuns(at)]
                ELSE [next EXCEPT !.curruns = dec3.refruns, !.refruns = EndMark(at)]
<1>1. /\ pc = "fill" /\ pc' = "call" /\ buf' = buf \o Pixels(at) /\ dec3' = d
      /\ UNCHANGED <<stripVars, stream, taken, ret, damaged>>
  BY DEF FillRow
<1>2. d.EOLcnt = 0 /\ d.refno = at.no
  <2>1. dec3 \in DecoderRecords
    BY Stays
  <2>2. next.EOLcnt = dec3.EOLcnt /\ next.refno = at.no /\ DOMAIN next = DOMAIN dec3
    BY <2>1 DEF DecoderRecords
  <2> HIDE DEF next
  <2>3. d.EOLcnt = next.EOLcnt /\ d.refno = next.refno
    OBVIOUS
  <2> QED BY <2>2, <2>3 DEF Coming
<1> HIDE DEF d, next
<1>3. pc \in RowPcs /\ pc' \notin RowPcs
  BY <1>1 DEF RowPcs, RunPcs
<1>4. at.no = dec3.refno + 1 /\ InData(at.no) /\ dec3.refno \in Nat
  BY <1>3, RowKnown, Stays DEF Coming, DecoderRecords
<1>5. Pixels(at) = Row(at.no)
  <2>1. at.no > 0
    BY <1>4
  <2> QED BY <1>1, <2>1, FilledRight, PixelsRight DEF RowsInv
<1>6. /\ taken \in Nat /\ Len(buf) \in Nat /\ RowSize \in Nat /\ Len(data) \in Nat
      /\ data \in Seq({White, Black})
  <2>1. taken \in Nat /\ IsSeq(buf)
    BY Client
  <2>2. Len(buf) \in Nat
    BY <2>1, SeqsJoined
  <2>3. RowSize \in Nat
    BY CodecAssumption
  <2>4. data \in Seq({White, Black})
    BY <1>4 DEF Coming, RowsInv, Bilevel
  <2>5. Len(data) \in Nat
    BY <2>4
  <2> QED BY <2>1, <2>2, <2>3, <2>4, <2>5
<1>7. PICK m \in Nat : m = dec3.refno * RowSize
  BY <1>4, <1>6
<1>8. m = taken + Len(buf) /\ buf = SubSeq(data, taken + 1, taken + Len(buf))
  BY <1>1, <1>7 DEF Coming, RowsGiven
<1>9. at.no * RowSize = m + RowSize /\ (at.no - 1) * RowSize = m
  <2>1. (dec3.refno + 1) * RowSize = dec3.refno * RowSize + RowSize
    BY <1>4, RowsTimes, dec3.refno < dec3.refno + 1, dec3.refno + 1 \in Nat
  <2>2. at.no - 1 = dec3.refno
    BY <1>4
  <2> QED BY <1>4, <1>7, <2>1, <2>2
<1>10. Row(at.no) = SubSeq(data, m + 1, m + RowSize) /\ m + RowSize <= Len(data)
  BY <1>4, <1>9 DEF Row, InData
<1>11. buf' = SubSeq(data, taken + 1, (taken + Len(buf)) + RowSize)
  <2>1. PICK k \in Nat : k = Len(buf)
    BY <1>6
  <2>2. PICK w \in Nat, r \in Nat : w = taken /\ r = RowSize
    BY <1>6
  <2>3. (w + k) + r <= Len(data)
    BY <1>8, <1>10, <2>1, <2>2
  <2>4. SubSeq(data, w + 1, w + k) \o SubSeq(data, (w + k) + 1, (w + k) + r)
          = SubSeq(data, w + 1, (w + k) + r)
    BY <1>6, <2>3, PartsJoin
  <2> QED BY <1>1, <1>5, <1>8, <1>10, <2>1, <2>2, <2>4
<1>12. Len(buf') = Len(buf) + RowSize
  BY <1>1, Client, PixelsAre, SeqsJoined
<1>13. RowsGiven'
  <2>1. taken' = taken /\ data' = data /\ dec3'.refno = at.no
    BY <1>1, <1>2 DEF stripVars
  <2>2. taken + Len(buf') = (taken + Len(buf)) + RowSize
    BY <1>6, <1>12
  <2>3. dec3'.refno * RowSize = taken + Len(buf')
    BY <1>8, <1>9, <2>1, <2>2
  <2>4. buf' = SubSeq(data, taken + 1, taken + Len(buf'))
    BY <1>11, <2>2
  <2> QED BY <1>1, <2>1, <2>3, <2>4 DEF RowsGiven
<1>14. LeadsOut' /\ dec3'.EOLcnt = 0 /\ dec3'.refno >= 0 /\ damaged' = {} /\ ret' = 1
  BY <1>1, <1>2, <1>4, WayOutKept DEF Coming
<1> QED BY <1>3, <1>13, <1>14 DEF Coming

LEMMA FillLastRowTrips == ~(FaxInv /\ Coming /\ FillLastRow)
BY DEF FillLastRow, Coming, RowAtHand, EndsBlock, RowPcs

LEMMA FaxAskTrips == FaxInv /\ Coming /\ FaxAsk => Coming'
<1> SUFFICES ASSUME FaxInv, Coming, FaxAsk PROVE Coming'
  OBVIOUS
<1>1. /\ pc = "idle" /\ pc' = "call" /\ buf' = <<>> /\ ret' = 1 /\ taken' = taken
      /\ UNCHANGED <<stripVars, stream>> /\ dec3' = dec3 /\ damaged' = damaged /\ data' = data
  BY DEF FaxAsk, Ask, faxVars, stripVars
<1>2. LeadsOut'
  BY <1>1, WayOutKept DEF Coming
<1>3. taken \in Nat /\ data \in Seq(Nat)
  BY Client DEF FaxInv, FaxStripOK
<1>4. Len(buf') = 0 /\ SubSeq(data, taken + 1, taken + 0) = <<>> /\ taken + 0 = taken
  BY <1>1, <1>3
<1>5. RowsGiven'
  BY <1>1, <1>4 DEF RowsGiven, Coming
<1> QED BY <1>1, <1>2, <1>5 DEF Coming, RowPcs, RunPcs

LEMMA FaxReturnTrips == FaxInv /\ Coming /\ FaxReturn => Coming'
<1> SUFFICES ASSUME FaxInv, Coming, FaxReturn PROVE Coming'
  OBVIOUS
<1>1. /\ pc = "call" /\ pc' = "idle" /\ occ = 0 /\ buf' = buf /\ ret' = 1
      /\ taken' = taken + asked /\ asked' = asked
      /\ UNCHANGED <<stripVars, stream>> /\ dec3' = dec3 /\ damaged' = damaged /\ data' = data
  BY DEF FaxReturn, Finish, faxVars, stripVars
<1>2. LeadsOut'
  BY <1>1, WayOutKept DEF Coming
<1>3. taken \in Nat /\ asked \in Nat /\ Len(buf) \in Nat /\ asked = Len(buf)
  BY <1>1, Client DEF occ
<1>4. taken' = taken + Len(buf) /\ taken' - asked' + 1 = taken + 1 /\ taken' + 0 = taken'
  BY <1>1, <1>3
<1>5. RowsGiven'
  BY <1>1, <1>3, <1>4 DEF RowsGiven, Coming
<1> QED BY <1>1, <1>2, <1>5 DEF Coming, RowPcs, RunPcs

LEMMA DecodingTrips ==
  ASSUME FaxInv, RowsInv, RowsTrip, FaxAsk \/ FaxDecode
  PROVE  RowsTrip'
<1>1. pc \notin EncoderPcs /\ pc' \notin EncoderPcs /\ whole' = whole
  <2>1. CASE FaxAsk \/ FaxReturn
    BY <2>1 DEF FaxAsk, FaxReturn, Ask, Finish, faxVars, EncoderPcs
  <2>2. CASE FillRow \/ FillLastRow
    BY <2>2 DEF FillRow, FillLastRow, Finish, EncoderPcs
  <2>3. CASE BeginRow \/ Sync \/ SyncFails \/ DataEnd \/ CleanUp
    BY <2>3 DEF BeginRow, Sync, SyncFails, DataEnd, CleanUp, FaxStep, EncoderPcs
  <2>4. CASE Span1D
    BY <2>4 DEF Span1D, Expand1D, MakeUpRead, RowDone, FaxStep, EncoderPcs
  <2>5. CASE Code2D
    BY <2>5 DEF Code2D, Expand2D, Vertical, Next2D, RowDone, FaxStep, EncoderPcs
  <2>6. CASE SpanHoriz
    BY <2>6 DEF SpanHoriz, ExpandHoriz, MakeUpRead, Next2D, RowDone, FaxStep, EncoderPcs
  <2> QED BY <2>1, <2>2, <2>3, <2>4, <2>5, <2>6 DEF FaxDecode
<1>2. ASSUME whole PROVE Coming'
  <2>1. Coming
    BY <1>1, <1>2 DEF RowsTrip
  <2> QED BY <2>1, FaxAskTrips, FaxReturnTrips, FillRowTrips, FillLastRowTrips, BeginRowTrips,
             SyncTrips, SyncFailsTrips, DataEndTrips, CleanUpTrips, Span1DTrips, Code2DTrips,
             SpanHorizTrips DEF FaxDecode
<1> QED BY <1>1, <1>2, TripsOn

LEMMA TripsUnchanged == RowsTrip /\ UNCHANGED vars => RowsTrip'
<1> SUFFICES ASSUME RowsTrip, UNCHANGED vars PROVE RowsTrip'
  OBVIOUS
<1>1. /\ UNCHANGED stripVars /\ stream' = stream /\ pc' = pc /\ dec3' = dec3 /\ at' = at
      /\ damaged' = damaged /\ whole' = whole
      /\ asked' = asked /\ buf' = buf /\ taken' = taken /\ ret' = ret /\ data' = data
  BY DEF vars, codecVars, stripVars, clientVars, faxVars
<1>2. LeadsOut => LeadsOut'
  BY <1>1, WayOutKept
<1>3. Coming => Coming'
  <2>1. RowAtHand => RowAtHand'
    BY <1>1, RowsKept DEF RowAtHand
  <2>2. RowsGiven => RowsGiven'
    BY <1>1 DEF RowsGiven
  <2> QED BY <1>1, <1>2, <2>1, <2>2 DEF Coming
<1> QED BY <1>1, <1>2, <1>3 DEF RowsTrip

FaxTrips == scheme \in FaxSchemes => RowsTrip

LEMMA FaxTripsAlways == Spec => []FaxTrips
<1>1. Init => FaxTrips
  <2>1. ASSUME Init, scheme \in FaxSchemes PROVE FaxInit
    BY <2>1 DEF Init, FaxSchemes, PackBitsInit, LzwInit
  <2> QED BY <2>1, FaxInitTrips DEF FaxTrips
<1>2. FaxSafe /\ FaxRowsSafe /\ FaxTrips /\ [Next]_vars => FaxTrips'
  <2>1. SUFFICES ASSUME FaxSafe, FaxRowsSafe, FaxTrips, [Next]_vars, scheme' \in FaxSchemes
                 PROVE  RowsTrip'
    BY DEF FaxTrips
  <2>2. scheme \in FaxSchemes /\ (FaxNext \/ UNCHANGED vars)
    BY <2>1, SchemeKept
  <2>3. FaxInv /\ RowsInv /\ RowsTrip
    BY <2>1, <2>2 DEF FaxSafe, FaxRowsSafe, FaxTrips
  <2>4. CASE FaxNext
    BY <2>3, <2>4, EncodingTrips, FaxPostEncodeTrips, ArriveTrips, DecodingTrips
       DEF FaxNext, FaxEncode
  <2> QED BY <2>2, <2>3, <2>4, TripsUnchanged
<1> QED BY <1>1, <1>2, FaxAlways, RowsAlways, PTL DEF Spec

\* The client gets the rows of the strip, in order and each once.
LEMMA FaxComesBack == Spec => [](scheme \in FaxSchemes => RoundTrip)
<1>1. FaxSafe /\ FaxTrips => (scheme \in FaxSchemes => RoundTrip)
  <2> SUFFICES ASSUME FaxSafe, FaxTrips, scheme \in FaxSchemes, pc = "idle", whole
               PROVE  ret = 1 /\ (taken > 0 => buf = SubSeq(data, taken - asked + 1, taken))
    BY DEF RoundTrip
  <2>1. Coming
    BY NotEncoding DEF FaxTrips, RowsTrip
  <2> QED BY <2>1 DEF Coming, RowsGiven
<1> QED BY <1>1, FaxAlways, FaxTripsAlways, PTL

-----------------------------------------------------------------------------
(***************************************************************************)
(* The results.                                                            *)
(***************************************************************************)
\* Whatever the codes of a row are, damaged or not, when the fill routine gets its
\* runs they add up to the width of the row, which is what _TIFFFax3fillruns asserts
\* (tif_fax3.c:493).
THEOREM RowsAreFilled == Spec => []FillsTheRow
<1>1. FaxSafe => FillsTheRow
  <2> SUFFICES ASSUME FaxSafe, pc \in {"fill", "fillLast"}
               PROVE  SumRuns(FillRuns(at), 0, at.pa) = lastx
    BY DEF FillsTheRow
  <2>1. pc \notin OtherPcs
    BY DEF OtherPcs
  <2>2. FaxInv
    BY <2>1 DEF FaxSafe
  <2>3. IsRow(at) /\ Sum(at.runs, at.pa) >= lastx
    BY <2>2, RowLeaves
  <2>4. Sum(FillRuns(at), at.pa) = lastx
    BY <2>3, RowFilled
  <2> QED BY <2>4 DEF Sum
<1> QED BY <1>1, FaxAlways, PTL

\* In a strip of Group 3 with one dimension no EOL that can be read is passed over:
\* SYNC_EOL begins a row with each, and the one that has ended a row is remembered in
\* EOLcnt until the next (tif_fax3.h:259-290, 344-346).
THEOREM EolsBeginRows == Spec => []NoRowSkipped
<1>1. FaxSafe => NoRowSkipped
  BY DEF FaxSafe, FaxInv, NoRowSkipped, FaxSchemes
<1> QED BY <1>1, FaxAlways, PTL

\* A row of which every code is read as it was written, after an EOL or a row of which
\* that is true, is right, whatever was damaged before it: the runs that the encoders
\* write (tif_fax3.c:1021-1080, Fax4Encode) are those that EXPAND1D and EXPAND2D put
\* together (tif_fax3.h:259-534), CLEANUP_RUNS leaves them alone, and _TIFFFax3fillruns
\* sets the pixels of the row (tif_fax3.c:478-).
THEOREM RowsAreRight == Spec => []RowsRight
<1>1. FaxSafe /\ FaxRowsSafe => RowsRight
  <2> SUFFICES ASSUME FaxSafe, FaxRowsSafe, pc = "fill", at.no > 0
               PROVE  Pixels(at) = Row(at.no)
    BY DEF RowsRight
  <2>1. pc \notin OtherPcs
    BY DEF OtherPcs
  <2>2. FaxInv /\ RowsInv
    BY <2>1 DEF FaxSafe, FaxRowsSafe
  <2>3. RowComplete(at) /\ Bilevel
    BY <2>2, FilledRight DEF RowsInv
  <2> QED BY <2>3, PixelsRight
<1> QED BY <1>1, FaxAlways, RowsAlways, PTL
=============================================================================
