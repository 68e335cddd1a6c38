------------------------ MODULE TiffDirectory_proofs ------------------------
(***************************************************************************)
(* Proofs about the walk along the directories of a file, for every file,  *)
(* every chain and every bound of the list.                                *)
(***************************************************************************)
EXTENDS TiffDirectory, FiniteSetTheorems, WellFoundedInduction, TLAPS

\* What is stored in a uint16 is one.
LEMMA UInt16Range ==
  ASSUME NEW x \in Int
  PROVE  ToUInt16(x) \in UInt16
BY DirectoryAssumption DEF DirectoryAssumption, ToUInt16, UInt16

\* The list grows to a size that is one of a uint16 and has room for what is
\* being added.
LEMMA GrownRange ==
  ASSUME NEW k \in UInt16, k > 0
  PROVE  Grown(k) \in UInt16 /\ k <= Grown(k)
BY DirectoryAssumption DEF DirectoryAssumption, Grown, UInt16

-----------------------------------------------------------------------------
(***************************************************************************)
(* Types.  One step for each action; what ReadDirectory and FetchDirectory *)
(* do is a case of its own for each way they may go.                       *)
(***************************************************************************)
LEMMA InitType == Init => TypeOK
<1> SUFFICES ASSUME Init PROVE TypeOK
  OBVIOUS
<1>1. tif_curdir \in UInt16
  BY UInt16Range DEF Init
<1> QED
  BY <1>1, DirectoryAssumption
     DEF Init, TypeOK, DirectoryAssumption, UInt16, Link, Steps, Ops

LEMMA ReadDirectoryType ==
  ASSUME TypeOK, ReadDirectory
  PROVE  TypeOK'
<1>1. CASE Refuse
  BY <1>1, DirectoryAssumption
     DEF TypeOK, ReadDirectory, Refuse, Return, fileVars, listVars, callVars, UInt16,
         Link, Steps, DirectoryAssumption
<1>2. CASE Accept
  <2>1. /\ tif_nextdiroff \in Offsets
        /\ tif_dirnumber \in 0..(MaxDirs - 1)
        /\ tif_nextdiroff # None
    BY <1>2, DirectoryAssumption
       DEF TypeOK, Accept, MustRefuse, UInt16, Link, None, DirectoryAssumption
  <2>2. tif_dirnumber' = tif_dirnumber + 1 /\ tif_dirnumber' \in UInt16 /\ tif_dirnumber' > 0
    BY <1>2, <2>1, DirectoryAssumption DEF Accept, Counted, UInt16, DirectoryAssumption
  <2>3. tif_dirlistsize' \in UInt16
    BY <1>2, <2>2, GrownRange DEF Accept, TypeOK
  <2>4. tif_dirlist' \in [0..(MaxDirs - 1) -> Link]
    BY <1>2, <2>1 DEF Accept, TypeOK, Link
  <2>5. tif_curdir' \in UInt16
    BY <1>2, UInt16Range DEF Accept, TypeOK, UInt16
  <2>6. begun' \subseteq Offsets
    BY <1>2, <2>1 DEF Accept, TypeOK
  <2>7. tif_diroff' \in Link /\ tif_diroff' # None
    BY <2>1 DEF ReadDirectory, Link
  <2> QED
    BY <1>2, <2>2, <2>3, <2>4, <2>5, <2>6, <2>7
       DEF TypeOK, ReadDirectory, Accept, fileVars, callVars, loopVars, Steps
<1>3. CASE NoRoom
  <2>1. tif_dirnumber' \in UInt16
    BY <1>3, DirectoryAssumption
       DEF TypeOK, NoRoom, MustRefuse, UInt16, DirectoryAssumption
  <2> QED
    BY <1>3, <2>1, DirectoryAssumption
       DEF TypeOK, ReadDirectory, NoRoom, Return, fileVars, callVars, UInt16,
           Link, Steps, DirectoryAssumption
<1> QED
  BY <1>1, <1>2, <1>3 DEF ReadDirectory

LEMMA FetchDirectoryType ==
  ASSUME TypeOK, FetchDirectory
  PROVE  TypeOK'
<1>1. tif_diroff \in Offsets /\ Following(tif_diroff) \in Link
  BY DEF TypeOK, FetchDirectory, Following, Link
<1>2. CASE Fetched
  BY <1>1, <1>2
     DEF TypeOK, FetchDirectory, Fetched, fileVars, listVars, callVars, loopVars, Link, Steps
<1>3. CASE FetchFails
  BY <1>1, <1>3, DirectoryAssumption
     DEF TypeOK, FetchDirectory, FetchFails, Return, fileVars, listVars, callVars, Link,
         Steps, UInt16, DirectoryAssumption
<1>4. CASE FetchFailsLate
  BY <1>1, <1>4, DirectoryAssumption
     DEF TypeOK, FetchDirectory, FetchFailsLate, Return, fileVars, listVars, callVars, Link,
         Steps, UInt16, DirectoryAssumption
<1> QED
  BY <1>2, <1>3, <1>4 DEF FetchDirectory

LEMMA NextType ==
  ASSUME TypeOK, [Next]_vars
  PROVE  TypeOK'
<1> USE DirectoryAssumption DEF DirectoryAssumption
<1>1. CASE Open
  <2>1. PICK mode \in {"open", "header"} : ClientOpen(mode)
    BY <1>1 DEF Open
  <2> QED
    BY <2>1 DEF TypeOK, ClientOpen, fileVars, listVars, loopVars, UInt16, Link, Steps, Ops
<1>2. CASE CallReadDirectory
  BY <1>2 DEF TypeOK, CallReadDirectory, Call, fileVars, listVars, loopVars, Steps, Ops
<1>3. CASE CallSetDirectory
  <2>1. PICK d \in 0..MaxDirn : Call("set", d) /\ n' = d
    BY <1>3 DEF CallSetDirectory
  <2>2. n' \in UInt16
    BY <2>1 DEF UInt16
  <2> QED
    BY <1>3, <2>1, <2>2
       DEF TypeOK, CallSetDirectory, Call, FirstDir, fileVars, listVars, Steps, Ops
<1>4. CASE SetSubDirectory
  BY <1>4 DEF TypeOK, SetSubDirectory, StartList, Call, fileVars, loopVars, UInt16, Steps, Ops
<1>5. CASE CallNumberOfDirectories
  BY <1>5
     DEF TypeOK, CallNumberOfDirectories, Call, FirstDir, fileVars, listVars, UInt16, Steps, Ops
<1>6. CASE ReadDirectory
  BY <1>6, ReadDirectoryType
<1>7. CASE FetchDirectory
  BY <1>7, FetchDirectoryType
<1>8. CASE Fields
  BY <1>8 DEF TypeOK, Fields, Return, fileVars, listVars, callVars, UInt16, Link, Steps
<1>9. CASE AdvanceDirectory
  <2>1. n' \in UInt16 /\ nextdir' \in Link
    BY <1>9 DEF TypeOK, AdvanceDirectory, Return, Advanceable, UInt16, Link
  <2> QED
    BY <1>9, <2>1
       DEF TypeOK, AdvanceDirectory, Return, fileVars, listVars, callVars, UInt16, Link, Steps
<1>10. CASE SetDirectory
  <2>1. tif_curdir' \in UInt16
    BY <1>10, UInt16Range DEF TypeOK, SetDirectory, Curdir, UInt16
  <2> QED
    BY <1>10, <2>1
       DEF TypeOK, SetDirectory, StartList, fileVars, callVars, loopVars, UInt16, Steps
<1>11. CASE NumberOfDirectories
  <2>0. n' = ToUInt16(n + 1) \/ n' = 0
    BY <1>11 DEF NumberOfDirectories, Return
  <2>1. n' \in UInt16
    <3>1. n \in Int /\ 0 \in UInt16
      BY DEF TypeOK, UInt16
    <3>2. n + 1 \in Int
      BY <3>1
    <3>3. ToUInt16(n + 1) \in UInt16
      BY <3>2, UInt16Range
    <3> QED
      BY <2>0, <3>1, <3>3
  <2>2. nextdir' \in Link
    BY <1>11 DEF TypeOK, NumberOfDirectories, Return, Advanceable, Link
  <2>3. ret' \in UInt16
    BY <1>11 DEF TypeOK, NumberOfDirectories, Return, UInt16
  <2> QED
    BY <1>11, <2>1, <2>2, <2>3
       DEF TypeOK, NumberOfDirectories, Return, fileVars, listVars, callVars, Steps
<1>12. CASE UNCHANGED vars
  BY <1>12 DEF TypeOK, vars
<1> QED
  BY <1>1, <1>2, <1>3, <1>4, <1>5, <1>6, <1>7, <1>8, <1>9, <1>10, <1>11, <1>12
     DEF Next, Ask, Step

\* Every variable stays in its type; the count and the size of the list never
\* leave the uint16 they are kept in.
THEOREM TypeCorrect == Spec => []TypeOK
<1>1. Init => TypeOK
  BY InitType
<1>2. TypeOK /\ [Next]_vars => TypeOK'
  BY NextType
<1> QED
  BY <1>1, <1>2, PTL DEF Spec

-----------------------------------------------------------------------------
(***************************************************************************)
(* The list.  Every offset accepted since the list was started is in one   *)
(* of the cells that count; when memory never runs out, the cells that     *)
(* count have been allocated and hold nothing else.                        *)
(***************************************************************************)
Cells == {tif_dirlist[i] : i \in 0..(tif_dirnumber - 1)}

LInv == /\ begun \subseteq Cells
        /\ tif_dirlistsize = 0 => begun = {}
        /\ ~MayRunOut => ListIsHistory

LEMMA InitList == Init => LInv
BY DirectoryAssumption DEF Init, LInv, ListIsHistory, Cells, DirectoryAssumption

\* Adding an offset behind the last cell that counts adds it to the list.
LEMMA AcceptCells ==
  ASSUME TypeOK, Accept
  PROVE  /\ tif_dirnumber' = tif_dirnumber + 1
         /\ Cells' = Cells \cup {tif_nextdiroff}
<1>1. tif_dirnumber \in 0..(MaxDirs - 1)
  BY DirectoryAssumption
     DEF TypeOK, Accept, MustRefuse, UInt16, DirectoryAssumption
<1>2. tif_dirnumber' = tif_dirnumber + 1
  BY DEF Accept, Counted
<1>3. \A i \in 0..(MaxDirs - 1) :
        tif_dirlist'[i] = IF i = tif_dirnumber THEN tif_nextdiroff ELSE tif_dirlist[i]
  BY DEF TypeOK, Accept
<1>4. \A i \in 0..(tif_dirnumber - 1) : tif_dirlist'[i] = tif_dirlist[i]
  BY <1>1, <1>3, DirectoryAssumption DEF DirectoryAssumption
<1>5. tif_dirlist'[tif_dirnumber] = tif_nextdiroff
  BY <1>1, <1>3
<1>6. 0..(tif_dirnumber' - 1) = 0..(tif_dirnumber - 1) \cup {tif_dirnumber}
  BY <1>1, <1>2
<1> QED
  BY <1>2, <1>4, <1>5, <1>6 DEF Cells

LEMMA AcceptList ==
  ASSUME TypeOK, LInv, Accept
  PROVE  LInv'
<1>1. /\ tif_dirnumber' = tif_dirnumber + 1
      /\ Cells' = Cells \cup {tif_nextdiroff}
  BY AcceptCells
<1>2. tif_dirnumber' \in UInt16 /\ tif_dirnumber' > 0
  BY <1>1, DirectoryAssumption DEF TypeOK, Accept, MustRefuse, UInt16, DirectoryAssumption
<1>3. tif_dirnumber' <= tif_dirlistsize' /\ tif_dirlistsize' # 0
  BY <1>2, GrownRange DEF Accept, TypeOK, UInt16
<1>4. begun' = begun \cup {tif_nextdiroff}
  BY DEF Accept
<1> QED
  BY <1>1, <1>3, <1>4 DEF LInv, ListIsHistory, Cells

\* What is stepped over leaves the list as it is.
LEMMA SameList ==
  ASSUME LInv, UNCHANGED listVars
  PROVE  LInv'
BY DEF LInv, ListIsHistory, Cells, listVars

\* A new list has no cell that counts.
LEMMA StartsList ==
  ASSUME TypeOK, StartList
  PROVE  LInv'
BY DirectoryAssumption
   DEF TypeOK, LInv, ListIsHistory, Cells, StartList, UInt16, DirectoryAssumption

\* When the list cannot grow, one more cell counts, and nothing was accepted.
LEMMA NoRoomList ==
  ASSUME TypeOK, LInv, NoRoom
  PROVE  LInv'
<1>1. MayRunOut
  BY DEF NoRoom
<1>2. begun' = begun /\ tif_dirlistsize' = tif_dirlistsize
  BY DEF NoRoom
<1>3. Cells \subseteq Cells'
  BY DEF NoRoom, Cells, TypeOK, UInt16
<1> QED
  BY <1>1, <1>2, <1>3 DEF LInv

LEMMA NextList ==
  ASSUME TypeOK, LInv, [Next]_vars
  PROVE  LInv'
<1>1. CASE Open
  BY <1>1, SameList DEF Open, ClientOpen
<1>2. CASE Ask
  BY <1>2, SameList, StartsList
     DEF Ask, CallReadDirectory, CallSetDirectory, SetSubDirectory, CallNumberOfDirectories
<1>3. CASE ReadDirectory
  <2>1. CASE Refuse
    BY <2>1, SameList DEF Refuse
  <2> QED
    BY <1>3, <2>1, AcceptList, NoRoomList DEF ReadDirectory
<1>4. CASE SetDirectory
  BY <1>4, StartsList DEF SetDirectory
<1>5. CASE FetchDirectory \/ Fields \/ AdvanceDirectory \/ NumberOfDirectories
  BY <1>5, SameList DEF FetchDirectory, Fields, AdvanceDirectory, NumberOfDirectories
<1>6. CASE UNCHANGED vars
  BY <1>6, SameList DEF vars, listVars
<1> QED
  BY <1>1, <1>2, <1>3, <1>4, <1>5, <1>6 DEF Next, Step

LEMMA AlwaysList == Spec => [](TypeOK /\ LInv)
<1>1. Init => TypeOK /\ LInv
  BY InitType, InitList
<1>2. TypeOK /\ LInv /\ [Next]_vars => (TypeOK /\ LInv)'
  BY NextType, NextList
<1> QED
  BY <1>1, <1>2, PTL DEF Spec

\* With memory to spare, the list compared against is exactly the list of the
\* directories seen since it was started.
THEOREM ListCorrect == ~MayRunOut => (Spec => []ListIsHistory)
<1> SUFFICES ASSUME ~MayRunOut PROVE Spec => []ListIsHistory
  OBVIOUS
<1>1. TypeOK /\ LInv => ListIsHistory
  BY DEF LInv
<1> QED
  BY <1>1, AlwaysList, PTL

\* No directory is turned to twice before the client starts over, whatever the
\* links of the file, and even when memory runs out and the list holds cells
\* that were never written.
THEOREM NoLoop == Spec => NoDirectoryTwice
<1>1. ASSUME TypeOK, LInv, [Next]_vars
      PROVE  [pc = "read" /\ pc' = "fetch" => tif_nextdiroff \notin begun]_vars
  <2> SUFFICES ASSUME pc = "read", pc' = "fetch"
               PROVE  tif_nextdiroff \notin begun
    OBVIOUS
  <2>1. Accept
    BY <1>1 DEF Next, Open, ClientOpen, Ask, CallReadDirectory, CallSetDirectory, SetSubDirectory,
         CallNumberOfDirectories, Call, Step, ReadDirectory, Refuse, NoRoom, Return,
         FetchDirectory, Fields, AdvanceDirectory, SetDirectory, NumberOfDirectories, vars
  <2>2. tif_nextdiroff \notin Compared
    BY <2>1 DEF Accept, MustRefuse
  <2> QED
    BY <1>1, <2>2 DEF LInv, Compared, Cells
<1> QED
  BY <1>1, AlwaysList, PTL DEF Spec, NoDirectoryTwice
-----------------------------------------------------------------------------
(***************************************************************************)
(* The chain.  Nth and ChainFrom are recursive functions: that they are    *)
(* what their definitions say is proved by the least number for which they *)
(* would not be.                                                           *)
(***************************************************************************)
LEMMA LeastOf ==
  ASSUME NEW S \in SUBSET Nat, S # {}
  PROVE  \E m \in S : \A k \in S : m <= k
<1> DEFINE R == OpToRel(<, Nat)
<1>1. IsWellFoundedOn(R, Nat)
  BY NatLessThanWellFounded
<1>2. \E x \in S : \A y \in S : ~ (<<y, x>> \in R)
  <2> HIDE DEF R
  <2> QED BY <1>1, WFMin
<1>3. \A x \in Nat, y \in Nat : y < x => <<y, x>> \in R
  BY DEF OpToRel
<1> HIDE DEF R
<1>4. PICK x \in S : \A y \in S : ~ (<<y, x>> \in R)
  BY <1>2
<1>5. S \subseteq Nat
  OBVIOUS
<1>6. \A y \in S : ~(y < x)
  BY <1>3, <1>4, <1>5, Zenon
<1>7. \A y \in S : x <= y
  BY <1>5, <1>6
<1> QED
  BY <1>7

\* The link of a directory; there is none after the end.
After(o) == IF o = None THEN None ELSE next[o]

IsWalk(f, i) == f = [k \in 0..i |-> IF k = 0 THEN header ELSE After(f[k - 1])]

LEMMA WalkExists ==
  ASSUME NEW i \in Nat
  PROVE  \E f : IsWalk(f, i)
<1> DEFINE S == {m \in Nat : ~ \E f : IsWalk(f, m)}
<1>1. SUFFICES ASSUME S # {} PROVE FALSE
  BY <1>1
<1>2. PICK m \in S : \A k \in S : m <= k
  <2>1. S \in SUBSET Nat
    OBVIOUS
  <2> HIDE DEF S
  <2> QED BY <1>1, <2>1, LeastOf
<1>3. m \in Nat /\ ~ \E f : IsWalk(f, m)
  BY <1>2
<1>4. CASE m = 0
  <2>1. IsWalk([k \in 0..0 |-> header], 0)
    BY DEF IsWalk
  <2> QED BY <1>3, <1>4, <2>1
<1>5. CASE m # 0
  <2>1. m - 1 \in Nat /\ ~(m <= m - 1)
    BY <1>3, <1>5
  <2>2. PICK f : IsWalk(f, m - 1)
    BY <1>2, <2>1
  <2> DEFINE g == [k \in 0..m |-> IF k = 0 THEN header ELSE After(f[k - 1])]
  <2>3. \A k \in 0..(m - 1) : g[k] = f[k]
    BY <1>3, <2>1, <2>2 DEF IsWalk
  <2>4. \A k \in 0..m : k # 0 => k - 1 \in 0..(m - 1)
    BY <1>3
  <2>5. \A k \in 0..m : (IF k = 0 THEN header ELSE After(f[k - 1]))
                          = (IF k = 0 THEN header ELSE After(g[k - 1]))
    <3> HIDE DEF g
    <3> QED BY <2>3, <2>4
  <2>6. g = [k \in 0..m |-> IF k = 0 THEN header ELSE After(g[k - 1])]
    <3>1. g = [k \in 0..m |-> IF k = 0 THEN header ELSE After(f[k - 1])]
      OBVIOUS
    <3> HIDE DEF g
    <3> QED BY <2>5, <3>1, Zenon
  <2>7. IsWalk(g, m)
    BY <2>6 DEF IsWalk
  <2> QED BY <1>3, <2>7
<1> QED BY <1>4, <1>5

LEMMA NthIs ==
  ASSUME NEW i \in Nat
  PROVE  \E f : IsWalk(f, i) /\ Nth(i) = f[i]
<1> DEFINE walk == CHOOSE f : IsWalk(f, i)
<1>1. IsWalk(walk, i)
  BY WalkExists, Zenon
<1>2. Nth(i) = walk[i]
  BY DEF Nth, IsWalk, After
<1> QED BY <1>1, <1>2

LEMMA WalksAgree ==
  ASSUME NEW a \in Nat, NEW b \in Nat, a <= b, NEW f, IsWalk(f, a), NEW g, IsWalk(g, b)
  PROVE  f[a] = g[a]
<1> DEFINE S == {k \in 0..a : f[k] # g[k]}
<1>1. SUFFICES ASSUME S # {} PROVE FALSE
  BY <1>1
<1>2. PICK k \in S : \A m \in S : k <= m
  <2>1. S \in SUBSET Nat
    OBVIOUS
  <2> HIDE DEF S
  <2> QED BY <1>1, <2>1, LeastOf
<1>3. k \in 0..a /\ k \in 0..b /\ f[k] # g[k]
  BY <1>2
<1>4. f[k] = (IF k = 0 THEN header ELSE After(f[k - 1]))
  BY <1>3 DEF IsWalk
<1>5. g[k] = (IF k = 0 THEN header ELSE After(g[k - 1]))
  BY <1>3 DEF IsWalk
<1>6. k # 0 => f[k - 1] = g[k - 1]
  <2>1. k # 0 => k - 1 \in 0..a /\ ~(k <= k - 1)
    BY <1>3
  <2> QED BY <1>2, <2>1
<1> QED BY <1>3, <1>4, <1>5, <1>6

\* Nth follows the links from the header.
LEMMA NthSteps ==
  /\ Nth(0) = header
  /\ \A i \in Nat : Nth(i + 1) = After(Nth(i))
<1>1. Nth(0) = header
  <2>1. PICK f : IsWalk(f, 0) /\ Nth(0) = f[0]
    BY NthIs
  <2> QED BY <2>1 DEF IsWalk
<1>2. ASSUME NEW i \in Nat PROVE Nth(i + 1) = After(Nth(i))
  <2>1. PICK j \in Nat : j = i + 1
    OBVIOUS
  <2>2. i <= j /\ j \in 0..j /\ j # 0 /\ j - 1 = i
    BY <2>1
  <2>3. PICK f : IsWalk(f, i) /\ Nth(i) = f[i]
    BY NthIs
  <2>4. PICK g : IsWalk(g, j) /\ Nth(j) = g[j]
    BY NthIs
  <2>5. g[j] = After(g[i])
    BY <2>2, <2>4 DEF IsWalk
  <2>6. f[i] = g[i]
    BY <2>2, <2>3, <2>4, WalksAgree
  <2> QED BY <2>1, <2>3, <2>4, <2>5, <2>6
<1> QED BY <1>1, <1>2

LEMMA AfterType ==
  ASSUME TypeOK, NEW o \in Link
  PROVE  After(o) \in Link
BY DEF TypeOK, After, Link

LEMMA NthType ==
  ASSUME TypeOK, NEW i \in Nat
  PROVE  Nth(i) \in Link
<1> DEFINE S == {m \in Nat : Nth(m) \notin Link}
<1>1. SUFFICES ASSUME S # {} PROVE FALSE
  BY <1>1
<1>2. PICK m \in S : \A k \in S : m <= k
  <2>1. S \in SUBSET Nat
    OBVIOUS
  <2> HIDE DEF S
  <2> QED BY <1>1, <2>1, LeastOf
<1>3. m \in Nat /\ Nth(m) \notin Link
  BY <1>2
<1>4. m # 0
  BY <1>3, NthSteps DEF TypeOK
<1>5. PICK k \in Nat : m = k + 1 /\ ~(m <= k)
  <2>1. m - 1 \in Nat /\ m = (m - 1) + 1 /\ ~(m <= m - 1)
    BY <1>3, <1>4
  <2> QED BY <2>1
<1>6. Nth(k) \in Link
  BY <1>2, <1>5
<1> QED BY <1>3, <1>5, <1>6, NthSteps, AfterType

LEMMA SameChain ==
  ASSUME UNCHANGED fileVars
  PROVE  \A i : Nth(i)' = Nth(i)
BY DEF fileVars, Nth

-----------------------------------------------------------------------------
(***************************************************************************)
(* The index.  Between two readings tif_curdir is one less than the place  *)
(* in the chain of the directory the next link leads to; the index grows   *)
(* by one for each directory seen since the client asked for a number, so  *)
(* that it does not wrap around.  This is about clients that do not leave  *)
(* the chain, of which TIFFSetSubDirectory would know no index.            *)
(***************************************************************************)
NoWrap == /\ ~SubDirectories
          /\ IsFiniteSet(Offsets)
          /\ MaxDirn + Cardinality(Offsets) <= MaxDirs + 1

Highest == MaxDirn + Cardinality(begun)

\* The next directory to be read is the i-th, if there is one.
NextIs(i) == /\ tif_curdir = ToUInt16(i - 1)
             /\ tif_nextdiroff # None => tif_nextdiroff = Nth(i)

\* The directory that is being read is the i-th.
CurrentIs(i) == /\ tif_curdir = i
                /\ tif_diroff = Nth(i)
                /\ pc = "fields" => /\ tif_dir = tif_diroff
                                    /\ tif_nextdiroff # None => tif_nextdiroff = Nth(i + 1)

StartIs == pc = "closed" /\ op = "none" =>
             tif_curdir = ToUInt16(-1) /\ tif_nextdiroff = None

CallIs == /\ pc = "advance" => /\ op = "set"
                               /\ n <= dirn
                               /\ nextdir = Nth(dirn - n)
          /\ pc = "count" => op = "number"
          /\ pc # "closed" => op # "none"
          /\ op # "sub"

BetweenIs == pc \notin {"fetch", "fields"} => \E i \in 0..Highest : NextIs(i)

ReadingIs == pc \in {"fetch", "fields"} =>
               \E i \in 0..MaxDirs : i < Highest /\ CurrentIs(i)

IndexInv == StartIs /\ CallIs /\ BetweenIs /\ ReadingIs /\ CurrentIsIndex

LEMMA Sizes ==
  ASSUME NoWrap, TypeOK
  PROVE  /\ MaxDirs \in Nat \ {0} /\ MaxDirn \in 0..MaxDirs
         /\ Cardinality(begun) \in Nat /\ Highest \in Nat
         /\ Highest <= MaxDirs + 1
<1>1. begun \in SUBSET Offsets
  BY DEF TypeOK
<1>2. IsFiniteSet(begun) /\ Cardinality(begun) <= Cardinality(Offsets)
  BY <1>1, FS_Subset DEF NoWrap
<1>3. Cardinality(begun) \in Nat /\ Cardinality(Offsets) \in Nat
  BY <1>2, FS_CardinalityType DEF NoWrap
<1>4. MaxDirs \in Nat \ {0} /\ MaxDirn \in 0..MaxDirs
  BY DirectoryAssumption DEF DirectoryAssumption
<1> QED BY <1>2, <1>3, <1>4 DEF Highest, NoWrap

LEMMA Wraps ==
  ASSUME NoWrap, TypeOK
  PROVE  \A i \in 0..MaxDirs : ToUInt16(i) = i /\ ToUInt16(ToUInt16(i - 1) + 1) = i
<1> SUFFICES ASSUME NEW i \in 0..MaxDirs
             PROVE  ToUInt16(i) = i /\ ToUInt16(ToUInt16(i - 1) + 1) = i
  OBVIOUS
<1>1. MaxDirs \in Nat \ {0}
  BY Sizes
<1>2. i % (MaxDirs + 1) = i
  BY <1>1
<1>3. CASE i = 0
  <2>1. (-1) % (MaxDirs + 1) = MaxDirs
    BY <1>1
  <2>2. (MaxDirs + 1) % (MaxDirs + 1) = 0
    BY <1>1
  <2> QED BY <1>2, <1>3, <2>1, <2>2 DEF ToUInt16
<1>4. CASE i # 0
  <2>1. i - 1 \in 0..MaxDirs /\ (i - 1) + 1 = i
    BY <1>1, <1>4
  <2>2. (i - 1) % (MaxDirs + 1) = i - 1
    BY <1>1, <2>1
  <2> QED BY <1>2, <2>1, <2>2 DEF ToUInt16
<1> QED BY <1>3, <1>4

LEMMA InitIndex == NoWrap /\ Init => IndexInv
<1> SUFFICES ASSUME NoWrap, Init PROVE IndexInv
  OBVIOUS
<1>1. TypeOK
  BY InitType
<1>2. 0 \in 0..Highest
  BY <1>1, Sizes
<1>3. NextIs(0)
  BY DEF Init, NextIs
<1> QED
  BY <1>2, <1>3 DEF Init, IndexInv, StartIs, CallIs, BetweenIs, ReadingIs, CurrentIsIndex, Loaded

\* A call that does not move the handle.
LEMMA SameIndex ==
  ASSUME IndexInv, pc \notin {"closed", "fetch", "fields"}, pc' \notin {"closed", "fetch", "fields"},
         UNCHANGED <<fileVars, tif_curdir, tif_nextdiroff, begun>>,
         CallIs', pc' = "idle" => ret' # 1 \/ op' \notin {"open", "read", "set", "sub"}
  PROVE  IndexInv'
<1>1. \A i : NextIs(i)' = NextIs(i)
  BY SameChain DEF NextIs
<1>2. Highest' = Highest
  BY DEF Highest
<1>3. BetweenIs'
  BY <1>1, <1>2 DEF IndexInv, BetweenIs
<1> QED BY <1>3 DEF IndexInv, StartIs, ReadingIs, CurrentIsIndex, Loaded

LEMMA AcceptIndex ==
  ASSUME NoWrap, TypeOK, LInv, IndexInv, ReadDirectory, Accept
  PROVE  IndexInv'
<1>1. /\ pc = "read" /\ pc' = "fetch" /\ tif_diroff' = tif_nextdiroff
      /\ begun' = begun \cup {tif_nextdiroff} /\ tif_curdir' = ToUInt16(tif_curdir + 1)
      /\ UNCHANGED <<fileVars, op>>
  BY DEF ReadDirectory, Accept, callVars
<1>2. tif_nextdiroff # None /\ tif_nextdiroff \notin begun
  BY DEF Accept, MustRefuse, LInv, Compared, Cells
<1>3. PICK i \in 0..Highest : NextIs(i)
  BY <1>1 DEF IndexInv, BetweenIs
<1>4. Highest' = Highest + 1
  <2>1. begun \in SUBSET Offsets
    BY DEF TypeOK
  <2>2. IsFiniteSet(begun)
    BY <2>1, FS_Subset DEF NoWrap
  <2>3. Cardinality(begun \cup {tif_nextdiroff}) = Cardinality(begun) + 1
    BY <1>2, <2>2, FS_AddElement
  <2> QED BY <1>1, <2>3, Sizes DEF Highest
<1>5. i \in 0..MaxDirs /\ i < Highest'
  <2>1. TypeOK'
    BY NextType DEF Next, Step
  <2>2. Highest' <= MaxDirs + 1
    <3>1. begun' \in SUBSET Offsets
      BY <2>1 DEF TypeOK
    <3>2. IsFiniteSet(begun') /\ Cardinality(begun') <= Cardinality(Offsets)
      BY <3>1, FS_Subset DEF NoWrap
    <3>3. Cardinality(begun') \in Nat /\ Cardinality(Offsets) \in Nat
      BY <3>2, FS_CardinalityType DEF NoWrap
    <3> QED BY <3>2, <3>3, Sizes DEF Highest, NoWrap
  <2> QED BY <1>3, <1>4, <2>2, Sizes
<1>6. tif_curdir' = i
  BY <1>1, <1>3, <1>5, Wraps DEF NextIs
<1>7. tif_diroff' = Nth(i)'
  BY <1>1, <1>2, <1>3, SameChain DEF NextIs
<1>8. ReadingIs'
  BY <1>1, <1>5, <1>6, <1>7 DEF ReadingIs, CurrentIs
<1> QED
  BY <1>1, <1>8 DEF IndexInv, StartIs, CallIs, BetweenIs, CurrentIsIndex, Loaded

\* The directory that was being read is left behind.
LEMMA LeavesIndex ==
  ASSUME NoWrap, TypeOK, IndexInv, pc' \in {"idle", "closed"},
         NEW i \in 0..MaxDirs, i < Highest, tif_curdir = i,
         UNCHANGED <<fileVars, tif_curdir, begun, op>>,
         tif_nextdiroff' # None => tif_nextdiroff' = Nth(i + 1),
         op # "none", CurrentIsIndex'
  PROVE  IndexInv'
<1>1. i \in Nat /\ i + 1 \in 0..Highest /\ (i + 1) - 1 = i
  BY Sizes
<1>2. NextIs(i + 1)'
  BY <1>1, SameChain, Wraps DEF NextIs
<1>3. Highest' = Highest
  BY DEF Highest
<1>4. BetweenIs'
  BY <1>1, <1>2, <1>3 DEF BetweenIs
<1>5. StartIs' /\ CallIs' /\ ReadingIs'
  BY DEF IndexInv, StartIs, CallIs, ReadingIs
<1> QED BY <1>4, <1>5 DEF IndexInv

\* What follows a directory in the chain follows it when it is read.
LEMMA FollowingIs ==
  ASSUME TypeOK, NEW i \in Nat, tif_diroff = Nth(i), tif_diroff # None,
         Following(tif_diroff) # None
  PROVE  Following(tif_diroff) = Nth(i + 1)
BY NthSteps DEF Following, After

LEMMA FetchIndex ==
  ASSUME NoWrap, TypeOK, IndexInv, FetchDirectory
  PROVE  IndexInv'
<1>1. /\ pc = "fetch" /\ UNCHANGED <<fileVars, tif_diroff, tif_curdir, begun>>
      /\ tif_diroff # None
  BY DEF FetchDirectory, listVars, TypeOK
<1>2. PICK i \in 0..MaxDirs : i < Highest /\ CurrentIs(i)
  BY <1>1 DEF IndexInv, ReadingIs
<1>3. tif_curdir = i /\ tif_diroff = Nth(i) /\ i \in Nat
  BY <1>2 DEF CurrentIs
<1>4. Following(tif_diroff) # None => Following(tif_diroff) = Nth(i + 1)
  BY <1>1, <1>3, FollowingIs
<1>5. CASE Fetched
  <2>1. pc' = "fields" /\ tif_nextdiroff' = Following(tif_diroff) /\ tif_dir' = tif_diroff
        /\ op' = op
    BY <1>5 DEF Fetched, callVars
  <2>2. CurrentIs(i)' /\ i < Highest'
    <3>1. Nth(i)' = Nth(i) /\ Nth(i + 1)' = Nth(i + 1)
      BY <1>1, SameChain
    <3> QED BY <1>1, <1>2, <1>3, <1>4, <2>1, <3>1 DEF CurrentIs, Highest
  <2>3. ReadingIs'
    BY <2>2 DEF ReadingIs
  <2> QED BY <1>1, <2>1, <2>3 DEF IndexInv, StartIs, CallIs, BetweenIs, CurrentIsIndex, Loaded
<1>6. CASE FetchFails \/ FetchFailsLate
  <2>1. /\ pc' \in {"idle", "closed"} /\ ret' = 0 /\ op' = op
        /\ tif_nextdiroff' \in {None, Following(tif_diroff)}
    BY <1>6 DEF FetchFails, FetchFailsLate, Return, callVars
  <2>2. CurrentIsIndex'
    BY <2>1 DEF CurrentIsIndex, Loaded
  <2>3. op # "none"
    BY <1>1 DEF IndexInv, CallIs
  <2> QED BY <1>1, <1>2, <1>3, <1>4, <2>1, <2>2, <2>3, LeavesIndex
<1> QED BY <1>5, <1>6 DEF FetchDirectory

LEMMA FieldsIndex ==
  ASSUME NoWrap, TypeOK, IndexInv, Fields
  PROVE  IndexInv'
<1>1. /\ pc = "fields" /\ pc' \in {"idle", "closed"} /\ op' = op
      /\ UNCHANGED <<fileVars, tif_diroff, tif_nextdiroff, tif_curdir, begun, tif_dir>>
  BY DEF Fields, Return, callVars, listVars
<1>2. PICK i \in 0..MaxDirs : i < Highest /\ CurrentIs(i)
  BY <1>1 DEF IndexInv, ReadingIs
<1>3. /\ tif_curdir = i /\ tif_diroff = Nth(i) /\ tif_dir = tif_diroff
      /\ tif_nextdiroff # None => tif_nextdiroff = Nth(i + 1)
  BY <1>1, <1>2 DEF CurrentIs
<1>4. CurrentIsIndex'
  BY <1>1, <1>3, SameChain DEF CurrentIsIndex
<1>5. op # "none"
  BY <1>1 DEF IndexInv, CallIs
<1> QED BY <1>1, <1>2, <1>3, <1>4, <1>5, LeavesIndex

LEMMA OpenIndex ==
  ASSUME NoWrap, TypeOK, IndexInv, Open
  PROVE  IndexInv'
<1>1. PICK mode \in {"open", "header"} : ClientOpen(mode)
  BY DEF Open
<1>2. /\ pc = "closed" /\ op = "none" /\ tif_nextdiroff' = header /\ op' = mode
      /\ pc' = IF mode = "header" THEN "idle" ELSE "read"
      /\ UNCHANGED <<fileVars, tif_curdir, begun>>
  BY <1>1 DEF ClientOpen, listVars
<1>3. NextIs(0)'
  BY <1>2, SameChain, NthSteps DEF NextIs, IndexInv, StartIs
<1>4. 0 \in 0..Highest'
  BY <1>2, Sizes DEF Highest
<1>5. BetweenIs'
  BY <1>3, <1>4 DEF BetweenIs
<1> QED BY <1>2, <1>5 DEF IndexInv, StartIs, CallIs, ReadingIs, CurrentIsIndex, Loaded

LEMMA SetIndex ==
  ASSUME NoWrap, TypeOK, IndexInv, SetDirectory
  PROVE  IndexInv'
<1>1. /\ pc = "advance" /\ pc' = "read" /\ begun' = {} /\ op' = op /\ tif_nextdiroff' = nextdir
      /\ tif_curdir' = ToUInt16((dirn - n) - 1) /\ UNCHANGED fileVars
  BY DEF SetDirectory, StartList, Curdir, callVars
<1>2. n <= dirn /\ nextdir = Nth(dirn - n) /\ n \in Nat /\ dirn \in 0..MaxDirn /\ op = "set"
  BY <1>1 DEF IndexInv, CallIs, TypeOK, UInt16
<1>3. Highest' = MaxDirn
  BY <1>1, FS_EmptySet, Sizes DEF Highest
<1>4. PICK i \in Int : i = dirn - n
  BY <1>2, Sizes
<1>5. i \in 0..Highest'
  BY <1>2, <1>3, <1>4, Sizes
<1>6. NextIs(i)'
  BY <1>1, <1>2, <1>4, SameChain DEF NextIs
<1>7. BetweenIs'
  BY <1>5, <1>6 DEF BetweenIs
<1> QED BY <1>1, <1>2, <1>7 DEF IndexInv, StartIs, CallIs, ReadingIs, CurrentIsIndex, Loaded

LEMMA AdvanceIndex ==
  ASSUME NoWrap, TypeOK, IndexInv, AdvanceDirectory
  PROVE  IndexInv'
<1>1. /\ pc = "advance" /\ n > 0 /\ nextdir # None /\ UNCHANGED <<op, dirn>>
      /\ UNCHANGED <<fileVars, tif_curdir, tif_nextdiroff, begun>>
  BY DEF AdvanceDirectory, Return, callVars, listVars
<1>2. n <= dirn /\ nextdir = Nth(dirn - n) /\ n \in Nat /\ dirn \in Nat /\ op = "set"
  BY <1>1, Sizes DEF IndexInv, CallIs, TypeOK, UInt16
<1>3. CASE Advanceable(nextdir) /\ nextdir' = next[nextdir] /\ n' = n - 1 /\ UNCHANGED pc
  <2>1. PICK i \in Nat : i = dirn - n
    BY <1>2
  <2>2. dirn' - n' = i + 1 /\ n' <= dirn'
    BY <1>1, <1>2, <1>3, <2>1
  <2>3. Nth(i + 1) = next[nextdir]
    BY <1>1, <1>2, <2>1, NthSteps DEF After
  <2>4. CallIs'
    BY <1>1, <1>2, <1>3, <2>2, <2>3, SameChain DEF CallIs
  <2> QED BY <1>1, <1>3, <2>4, SameIndex
<1>4. CASE Return(0)
  <2>1. pc' = "idle" /\ ret' = 0
    BY <1>1, <1>2, <1>4 DEF Return
  <2>2. CallIs'
    BY <1>1, <1>2, <2>1 DEF CallIs
  <2> QED BY <1>1, <2>1, <2>2, SameIndex
<1> QED BY <1>3, <1>4 DEF AdvanceDirectory

LEMMA AskIndex ==
  ASSUME NoWrap, TypeOK, IndexInv, Ask
  PROVE  IndexInv'
<1>1. CASE CallReadDirectory
  <2>1. /\ pc = "idle" /\ pc' = "read" /\ op' = "read"
        /\ UNCHANGED <<fileVars, tif_curdir, tif_nextdiroff, begun>>
    BY <1>1 DEF CallReadDirectory, Call, listVars
  <2>2. CallIs'
    BY <2>1 DEF CallIs
  <2> QED BY <2>1, <2>2, SameIndex
<1>2. CASE CallSetDirectory
  <2>1. PICK d \in 0..MaxDirn : Call("set", d) /\ n' = d
    BY <1>2 DEF CallSetDirectory
  <2>2. /\ pc = "idle" /\ pc' = "advance" /\ op' = "set" /\ dirn' = d /\ n' = d
        /\ nextdir' = header /\ UNCHANGED <<fileVars, tif_curdir, tif_nextdiroff, begun>>
    BY <1>2, <2>1 DEF CallSetDirectory, Call, FirstDir, listVars
  <2>3. Nth(0)' = header
    BY <2>2, SameChain, NthSteps
  <2>4. dirn' - n' = 0 /\ n' <= dirn'
    BY <2>2, Sizes
  <2>5. CallIs'
    BY <2>2, <2>3, <2>4 DEF CallIs
  <2> QED BY <2>2, <2>5, SameIndex
<1>3. CASE CallNumberOfDirectories
  <2>1. /\ pc = "idle" /\ pc' = "count" /\ op' = "number"
        /\ UNCHANGED <<fileVars, tif_curdir, tif_nextdiroff, begun>>
    BY <1>3 DEF CallNumberOfDirectories, Call, listVars
  <2>2. CallIs'
    BY <2>1 DEF CallIs
  <2> QED BY <2>1, <2>2, SameIndex
<1> QED BY <1>1, <1>2, <1>3 DEF Ask, SetSubDirectory, NoWrap

LEMMA ReadIndex ==
  ASSUME NoWrap, TypeOK, LInv, IndexInv, ReadDirectory
  PROVE  IndexInv'
<1>1. CASE Refuse \/ NoRoom
  <2>1. /\ pc = "read" /\ ret' = 0 /\ pc' \in {"idle", "closed"} /\ op' = op
        /\ UNCHANGED <<fileVars, tif_curdir, tif_nextdiroff, begun>>
    BY <1>1 DEF ReadDirectory, Refuse, NoRoom, Return, callVars, listVars
  <2>2. op \notin {"none", "sub"}
    BY <2>1 DEF IndexInv, CallIs
  <2>3. CallIs' /\ StartIs' /\ ReadingIs' /\ CurrentIsIndex'
    BY <2>1, <2>2 DEF CallIs, StartIs, ReadingIs, CurrentIsIndex, Loaded
  <2>4. BetweenIs'
    <3>1. \A i : NextIs(i)' = NextIs(i)
      BY <2>1, SameChain DEF NextIs
    <3>2. Highest' = Highest
      BY <2>1 DEF Highest
    <3> QED BY <2>1, <3>1, <3>2 DEF IndexInv, BetweenIs
  <2> QED BY <2>3, <2>4 DEF IndexInv
<1>2. CASE Accept
  BY <1>2, AcceptIndex
<1> QED BY <1>1, <1>2 DEF ReadDirectory

LEMMA NumberIndex ==
  ASSUME NoWrap, TypeOK, IndexInv, NumberOfDirectories
  PROVE  IndexInv'
<1>1. /\ pc = "count" /\ op' = op /\ op = "number" /\ pc' \in {"count", "idle"}
      /\ UNCHANGED <<fileVars, tif_curdir, tif_nextdiroff, begun>>
  BY DEF NumberOfDirectories, Return, callVars, listVars, IndexInv, CallIs
<1>2. CallIs'
  BY <1>1 DEF CallIs
<1> QED BY <1>1, <1>2, SameIndex

LEMMA NextIndex ==
  ASSUME NoWrap, TypeOK, LInv, IndexInv, [Next]_vars
  PROVE  IndexInv'
<1>1. CASE UNCHANGED vars
  <2>1. UNCHANGED <<fileVars, tif_curdir, tif_nextdiroff, begun, pc, op, n, dirn, nextdir,
                    tif_diroff, tif_dir, ret>>
    BY <1>1 DEF vars, fileVars
  <2>2. \A i : NextIs(i)' = NextIs(i) /\ CurrentIs(i)' = CurrentIs(i) /\ Nth(i)' = Nth(i)
    BY <2>1, SameChain DEF NextIs, CurrentIs
  <2>3. Highest' = Highest
    BY <2>1 DEF Highest
  <2>4. BetweenIs' /\ ReadingIs'
    BY <2>1, <2>2, <2>3 DEF IndexInv, BetweenIs, ReadingIs
  <2>5. StartIs' /\ CallIs' /\ CurrentIsIndex'
    BY <2>1, <2>2 DEF IndexInv, StartIs, CallIs, CurrentIsIndex, Loaded
  <2> QED BY <2>4, <2>5 DEF IndexInv
<1> QED
  BY <1>1, OpenIndex, AskIndex, ReadIndex, FetchIndex, FieldsIndex, AdvanceIndex, SetIndex,
     NumberIndex DEF Next, Step

\* When a call has succeeded, tif_curdir is the place in the chain of the directory in
\* memory, whatever calls came before it and however they failed, for a client that
\* stays on the chain and asks for no number so high that the index would wrap around
\* (tif_dirread.c:3416-3424, tif_dir.c:1543-1566, tif_open.c:592-599).
THEOREM IndexCorrect == NoWrap => (Spec => []CurrentIsIndex)
<1> SUFFICES ASSUME NoWrap PROVE Spec => []CurrentIsIndex
  OBVIOUS
<1>1. Init => TypeOK /\ LInv /\ IndexInv
  BY InitType, InitList, InitIndex
<1>2. TypeOK /\ LInv /\ IndexInv /\ [Next]_vars => (TypeOK /\ LInv /\ IndexInv)'
  BY NextType, NextList, NextIndex
<1>3. IndexInv => CurrentIsIndex
  BY DEF IndexInv
<1> QED
  BY <1>1, <1>2, <1>3, PTL DEF Spec

-----------------------------------------------------------------------------
(***************************************************************************)
(* The count.  While TIFFNumberOfDirectories walks, nextdir is the n-th    *)
(* directory and there was one at every place before.  On a chain without  *)
(* a circle those are all different, so that they are counted in order of  *)
(* their places; and the limit of a uint16 is not met in a file of no more *)
(* directories than that.                                                  *)
(***************************************************************************)
FewDirectories == IsFiniteSet(Offsets) /\ Cardinality(Offsets) <= MaxDirs

CountedTo(m) == m \in 0..MaxDirs /\ \A k \in 0..(m - 1) : Nth(k) # None

CountInv ==
  /\ pc \notin {"count", "idle"} => op # "number"
  /\ pc = "count" => op = "number" /\ CountedTo(n) /\ nextdir = Nth(n)
  /\ pc = "idle" /\ op = "number" =>
       /\ CountedTo(ret)
       /\ ret = MaxDirs \/ ~Advanceable(Nth(ret))

LEMMA SameCount ==
  ASSUME UNCHANGED fileVars, NEW m
  PROVE  CountedTo(m)' = CountedTo(m)
BY SameChain DEF CountedTo

LEMMA NumberCount ==
  ASSUME TypeOK, CountInv, NumberOfDirectories
  PROVE  CountInv'
<1>1. /\ pc = "count" /\ UNCHANGED fileVars /\ op = "number" /\ op' = op
      /\ CountedTo(n) /\ nextdir = Nth(n) /\ n \in 0..MaxDirs /\ n \in Nat
      /\ MaxDirs \in Nat \ {0}
  BY DirectoryAssumption DEF NumberOfDirectories, Return, callVars, CountInv, CountedTo,
                             DirectoryAssumption
<1>2. CASE /\ Advanceable(nextdir) /\ n # MaxDirs /\ n' = ToUInt16(n + 1)
           /\ nextdir' = next[nextdir] /\ UNCHANGED pc
  <2>1. n + 1 \in 0..MaxDirs
    BY <1>1, <1>2
  <2>2. n' = n + 1
    BY <1>1, <1>2, <2>1 DEF ToUInt16
  <2>3. CountedTo(n + 1)
    BY <1>1, <1>2, <2>1 DEF CountedTo, Advanceable
  <2>4. nextdir' = Nth(n + 1)
    BY <1>1, <1>2, NthSteps DEF After, Advanceable
  <2> QED BY <1>1, <1>2, <2>2, <2>3, <2>4, SameChain, SameCount DEF CountInv
<1>3. CASE n = MaxDirs /\ Return(MaxDirs)
  <2>1. pc' = "idle" /\ ret' = MaxDirs /\ CountedTo(MaxDirs)
    BY <1>1, <1>3 DEF Return
  <2> QED BY <1>1, <2>1, SameCount DEF CountInv
<1>4. CASE ~Advanceable(nextdir) /\ Return(n)
  <2>1. pc' = "idle" /\ ret' = n /\ CountedTo(n) /\ ~Advanceable(Nth(n))
    BY <1>1, <1>4 DEF Return
  <2> QED BY <1>1, <2>1, SameCount, SameChain DEF CountInv, Advanceable, fileVars
<1> QED BY <1>2, <1>3, <1>4 DEF NumberOfDirectories, MoreToCount

LEMMA NextCount ==
  ASSUME TypeOK, CountInv, [Next]_vars
  PROVE  CountInv'
<1>1. CASE NumberOfDirectories
  BY <1>1, NumberCount
<1>2. CASE CallNumberOfDirectories
  <2>1. /\ pc' = "count" /\ op' = "number" /\ n' = 0 /\ nextdir' = header /\ UNCHANGED fileVars
    BY <1>2 DEF CallNumberOfDirectories, Call, FirstDir
  <2>2. CountedTo(0)
    BY DirectoryAssumption DEF CountedTo, DirectoryAssumption
  <2>3. Nth(0)' = header
    BY <2>1, NthSteps, SameChain
  <2> QED BY <2>1, <2>2, <2>3, SameCount DEF CountInv
<1>3. CASE UNCHANGED vars
  <2>1. UNCHANGED <<fileVars, pc, op, n, nextdir, ret>>
    BY <1>3 DEF vars, fileVars
  <2>2. Advanceable(Nth(ret))' = Advanceable(Nth(ret))
    BY <2>1, SameChain DEF Advanceable, fileVars
  <2> QED BY <2>1, <2>2, SameChain, SameCount DEF CountInv
<1>4. CASE Open \/ CallReadDirectory \/ CallSetDirectory \/ SetSubDirectory
  <2>1. op' # "number" /\ pc' # "count"
    BY <1>4 DEF Open, ClientOpen, CallReadDirectory, CallSetDirectory, SetSubDirectory, Call
  <2> QED BY <2>1 DEF CountInv
<1>5. CASE ReadDirectory \/ FetchDirectory \/ Fields \/ AdvanceDirectory \/ SetDirectory
  <2>1. pc \notin {"count", "idle"} /\ op' = op /\ pc' # "count"
    BY <1>5 DEF ReadDirectory, Refuse, Accept, NoRoom, FetchDirectory, Fetched, FetchFails,
                FetchFailsLate, Fields, AdvanceDirectory, SetDirectory, Return, callVars
  <2> QED BY <2>1 DEF CountInv
<1> QED BY <1>1, <1>2, <1>3, <1>4, <1>5 DEF Next, Ask, Step

-----------------------------------------------------------------------------
\* The links followed from a set of directories, as ChainFrom follows them.
More(set) == set \cup ({next[o] : o \in set} \ {None})
IsReach(f, starts, i) == f = [k \in 0..i |-> IF k = 0 THEN starts ELSE More(f[k - 1])]

LEMMA ReachExists ==
  ASSUME NEW starts, NEW i \in Nat
  PROVE  \E f : IsReach(f, starts, i)
<1> DEFINE S == {m \in Nat : ~ \E f : IsReach(f, starts, m)}
<1>1. SUFFICES ASSUME S # {} PROVE FALSE
  BY <1>1
<1>2. PICK m \in S : \A k \in S : m <= k
  <2>1. S \in SUBSET Nat
    OBVIOUS
  <2> HIDE DEF S
  <2> QED BY <1>1, <2>1, LeastOf
<1>3. m \in Nat /\ ~ \E f : IsReach(f, starts, m)
  BY <1>2
<1>4. CASE m = 0
  <2>1. IsReach([k \in 0..0 |-> starts], starts, 0)
    BY DEF IsReach
  <2> QED BY <1>3, <1>4, <2>1
<1>5. CASE m # 0
  <2>1. m - 1 \in Nat /\ ~(m <= m - 1)
    BY <1>3, <1>5
  <2>2. PICK f : IsReach(f, starts, m - 1)
    BY <1>2, <2>1
  <2> DEFINE g == [k \in 0..m |-> IF k = 0 THEN starts ELSE More(f[k - 1])]
  <2>3. \A k \in 0..(m - 1) : g[k] = f[k]
    BY <1>3, <2>1, <2>2 DEF IsReach
  <2>4. \A k \in 0..m : k # 0 => k - 1 \in 0..(m - 1)
    BY <1>3
  <2>5. \A k \in 0..m : (IF k = 0 THEN starts ELSE More(f[k - 1]))
                          = (IF k = 0 THEN starts ELSE More(g[k - 1]))
    <3> HIDE DEF g
    <3> QED BY <2>3, <2>4
  <2>6. g = [k \in 0..m |-> IF k = 0 THEN starts ELSE More(g[k - 1])]
    <3>1. g = [k \in 0..m |-> IF k = 0 THEN starts ELSE More(f[k - 1])]
      OBVIOUS
    <3> HIDE DEF g
    <3> QED BY <2>5, <3>1, Zenon
  <2>7. IsReach(g, starts, m)
    BY <2>6 DEF IsReach
  <2> QED BY <1>3, <2>7
<1> QED BY <1>4, <1>5

LEMMA ChainFromIs ==
  ASSUME NEW starts
  PROVE  \E f : IsReach(f, starts, MaxDirs) /\ ChainFrom(starts) = f[MaxDirs]
<1> DEFINE reach == CHOOSE f : IsReach(f, starts, MaxDirs)
<1>1. IsReach(reach, starts, MaxDirs)
  BY ReachExists, DirectoryAssumption, Zenon DEF DirectoryAssumption
<1>2. ChainFrom(starts) = reach[MaxDirs]
  BY DEF ChainFrom, IsReach, More
<1> QED BY <1>1, <1>2

\* What is reached from the directory at a place is what follows it in the chain.
LEMMA ReachedAre ==
  ASSUME TypeOK, NEW i \in Nat
  PROVE  ChainFrom({Nth(i)} \ {None}) = {Nth(i + k) : k \in 0..MaxDirs} \ {None}
<1> DEFINE starts == {Nth(i)} \ {None}
           P(k) == {Nth(i + j) : j \in 0..k} \ {None}
<1>1. PICK f : IsReach(f, starts, MaxDirs) /\ ChainFrom(starts) = f[MaxDirs]
  BY ChainFromIs
<1>2. MaxDirs \in Nat
  BY DirectoryAssumption DEF DirectoryAssumption
<1> DEFINE S == {k \in 0..MaxDirs : f[k] # P(k)}
<1>3. SUFFICES S = {}
  <2>1. MaxDirs \in 0..MaxDirs /\ MaxDirs \notin S
    BY <1>2, <1>3
  <2>2. f[MaxDirs] = P(MaxDirs)
    BY <2>1
  <2> QED BY <1>1, <2>2
<1>4. SUFFICES ASSUME S # {} PROVE FALSE
  OBVIOUS
<1>5. PICK k \in S : \A m \in S : k <= m
  <2>1. S \in SUBSET Nat
    OBVIOUS
  <2> HIDE DEF S
  <2> QED BY <1>4, <2>1, LeastOf
<1>6. k \in 0..MaxDirs /\ f[k] # P(k)
  BY <1>5
<1>7. f[k] = (IF k = 0 THEN starts ELSE More(f[k - 1]))
  <2> HIDE DEF starts
  <2> QED BY <1>1, <1>6 DEF IsReach
<1>8. CASE k = 0
  <2>1. P(0) = starts
    <3>1. 0..0 = {0} /\ i + 0 = i
      OBVIOUS
    <3> QED BY <3>1
  <2> QED BY <1>6, <1>7, <1>8, <2>1
<1>9. CASE k # 0
  <2>1. PICK l \in Nat : k = l + 1 /\ l \in 0..MaxDirs /\ ~(k <= l)
    <3>1. k - 1 \in Nat /\ k = (k - 1) + 1 /\ k - 1 \in 0..MaxDirs /\ ~(k <= k - 1)
      BY <1>2, <1>6, <1>9
    <3> QED BY <3>1
  <2>2. f[l] = P(l)
    BY <1>5, <2>1
  <2>3. f[k] = More(P(l))
    BY <1>7, <1>9, <2>1, <2>2
  <2>4. More(P(l)) = P(k)
    <3>1. \A j \in 0..l : i + j \in Nat /\ i + (j + 1) = (i + j) + 1 /\ j + 1 \in 0..k /\ j \in 0..k
      BY <2>1
    <3>2. \A j \in 0..k : j = 0 \/ \E h \in 0..l : j = h + 1
      <4> SUFFICES ASSUME NEW j \in 0..k, j # 0 PROVE \E h \in 0..l : j = h + 1
        OBVIOUS
      <4>1. j - 1 \in 0..l /\ j = (j - 1) + 1
        BY <2>1
      <4> QED BY <4>1
    <3>3. \A j \in 0..l : Nth(i + (j + 1)) = After(Nth(i + j))
      BY <3>1, NthSteps
    <3>4. ASSUME NEW o \in More(P(l)) PROVE o \in P(k)
      <4>1. CASE o \in P(l)
        BY <3>1, <4>1
      <4>2. CASE o \notin P(l)
        <5>1. PICK q \in P(l) : o = next[q] /\ o # None
          BY <4>2 DEF More
        <5>2. PICK j \in 0..l : q = Nth(i + j) /\ q # None
          BY <5>1
        <5>3. o = Nth(i + (j + 1))
          BY <3>3, <5>1, <5>2 DEF After
        <5> QED BY <3>1, <5>1, <5>3
      <4> QED BY <4>1, <4>2
    <3>5. ASSUME NEW o \in P(k) PROVE o \in More(P(l))
      <4>1. PICK j \in 0..k : o = Nth(i + j) /\ o # None
        BY <3>5
      <4>2. CASE j = 0
        <5>1. 0 \in 0..l
          BY <2>1
        <5> QED BY <4>1, <4>2, <5>1 DEF More
      <4>3. CASE j # 0
        <5>1. PICK h \in 0..l : j = h + 1
          BY <3>2, <4>3
        <5>2. o = After(Nth(i + h))
          BY <3>3, <4>1, <5>1
        <5>3. Nth(i + h) # None /\ o = next[Nth(i + h)]
          BY <4>1, <5>2 DEF After
        <5>4. Nth(i + h) \in P(l)
          BY <5>3
        <5> QED BY <4>1, <5>3, <5>4 DEF More
      <4> QED BY <4>2, <4>3
    <3> HIDE DEF P
    <3> QED BY <3>4, <3>5
  <2> QED BY <1>6, <2>3, <2>4
<1> QED BY <1>8, <1>9

LEMMA NoneAfterNone ==
  ASSUME NEW m \in Nat, Nth(m) = None, NEW k \in Nat, m <= k
  PROVE  Nth(k) = None
<1> DEFINE S == {j \in Nat : m <= j /\ Nth(j) # None}
<1>1. SUFFICES ASSUME S # {} PROVE FALSE
  BY <1>1
<1>2. PICK j \in S : \A i \in S : j <= i
  <2>1. S \in SUBSET Nat
    OBVIOUS
  <2> HIDE DEF S
  <2> QED BY <1>1, <2>1, LeastOf
<1>3. j \in Nat /\ m <= j /\ Nth(j) # None /\ j # m
  BY <1>2
<1>4. PICK i \in Nat : j = i + 1 /\ m <= i /\ ~(j <= i)
  <2>1. j - 1 \in Nat /\ j = (j - 1) + 1 /\ m <= j - 1 /\ ~(j <= j - 1)
    BY <1>3
  <2> QED BY <2>1
<1>5. Nth(i) = None
  BY <1>2, <1>4
<1> QED BY <1>3, <1>4, <1>5, NthSteps DEF After

NoCircle == LET chain == ChainFrom({header} \ {None})
            IN  /\ \A o \in chain : Advanceable(o)
                /\ \A o \in chain : o \notin ChainFrom({next[o]} \ {None})

LEMMA ChainIs ==
  ASSUME TypeOK
  PROVE  ChainFrom({header} \ {None}) = {Nth(k) : k \in 0..MaxDirs} \ {None}
<1>1. \A k \in 0..MaxDirs : 0 + k = k
  BY DirectoryAssumption DEF DirectoryAssumption
<1>2. ChainFrom({header} \ {None}) = {Nth(0 + k) : k \in 0..MaxDirs} \ {None}
  BY ReachedAre, NthSteps
<1> QED BY <1>1, <1>2

\* No directory has two places.
LEMMA PlacesDiffer ==
  ASSUME TypeOK, NoCircle, NEW i \in 0..MaxDirs, NEW j \in 0..MaxDirs, i < j,
         Nth(i) # None, Nth(j) # None
  PROVE  Nth(i) # Nth(j)
<1>1. SUFFICES ASSUME Nth(i) = Nth(j) PROVE FALSE
  OBVIOUS
<1>2. MaxDirs \in Nat
  BY DirectoryAssumption DEF DirectoryAssumption
<1>3. Nth(i) \notin ChainFrom({next[Nth(i)]} \ {None})
  BY ChainIs DEF NoCircle
<1>4. i \in Nat /\ Nth(i + 1) = next[Nth(i)]
  BY NthSteps DEF After
<1>5. PICK k \in 0..MaxDirs : (i + 1) + k = j
  <2>1. (j - i) - 1 \in 0..MaxDirs /\ (i + 1) + ((j - i) - 1) = j
    BY <1>2
  <2> QED BY <2>1
<1>6. ChainFrom({Nth(i + 1)} \ {None}) = {Nth((i + 1) + h) : h \in 0..MaxDirs} \ {None}
  BY <1>4, ReachedAre
<1>7. Nth(j) \in ChainFrom({next[Nth(i)]} \ {None})
  BY <1>4, <1>5, <1>6
<1> QED BY <1>1, <1>3, <1>7

\* The last place of a uint16 is empty: the directories before it are all there are.
LEMMA LastIsNone ==
  ASSUME FewDirectories, TypeOK, NoCircle
  PROVE  Nth(MaxDirs) = None
<1>1. SUFFICES ASSUME Nth(MaxDirs) # None PROVE FALSE
  OBVIOUS
<1>2. MaxDirs \in Nat
  BY DirectoryAssumption DEF DirectoryAssumption
<1>3. \A k \in 0..MaxDirs : Nth(k) # None
  BY <1>1, <1>2, NoneAfterNone
<1> DEFINE f == [k \in 0..MaxDirs |-> Nth(k)]
<1>4. f \in [0..MaxDirs -> Offsets]
  BY <1>2, <1>3, NthType DEF Link
<1>5. IsFiniteSet(0..MaxDirs) /\ Cardinality(0..MaxDirs) = MaxDirs + 1
  BY <1>2, FS_Interval
<1>6. Cardinality(Offsets) < Cardinality(0..MaxDirs)
  BY <1>2, <1>5, FS_CardinalityType DEF FewDirectories
<1>7. PICK i \in 0..MaxDirs, j \in 0..MaxDirs : i # j /\ f[i] = f[j]
  <2> HIDE DEF f
  <2> QED BY <1>4, <1>5, <1>6, FS_PigeonHole DEF FewDirectories
<1>8. Nth(i) = Nth(j) /\ (i < j \/ j < i)
  BY <1>2, <1>7
<1> QED BY <1>3, <1>8, PlacesDiffer

LEMMA CountIsRight ==
  ASSUME FewDirectories, TypeOK, CountInv
  PROVE  CountsTheChain
<1> DEFINE chain == ChainFrom({header} \ {None})
<1> SUFFICES ASSUME pc = "idle", op = "number", NoCircle
             PROVE  \E f \in [chain -> 1..ret] :
                      /\ \A a, b \in chain : f[a] = f[b] => a = b
                      /\ \A i \in 1..ret : \E a \in chain : f[a] = i
  BY DEF CountsTheChain, NoCircle
<1>1. MaxDirs \in Nat /\ ret \in 0..MaxDirs /\ ret \in Nat
      /\ \A k \in 0..(ret - 1) : Nth(k) # None
  BY DirectoryAssumption DEF DirectoryAssumption, CountInv, CountedTo
<1>2. chain = {Nth(k) : k \in 0..MaxDirs} \ {None}
  BY ChainIs
<1>3. Nth(ret) = None
  <2>1. CASE ret = MaxDirs
    BY <2>1, LastIsNone
  <2>2. CASE ~Advanceable(Nth(ret))
    BY <1>1, <1>2, <2>2 DEF NoCircle
  <2> QED BY <2>1, <2>2 DEF CountInv
<1>4. \A k \in 0..MaxDirs : Nth(k) # None <=> k \in 0..(ret - 1)
  BY <1>1, <1>3, NoneAfterNone
<1>5. chain = {Nth(k) : k \in 0..(ret - 1)}
  BY <1>1, <1>2, <1>4
<1>6. \A i, j \in 0..(ret - 1) : Nth(i) = Nth(j) => i = j
  <2> SUFFICES ASSUME NEW i \in 0..(ret - 1), NEW j \in 0..(ret - 1), Nth(i) = Nth(j), i # j
               PROVE  FALSE
    OBVIOUS
  <2>1. i \in 0..MaxDirs /\ j \in 0..MaxDirs /\ (i < j \/ j < i)
    BY <1>1
  <2> QED BY <1>1, <2>1, PlacesDiffer
<1> HIDE DEF chain
<1> DEFINE place(a) == CHOOSE k \in 0..(ret - 1) : Nth(k) = a
           f == [a \in chain |-> place(a) + 1]
<1>7. \A a \in chain : place(a) \in 0..(ret - 1) /\ Nth(place(a)) = a
  BY <1>5
<1>8. \A k \in 0..(ret - 1) : Nth(k) \in chain /\ place(Nth(k)) = k
  <2> SUFFICES ASSUME NEW k \in 0..(ret - 1) PROVE Nth(k) \in chain /\ place(Nth(k)) = k
    OBVIOUS
  <2>1. Nth(k) \in chain
    BY <1>5
  <2> QED BY <1>6, <1>7, <2>1
<1> HIDE DEF place
<1>9. f \in [chain -> 1..ret]
  <2>1. \A a \in chain : place(a) + 1 \in 1..ret
    BY <1>1, <1>7
  <2> QED BY <2>1
<1>10. ASSUME NEW a \in chain, NEW b \in chain, f[a] = f[b] PROVE a = b
  <2>1. place(a) = place(b)
    BY <1>1, <1>7, <1>10
  <2> QED BY <1>7, <2>1
<1>11. ASSUME NEW i \in 1..ret PROVE \E a \in chain : f[a] = i
  <2>1. i - 1 \in 0..(ret - 1) /\ (i - 1) + 1 = i
    BY <1>1
  <2>2. Nth(i - 1) \in chain /\ f[Nth(i - 1)] = i
    BY <1>8, <2>1
  <2> QED BY <2>2
<1> HIDE DEF f
<1> QED BY <1>9, <1>10, <1>11

\* TIFFNumberOfDirectories answers how many directories are on the chain, when it
\* ends and can be followed and a uint16 can count the directories of the file,
\* whatever was called before and whichever directory is current
\* (tif_dir.c:1505-1530).
THEOREM CountCorrect == FewDirectories => (Spec => []CountsTheChain)
<1> SUFFICES ASSUME FewDirectories PROVE Spec => []CountsTheChain
  OBVIOUS
<1>1. Init => TypeOK /\ CountInv
  BY InitType DEF Init, CountInv
<1>2. TypeOK /\ CountInv /\ [Next]_vars => (TypeOK /\ CountInv)'
  BY NextType, NextCount
<1>3. TypeOK /\ CountInv => CountsTheChain
  BY CountIsRight
<1> QED
  BY <1>1, <1>2, <1>3, PTL DEF Spec
=============================================================================
