--------------------------- MODULE TiffDirectory ---------------------------
(***************************************************************************)
(* How libtiff walks the chain of directories of a file it reads:          *)
(* TIFFClientOpen's first directory (tif_open.c), TIFFReadDirectory with   *)
(* the list that keeps it out of circular chains (tif_dirread.c), and the  *)
(* calls that move to a directory by number or by offset, or count them    *)
(* (tif_dir.c).  One client uses one handle; a call is a sequence of       *)
(* steps, one for each directory it visits and each test it makes.         *)
(***************************************************************************)
EXTENDS Integers

CONSTANTS Offsets,         \* where there may be directories in the file
          Kinds,           \* what may be found there
          MaxDirs,         \* 65535: the largest uint16
          MaxDirn,         \* bound: largest number asked of TIFFSetDirectory
          SubDirectories,  \* the client calls TIFFSetSubDirectory
          MayRunOut        \* memory allocation may fail

AllKinds == {"good",        \* a directory libtiff accepts
             "bad",         \* readable, but its fields are refused
             "odd",         \* of 0 or of more than 4096 entries
             "cut",         \* the file ends before the link to the next one
             "unreadable"}  \* beyond the end of the file

ASSUME DirectoryAssumption ==
  /\ Offsets \subseteq Nat \ {0}
  /\ Kinds \subseteq AllKinds
  /\ MaxDirs \in Nat \ {0}
  /\ MaxDirn \in 0..MaxDirs
  /\ SubDirectories \in BOOLEAN
  /\ MayRunOut \in BOOLEAN

VARIABLES
  header, next, kind,   \* the file: it does not change
  tif_diroff,           \* the offset of the directory last turned to
  tif_nextdiroff,       \* the offset the next call turns to
  tif_curdir,
  tif_dirlist,          \* the offsets seen
  tif_dirlistsize,      \* how many it has room for
  tif_dirnumber,        \* how many it is said to hold
  tif_dir,              \* the directory the field values in memory come from
  pc,
  op, dirn,             \* the call of the client and its argument
  n, nextdir,           \* the local variables of its loop
  ret,                  \* what the last call returned
  begun                 \* history: offsets accepted since the list was started

fileVars == <<header, next, kind>>
listVars == <<tif_dirlist, tif_dirlistsize, tif_dirnumber, begun>>
callVars == <<op, dirn>>
loopVars == <<n, nextdir>>
vars == <<header, next, kind, tif_diroff, tif_nextdiroff, tif_curdir, tif_dirlist,
          tif_dirlistsize, tif_dirnumber, tif_dir, pc, op, dirn, n, nextdir, ret, begun>>

None == 0           \* no directory; also what a cell nobody wrote may hold
Link == Offsets \cup {None}
UInt16 == 0..MaxDirs
ToUInt16(x) == x % (MaxDirs + 1)

Init == /\ header \in Link
        /\ next \in [Offsets -> Link]
        /\ kind \in [Offsets -> Kinds]
        /\ tif_diroff = None
        /\ tif_nextdiroff = None
        /\ tif_curdir = ToUInt16(-1)
        /\ tif_dirlist = [i \in 0..(MaxDirs - 1) |-> None]
        /\ tif_dirlistsize = 0
        /\ tif_dirnumber = 0
        /\ tif_dir = None
        /\ pc = "closed"
        /\ op = "none"
        /\ dirn = 0
        /\ n = 0
        /\ nextdir = None
        /\ ret = 0
        /\ begun = {}

(***************************************************************************)
(* TIFFClientOpen has read the header.  It goes on to the first directory, *)
(* unless the mode says "h"; when that cannot be read the handle is freed. *)
(***************************************************************************)
ClientOpen(mode) ==
  /\ pc = "closed"
  /\ op = "none"
  /\ tif_nextdiroff' = header
  /\ op' = mode
  /\ IF mode = "header" THEN pc' = "idle" /\ ret' = 1
                        ELSE pc' = "read" /\ UNCHANGED ret
  /\ UNCHANGED <<fileVars, tif_diroff, tif_curdir, listVars, tif_dir, dirn, loopVars>>

Call(name, arg) == /\ pc = "idle"
                   /\ op' = name
                   /\ dirn' = arg

Return(r) == /\ ret' = r
             /\ pc' = IF op = "open" /\ r = 0 THEN "closed" ELSE "idle"
             /\ n' = 0
             /\ nextdir' = None
             /\ UNCHANGED callVars

(***************************************************************************)
(* TIFFReadDirectory, first part: TIFFCheckDirOffset.  A cell of the list  *)
(* that was never written may compare equal to anything.                   *)
(***************************************************************************)
CallReadDirectory ==
  /\ Call("read", 0)
  /\ pc' = "read"
  /\ UNCHANGED <<fileVars, tif_diroff, tif_nextdiroff, tif_curdir, listVars, tif_dir,
                 loopVars, ret>>

\* The cells the search looks at; there is no list before the first is made.
Compared == IF tif_dirlistsize = 0 THEN {}
            ELSE {tif_dirlist[i] : i \in 0..(tif_dirnumber - 1)}

\* mutant: only the directory just left is compared
MustRefuseLast(off) ==
  off = None \/ tif_dirnumber = MaxDirs
    \/ (tif_dirnumber > 0 /\ tif_dirlist[tif_dirnumber - 1] = off)
MustRefuse(off) == off = None \/ tif_dirnumber = MaxDirs \/ off \in Compared
MayRefuse(off) == MustRefuse(off) \/ None \in Compared

Refuse == /\ MayRefuse(tif_nextdiroff)
          /\ Return(0)
          /\ UNCHANGED <<tif_curdir, listVars>>

Grown(number) == IF 2 * number > MaxDirs THEN MaxDirs ELSE 2 * number

\* mutant: the new entry is not counted
CountedNot(number) == number
Counted(number) == number + 1

Accept == /\ ~MustRefuse(tif_nextdiroff)
          /\ tif_dirnumber' = Counted(tif_dirnumber)
          /\ tif_dirlistsize' = IF tif_dirnumber' > tif_dirlistsize
                                THEN Grown(tif_dirnumber') ELSE tif_dirlistsize
          /\ tif_dirlist' = [tif_dirlist EXCEPT ![tif_dirnumber] = tif_nextdiroff]
          /\ begun' = begun \cup {tif_nextdiroff}
          /\ tif_curdir' = ToUInt16(tif_curdir + 1)
          /\ pc' = "fetch"
          /\ UNCHANGED <<callVars, loopVars, ret>>

\* The list cannot be made larger: it is left as it is, but counts one more.
NoRoom == /\ MayRunOut
          /\ ~MustRefuse(tif_nextdiroff)
          /\ tif_dirnumber + 1 > tif_dirlistsize
          /\ tif_dirnumber' = tif_dirnumber + 1
          /\ Return(0)
          /\ UNCHANGED <<tif_curdir, tif_dirlist, tif_dirlistsize, begun>>

ReadDirectory == /\ pc = "read"
                 /\ tif_diroff' = tif_nextdiroff
                 /\ Refuse \/ Accept \/ NoRoom
                 /\ UNCHANGED <<fileVars, tif_nextdiroff, tif_dir>>

(***************************************************************************)
(* TIFFFetchDirectory: the count, the entries, the link; then the fields.  *)
(* A link that cannot be read is taken for the last one.                   *)
(***************************************************************************)
Following(off) == IF kind[off] = "cut" THEN None ELSE next[off]

Fetched == /\ kind[tif_diroff] \in {"good", "bad", "cut"}
           /\ tif_nextdiroff' = Following(tif_diroff)
           /\ tif_dir' = tif_diroff
           /\ pc' = "fields"
           /\ UNCHANGED <<callVars, loopVars, ret>>

FetchFails == /\ kind[tif_diroff] \in {"odd", "unreadable"} \/ MayRunOut
              /\ tif_nextdiroff' = None
              /\ Return(0)
              /\ UNCHANGED tif_dir

\* The last allocation is made when the link has been read.
FetchFailsLate == /\ MayRunOut
                  /\ kind[tif_diroff] \in {"good", "bad", "cut"}
                  /\ tif_nextdiroff' = Following(tif_diroff)
                  /\ Return(0)
                  /\ UNCHANGED tif_dir

FetchDirectory == /\ pc = "fetch"
                  /\ Fetched \/ FetchFails \/ FetchFailsLate
                  /\ UNCHANGED <<fileVars, tif_diroff, tif_curdir, listVars>>

Fields == /\ pc = "fields"
          /\ \/ kind[tif_diroff] \in {"good", "cut"} /\ Return(1)
             \/ (kind[tif_diroff] = "bad" \/ MayRunOut) /\ Return(0)
          /\ UNCHANGED <<fileVars, tif_diroff, tif_nextdiroff, tif_curdir, listVars, tif_dir>>

(***************************************************************************)
(* TIFFSetDirectory walks to the directory from the header, reading counts *)
(* and links only; TIFFSetSubDirectory takes an offset.  Both start a new  *)
(* list in the old memory.                                                 *)
(***************************************************************************)
FirstDirNext == tif_nextdiroff   \* mutant: starts behind the current directory
FirstDir == header

CallSetDirectory ==
  /\ \E d \in 0..MaxDirn : Call("set", d) /\ n' = d
  /\ nextdir' = FirstDir
  /\ pc' = "advance"
  /\ UNCHANGED <<fileVars, tif_diroff, tif_nextdiroff, tif_curdir, listVars, tif_dir, ret>>

Advanceable(off) == off # None /\ kind[off] \in {"good", "bad", "odd"}

AdvanceDirectory ==
  /\ pc = "advance"
  /\ n > 0
  /\ nextdir # None
  /\ \/ /\ Advanceable(nextdir)
        /\ nextdir' = next[nextdir]
        /\ n' = n - 1
        /\ UNCHANGED <<pc, callVars, ret>>
     \/ ~Advanceable(nextdir) /\ Return(0)
  /\ UNCHANGED <<fileVars, tif_diroff, tif_nextdiroff, tif_curdir, listVars, tif_dir>>

\* mutants: the 1 that the reading adds is not taken off; 0 - 1 is no uint16
CurdirAsked(asked, left) == ToUInt16(asked - left)
CurdirNegative(asked, left) == (asked - left) - 1
Curdir(asked, left) == ToUInt16((asked - left) - 1)

StartList == /\ tif_dirnumber' = 0
             /\ begun' = {}
             /\ UNCHANGED <<tif_dirlist, tif_dirlistsize>>

SetDirectory ==
  /\ pc = "advance"
  /\ n = 0 \/ nextdir = None
  /\ tif_nextdiroff' = nextdir
  /\ tif_curdir' = Curdir(dirn, n)
  /\ StartList
  /\ pc' = "read"
  /\ UNCHANGED <<fileVars, tif_diroff, tif_dir, callVars, loopVars, ret>>

SetSubDirectory ==
  /\ SubDirectories
  /\ Call("sub", 0)
  /\ tif_nextdiroff' \in Link
  /\ StartList
  /\ pc' = "read"
  /\ UNCHANGED <<fileVars, tif_diroff, tif_curdir, tif_dir, loopVars, ret>>

(***************************************************************************)
(* TIFFNumberOfDirectories walks the chain to its end, or 65535 steps.     *)
(***************************************************************************)
CallNumberOfDirectories ==
  /\ Call("number", 0)
  /\ n' = 0
  /\ nextdir' = FirstDir
  /\ pc' = "count"
  /\ UNCHANGED <<fileVars, tif_diroff, tif_nextdiroff, tif_curdir, listVars, tif_dir, ret>>

MoreToCountAlways == TRUE     \* mutant: no limit, and n wraps around
MoreToCount == n # MaxDirs

NumberOfDirectories ==
  /\ pc = "count"
  /\ \/ /\ Advanceable(nextdir)
        /\ \/ /\ MoreToCount
              /\ n' = ToUInt16(n + 1)
              /\ nextdir' = next[nextdir]
              /\ UNCHANGED <<pc, callVars, ret>>
           \/ ~MoreToCount /\ Return(MaxDirs)
     \/ ~Advanceable(nextdir) /\ Return(n)
  /\ UNCHANGED <<fileVars, tif_diroff, tif_nextdiroff, tif_curdir, listVars, tif_dir>>

Open == ClientOpen("open") \/ ClientOpen("header")
Ask == CallReadDirectory \/ CallSetDirectory \/ SetSubDirectory \/ CallNumberOfDirectories
Step == \/ ReadDirectory \/ FetchDirectory \/ Fields
        \/ AdvanceDirectory \/ SetDirectory \/ NumberOfDirectories
Next == Open \/ Ask \/ Step

Spec == Init /\ [][Next]_vars

\* The client's thread goes on with the call it has made.
FairSpec == Spec /\ WF_vars(Step)

-----------------------------------------------------------------------------
Steps == {"closed", "idle", "read", "fetch", "fields", "advance", "count"}
Ops == {"none", "open", "header", "read", "set", "sub", "number"}

\* The values the variables take: the count of the list and its size stay
\* within the uint16 they are kept in (tif_dirread.c:4380-4407), and a step
\* that reads a directory has an offset to read at.
TypeOK ==
  /\ header \in Link
  /\ next \in [Offsets -> Link]
  /\ kind \in [Offsets -> Kinds]
  /\ tif_diroff \in Link
  /\ tif_nextdiroff \in Link
  /\ tif_curdir \in UInt16
  /\ tif_dirlist \in [0..(MaxDirs - 1) -> Link]
  /\ tif_dirlistsize \in UInt16
  /\ tif_dirnumber \in UInt16
  /\ tif_dir \in Link
  /\ pc \in Steps
  /\ op \in Ops
  /\ dirn \in 0..MaxDirn
  /\ n \in UInt16
  /\ nextdir \in Link
  /\ ret \in UInt16
  /\ begun \subseteq Offsets
  /\ pc \in {"fetch", "fields"} => tif_diroff # None

\* However the directories are chained, none is turned to a second time until
\* the client itself starts over: the trick against IFD looping
\* (tif_dirread.c:4367-4414).
NoDirectoryTwice ==
  [][pc = "read" /\ pc' = "fetch" => tif_nextdiroff \notin begun]_vars

\* The list compared against is what it is kept for, the directories already
\* seen, each of them and nothing else (tif_dirread.c:4367-4372).
ListIsHistory ==
  /\ tif_dirnumber <= tif_dirlistsize
  /\ {tif_dirlist[i] : i \in 0..(tif_dirnumber - 1)} = begun

\* The i-th directory of the chain, counted from the header.
Nth(i) ==
  LET f[k \in 0..i] == IF k = 0 THEN header
                       ELSE IF f[k - 1] = None THEN None ELSE next[f[k - 1]]
  IN  f[i]

Loaded == pc = "idle" /\ op \in {"open", "read", "set", "sub"} /\ ret = 1

\* When a call has succeeded, tif_curdir is the index of the directory whose
\* fields are in memory, whatever the calls before it and however they failed:
\* TIFFCurrentDirectory can be handed to TIFFSetDirectory (tif_open.c:592-599).
CurrentIsIndex ==
  Loaded => tif_dir = tif_diroff /\ tif_dir = Nth(tif_curdir)

\* The directories the links lead to from the header.
ChainFrom(starts) ==
  LET reach[k \in 0..MaxDirs] ==
        IF k = 0 THEN starts
        ELSE reach[k - 1] \cup ({next[o] : o \in reach[k - 1]} \ {None})
  IN  reach[MaxDirs]

\* On a chain that ends and can be followed to its end, TIFFNumberOfDirectories
\* answers how many directories there are on it, whichever directory is current
\* (tif_dir.c:1505-1530).
CountsTheChain ==
  LET chain == ChainFrom({header} \ {None})
  IN  pc = "idle" /\ op = "number"
        /\ (\A o \in chain : Advanceable(o))
        /\ (\A o \in chain : o \notin ChainFrom({next[o]} \ {None}))
      => \E f \in [chain -> 1..ret] :
           /\ \A a, b \in chain : f[a] = f[b] => a = b
           /\ \A i \in 1..ret : \E a \in chain : f[a] = i

\* Every call comes back, on circular chains too (tif_dir.c:1516-1528,
\* 1546-1548).
CallsReturn ==
  (pc \notin {"idle", "closed"}) ~> (pc \in {"idle", "closed"})

\* A client that does nothing but read directories, while (TIFFReadDirectory(tif)),
\* comes to an end on every file, whatever it did before: a circular chain is cut
\* where it closes (tif_dirread.c:3416-3418).
ScanEnds ==
  []<>(pc = "read") /\ <>[](op = "read") => []<>(pc = "idle" /\ ret = 0)
=============================================================================
