------------------------- MODULE JavaInputStream -------------------------
(***************************************************************************)
(* The contract of java.io.InputStream as far as the adaptor uses it: the  *)
(* results each call may have on a stream of Len bytes (counted from the   *)
(* point where decoding starts) whose next byte is at pos.  A result is    *)
(* the position afterwards, the value returned and whether the call threw. *)
(* External: the streams belong to the platform and to the application.    *)
(***************************************************************************)
EXTENDS Integers

CONSTANTS Len,             \* bytes in the stream
          ExactAvailable,  \* available() is the count left, not an estimate
          FullSkip,        \* skip(n) stops early only at the end
          MarkSupported,   \* mark and reset work
          MarkStrict,      \* reset throws once the mark's readLimit is passed
          Throws           \* the calls that may throw IOException

ASSUME StreamAssumption ==
  /\ Len \in Nat
  /\ ExactAvailable \in BOOLEAN
  /\ FullSkip \in BOOLEAN
  /\ MarkSupported \in BOOLEAN
  /\ MarkStrict \in BOOLEAN
  /\ Throws \subseteq {"read", "skip", "available"}

Smaller(a, b) == IF a <= b THEN a ELSE b

Returns(p, r) == [pos |-> p, ret |-> r, thrown |-> FALSE]

\* The stream may have moved by up to n bytes when the call throws.
Failures(call, pos, n) ==
  IF call \in Throws
  THEN {[pos |-> p, ret |-> 0, thrown |-> TRUE] : p \in pos..Smaller(pos + n, Len)}
  ELSE {}

\* available(): the bytes that can be read without blocking.
JavaAvailable(pos) ==
  {Returns(pos, n) : n \in IF ExactAvailable THEN {Len - pos} ELSE 0..(Len - pos)}
    \cup Failures("available", pos, 0)

\* read(b, 0, n): at least one byte, or -1 at the end; 0 only when n is 0,
\* and some streams answer -1 to that too when they are at the end.
JavaRead(pos, n) ==
  {Returns(pos + k, k) : k \in (IF n = 0 THEN 0 ELSE 1)..Smaller(n, Len - pos)}
    \cup (IF pos = Len THEN {Returns(pos, -1)} ELSE {})
    \cup Failures("read", pos, n)

\* skip(n): a negative n moves nothing.
JavaSkip(pos, n) ==
  LET most == IF n <= 0 THEN 0 ELSE Smaller(n, Len - pos)
  IN  {Returns(pos + k, k) : k \in IF FullSkip THEN {most} ELSE 0..most}
        \cup Failures("skip", pos, most)

\* reset() to the mark set at offset 0 with this readLimit.
JavaReset(pos, readLimit) ==
  IF MarkSupported /\ (MarkStrict => pos <= readLimit)
  THEN Returns(0, 0)
  ELSE [pos |-> pos, ret |-> 0, thrown |-> TRUE]
=============================================================================
