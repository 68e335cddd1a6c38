-------------------------------- MODULE Codec --------------------------------
(***************************************************************************)
(* What the codecs of libtiff have in common (tif_codec.c, tif_write.c,    *)
(* tif_read.c): a strip is encoded into the raw buffer, which is flushed   *)
(* to the file when it is nearly full; later the strip is decoded, in as   *)
(* many calls as the client makes.  A strip may also have been written by  *)
(* another program, and then its bytes can be anything.                    *)
(***************************************************************************)
EXTENDS Integers, Sequences, SequencesExt

CONSTANTS Values,      \* of a byte of the image
          RowSize,     \* tif_scanlinesize
          ForeignSize, \* bound: bytes of a strip of another program, decoded
          RawSize      \* tif_rawdatasize

ASSUME CodecAssumption ==
  /\ Values \subseteq Nat
  /\ RowSize \in Nat \ {0} /\ ForeignSize \in Nat \ {0} /\ RawSize \in Nat \ {0}

VARIABLES
  scheme,     \* the codec of the directory
  foreign,    \* the strip was written by another program
  data,       \* the strip before it was encoded
  given,      \* how many of its bytes the encoder has been given
  stream,     \* what is in the file: bytes, or codes
  pc,
  asked,      \* occ0 of the decoding call
  buf,        \* what the call has put into the client's buffer
  taken,      \* how many bytes the calls so far have asked for
  ret,
  failed,     \* history: a call has failed
  astray      \* history: a byte was put outside of a buffer

stripVars == <<scheme, foreign, data>>
clientVars == <<asked, buf, taken, ret, failed, astray>>
codecVars == <<stripVars, given, stream, pc, clientVars>>

Smaller(m, n) == IF m < n THEN m ELSE n
Strips(lengths) == UNION {[1..n -> Values] : n \in lengths}
StripSize == IF foreign THEN ForeignSize ELSE Len(data)

occ == asked - Len(buf)

CodecInit ==
  /\ given = 0
  /\ asked = 0
  /\ buf = <<>> /\ taken = 0
  /\ ret = 1
  /\ failed = FALSE
  /\ astray = FALSE

\* TIFFReadScanline, TIFFReadEncodedStrip: the client asks for the next bytes of
\* the strip.  It may go on after a call that failed: the next scanline does.
Ask(sizes) ==
  /\ pc = "idle"
  /\ asked' \in sizes
  /\ taken + asked' <= StripSize
  /\ buf' = <<>>
  /\ ret' = 1
  /\ pc' = "call"
  /\ UNCHANGED <<stripVars, given, stream, taken, failed, astray>>

\* The call returns; with most codecs it fails if the buffer has not been filled.
Finish(bytes, ok) ==
  /\ buf' = bytes
  /\ taken' = taken + asked
  /\ ret' = IF ok THEN 1 ELSE 0
  /\ failed' = (failed \/ ~ok)
  /\ pc' = "idle"
Return(bytes) == Finish(bytes, Len(bytes) >= asked)
=============================================================================
