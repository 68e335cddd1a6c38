-------------------------------- MODULE Codecs --------------------------------
(***************************************************************************)
(* The codecs PackBits and LZW, one of which a directory names             *)
(* (TIFFSetCompressionScheme, tif_compress.c): what both promise.          *)
(***************************************************************************)
EXTENDS PackBits, Lzw, Fax3

CONSTANTS PackBitsLengths, LzwLengths,   \* bound: the lengths of a strip
          ForeignBytes     \* bound: bytes of a strip of another program, encoded

ASSUME CodecsAssumption ==
  /\ PackBitsLengths \subseteq Nat /\ LzwLengths \subseteq Nat \ {0}
  /\ ForeignBytes \in Nat

vars == <<codecVars, packbitsVars, lzwVars, faxVars>>

PackBitsStreams == UNION {[1..n -> Bytes] : n \in 0..ForeignBytes}

Init == \/ /\ scheme = "packbits"
           /\ PackBitsInit(Strips(PackBitsLengths), PackBitsStreams)
           /\ LzwIdle /\ FaxIdle
        \/ /\ scheme = "lzw"
           /\ LzwInit(Strips(LzwLengths))
           /\ PackBitsIdle /\ FaxIdle
        \/ /\ scheme \in FaxSchemes
           /\ FaxInit
           /\ PackBitsIdle /\ LzwIdle

Next == \/ scheme = "packbits" /\ PackBitsNext /\ UNCHANGED <<lzwVars, faxVars>>
        \/ scheme = "lzw" /\ LzwNext /\ UNCHANGED <<packbitsVars, faxVars>>
        \/ scheme \in FaxSchemes /\ FaxNext /\ UNCHANGED <<packbitsVars, lzwVars>>

\* A call to decode, once made, goes on.
Decode == \/ scheme = "packbits" /\ PackBitsDecode /\ UNCHANGED <<lzwVars, faxVars>>
          \/ scheme = "lzw" /\ LzwDecode /\ UNCHANGED <<packbitsVars, faxVars>>
          \/ scheme \in FaxSchemes /\ FaxDecode /\ UNCHANGED <<packbitsVars, lzwVars>>

Spec == Init /\ [][Next]_vars /\ WF_vars(Decode)

-----------------------------------------------------------------------------
\* The values the variables take (tif_packbits.c, tif_lzw.c).
TypeOK == /\ scheme \in {"packbits", "lzw"} \cup FaxSchemes
          /\ given \in 0..Len(data)
          /\ ret \in {0, 1}
          /\ taken \in 0..StripSize
          /\ asked \in 0..StripSize
          /\ scheme = "packbits" => PackBitsTypeOK
          /\ scheme = "lzw" => LzwTypeOK
          /\ scheme \in FaxSchemes => FaxTypeOK

\* What was encoded is decoded, however the strip is divided into calls: no
\* run, literal or code string is lost where a buffer was flushed, a row
\* ended, the code table was cleared or the client's buffer was full
\* (tif_packbits.c:65-184, 213-262, tif_lzw.c:360-568, 866-1055, tif_fax3.c:945-1075,
\* 1380-1450).
RoundTrip == pc = "idle" /\ ~foreign /\ whole =>
  ret = 1 /\ (taken > 0 => buf = SubSeq(data, taken - asked + 1, taken))

\* Whatever the strip holds, and even after a call that failed, nothing is put
\* beyond the client's buffer or the raw buffer (tif_packbits.c:88-110, 236-262,
\* tif_lzw.c:385-422, 504-541, 822-826, 956-960, tif_fax3.h:285-303).
InBuffers ==
  /\ ~astray
  /\ Len(buf) <= asked
  /\ Len(raw) <= RawSize
  /\ enc.op <= RawSize

\* The decoder is one entry behind the encoder all the time, and still reads each
\* code at the width it was written at (tif_lzw.c:45-52, 485-490, 980-984).
ReadAsWritten == ~foreign => ~misread

\* Until a call fails, the strings of the code table are as long as they say and
\* each goes back to an older one, whatever the codes are: "loop in the code
\* table" is never found (tif_lzw.c:351-357, 473-538).
NoLoopInTable ==
  ~failed =>
    \A p \in CODE_FIRST..(loc.free - 1) :
      dec_codetab[p].length > 0 =>
        /\ dec_codetab[p].next < p
        /\ Len(Chain(dec_codetab, p, CSIZE)) = dec_codetab[p].length

\* A call to decode returns, whatever the strip holds.  After a failed call the
\* chain of a string may go in a circle, but no call goes round it
\* (tif_packbits.c:224-265, tif_lzw.c:434-544).
CallsReturn == (pc = "call") ~> (pc = "idle")
=============================================================================
