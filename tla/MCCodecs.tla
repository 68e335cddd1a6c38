------------------------------- MODULE MCCodecs -------------------------------
(***************************************************************************)
(* An instance of the codecs for TLC: a code table of eleven codes.        *)
(***************************************************************************)
EXTENDS Codecs

\* MAXCODE(9), ..., MAXCODE(12): one entry more for each width but the last.
Codes == <<5, 6, 7, 10>>

\* Rows that are compared in each mode.
Rows == {<<1, 0, 0, 1, 1, 0>>, <<0, 0, 0, 0, 1, 1>>}
=============================================================================
