------------------------------- MODULE MCMemBio -------------------------------
(***************************************************************************)
(* MemBio for TLC: the eof_value a caller sets is the writable default -1 *)
(* or 0 (plain EOF), the values the header recommends, or 1, a positive   *)
(* value the header warns is ambiguous with a one-byte read.              *)
(***************************************************************************)
EXTENDS MemBio

MCEofValues == {-1, 0, 1}

=============================================================================
