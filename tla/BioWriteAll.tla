----------------------------- MODULE BioWriteAll -----------------------------
(***************************************************************************)
(* BIO_write_all (include/CCryptoBoringSSL_bio.h, "Basic I/O") writes a    *)
(* size_t-long buffer through the int-length BIO_write, looping while the *)
(* BIO accepts part of it, and returns 1 when all of it is written and 0   *)
(* as soon as one BIO_write fails.  Below it is a non-blocking BIO whose  *)
(* write hook accepts any prefix of what it is given, asks for a retry    *)
(* (BIO_set_retry_write), or fails for good.  Above it is a caller that,  *)
(* after a 0 with BIO_should_retry, calls BIO_write_all again with the    *)
(* unwritten suffix, which it finds from BIO_number_written since          *)
(* BIO_write_all does not report how much it wrote.                        *)
(*                                                                         *)
(* Bytes are named by their position in the caller's buffer: the sink is  *)
(* the sequence of positions the BIO received.                            *)
(***************************************************************************)
EXTENDS Integers, Sequences, BioFlags

CONSTANTS
  IntBits,    \* width of int: BIO_write's len and result
  MaxLen,     \* longest buffer the caller writes (a size_t)
  MaxBlocks   \* bound on the would-block results the BIO gives

\* INT_MAX for an IntBits-wide int.
INT_MAX == 2^(IntBits - 1) - 1

VARIABLES
  data_len,        \* the caller's buffer length
  cpc,             \* the caller: "call", "inside" BIO_write_all, "returned", "done"
  cret,            \* the latest BIO_write_all result
  pos,             \* BIO_write_all's data pointer, as a buffer position
  len,             \* BIO_write_all's remaining len
  sink,            \* positions the BIO has received, in order
  number_written,  \* BIO_number_written
  flags,           \* the BIO's retry flags
  broken,          \* the BIO has failed permanently
  blocks           \* would-block results so far

vars == <<data_len, cpc, cret, pos, len, sink, number_written, flags,
          broken, blocks>>
backend == <<sink, number_written, flags, broken, blocks>>

(***************************************************************************)
(* The int passed to BIO_write for a size_t remainder n.                  *)
(***************************************************************************)
\* Mutant: n is cast to int without the INT_MAX clamp, so it wraps.
TodoUnclamped(n) ==
  LET m == n % 2^IntBits IN IF m > INT_MAX THEN m - 2^IntBits ELSE m

Todo(n) == IF n > INT_MAX THEN INT_MAX ELSE n

Return(r) == cpc' = "returned" /\ cret' = r /\ UNCHANGED <<pos, len>>

(***************************************************************************)
(* One BIO_write(bio, data + pos, n) with n > 0, by its result.  The      *)
(* write hook clears the retry flags and then accepts k bytes, or sets    *)
(* the write retry and returns -1, or fails; a failed BIO keeps failing.  *)
(* BIO_number_written counts the accepted bytes.                          *)
(***************************************************************************)
\* Mutant: the data pointer is not advanced past the accepted bytes.
WriteAcceptedNoAdvance(n) ==
  \E k \in 1..n :
    /\ ~broken
    /\ sink' = sink \o [i \in 1..k |-> pos + i]
    /\ number_written' = number_written + k
    /\ flags' = BIO_clear_retry_flags(flags)
    /\ UNCHANGED <<broken, blocks, pos, cpc, cret>>
    /\ len' = len - k

\* Mutant: the loop is an if: one accepted BIO_write is taken as success.
WriteAcceptedReturns(n) ==
  \E k \in 1..n :
    /\ ~broken
    /\ sink' = sink \o [i \in 1..k |-> pos + i]
    /\ number_written' = number_written + k
    /\ flags' = BIO_clear_retry_flags(flags)
    /\ UNCHANGED <<broken, blocks>>
    /\ Return(1)

\* Mutant: the write hook's result is off by one, past the len it was given.
WriteAcceptedPastLen(n) ==
  \E k \in 1..n + 1 :
    /\ ~broken
    /\ sink' = sink \o [i \in 1..k |-> pos + i]
    /\ number_written' = number_written + k
    /\ flags' = BIO_clear_retry_flags(flags)
    /\ UNCHANGED <<broken, blocks>>
    /\ pos' = pos + k /\ len' = len - k
    /\ UNCHANGED <<cpc, cret>>

WriteAccepted(n) ==
  \E k \in 1..n :
    /\ ~broken
    /\ sink' = sink \o [i \in 1..k |-> pos + i]
    /\ number_written' = number_written + k
    /\ flags' = BIO_clear_retry_flags(flags)
    /\ UNCHANGED <<broken, blocks>>
    /\ pos' = pos + k /\ len' = len - k
    /\ UNCHANGED <<cpc, cret>>

WriteWouldBlock ==
  /\ ~broken /\ blocks < MaxBlocks
  /\ flags' = BIO_set_retry_write(BIO_clear_retry_flags(flags))
  /\ blocks' = blocks + 1
  /\ UNCHANGED <<sink, number_written, broken>>
  /\ Return(0)

WriteFailed ==
  /\ flags' = BIO_clear_retry_flags(flags)
  /\ broken' = TRUE
  /\ UNCHANGED <<sink, number_written, blocks>>
  /\ Return(0)

(***************************************************************************)
(* One turn of BIO_write_all's loop: with nothing left it returns 1;      *)
(* otherwise it calls BIO_write on at most INT_MAX bytes, advances past   *)
(* what was accepted, and returns 0 on a result <= 0.  BIO_write returns  *)
(* 0 for a len <= 0 without calling the write hook.                       *)
(***************************************************************************)
BIO_write_all ==
  /\ cpc = "inside"
  /\ IF len = 0
     THEN Return(1) /\ UNCHANGED backend
     ELSE LET n == Todo(len) IN
          IF n <= 0
          THEN Return(0) /\ UNCHANGED backend
          ELSE \/ WriteAccepted(n)
               \/ WriteWouldBlock
               \/ WriteFailed
  /\ UNCHANGED data_len

(***************************************************************************)
(* The caller calls BIO_write_all on the suffix BIO_number_written has    *)
(* not yet covered, and after a 0 calls again only if BIO_should_retry.   *)
(***************************************************************************)
CallWriteAll ==
  /\ cpc = "call"
  /\ cpc' = "inside"
  /\ pos' = number_written
  /\ len' = data_len - number_written
  /\ UNCHANGED <<data_len, cret, backend>>

AfterReturn ==
  /\ cpc = "returned"
  /\ cpc' = IF cret = 0 /\ "SHOULD_RETRY" \in flags THEN "call" ELSE "done"
  /\ UNCHANGED <<data_len, cret, pos, len, backend>>

Init ==
  /\ data_len \in 0..MaxLen
  /\ cpc = "call"
  /\ cret = 0
  /\ pos = 0 /\ len = 0
  /\ sink = <<>>
  /\ number_written = 0
  /\ flags = {}
  /\ broken = FALSE
  /\ blocks = 0

Next == CallWriteAll \/ BIO_write_all \/ AfterReturn

\* BIO_write_all runs to completion once called, and the caller acts on
\* each result; the BIO's would-blocks are bounded by MaxBlocks.
Spec == Init /\ [][Next]_vars /\ WF_vars(Next)

-----------------------------------------------------------------------------
TypeOK ==
  /\ cpc \in {"call", "inside", "returned", "done"}
  /\ cret \in {0, 1}
  /\ len \in 0..MaxLen /\ pos \in 0..MaxLen
  /\ flags \subseteq RetryBits
  /\ blocks \in 0..MaxBlocks

(***************************************************************************)
(* Across every BIO_write_all call and every partial, would-block or      *)
(* failed BIO_write, the BIO has received a prefix of the caller's        *)
(* buffer, each byte once and in order, and BIO_number_written counts it. *)
(***************************************************************************)
WrittenIsPrefix ==
  /\ sink = [i \in 1..Len(sink) |-> i]
  /\ Len(sink) = number_written
  /\ number_written <= data_len

(***************************************************************************)
(* What the caller may conclude from BIO_write_all's result: 1 means the  *)
(* BIO holds the whole buffer; 0 without BIO_should_retry means the BIO   *)
(* failed for good; 0 with it means it would block.                       *)
(***************************************************************************)
ResultMeaning ==
  cpc = "returned" =>
    /\ cret = 1 => number_written = data_len
    /\ cret = 0 => ("SHOULD_RETRY" \in flags <=> ~broken)

(***************************************************************************)
(* The caller's loop ends with the whole buffer written, unless the BIO   *)
(* failed for good.                                                        *)
(***************************************************************************)
EventuallySettled ==
  <>(cpc = "done" /\ (number_written = data_len \/ broken))

=============================================================================
