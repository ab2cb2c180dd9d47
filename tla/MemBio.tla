-------------------------------- MODULE MemBio -------------------------------
(***************************************************************************)
(* The memory BIO of include/CCryptoBoringSSL_bio.h ("Memory BIOs"): one   *)
(* BIO, either a writable sink made by BIO_new(BIO_s_mem()) or a          *)
(* read-only source made by BIO_new_mem_buf, driven by a caller that may   *)
(* make any sequence of BIO_read, BIO_gets, BIO_write / BIO_puts,          *)
(* BIO_reset and BIO_set_mem_eof_return calls.                             *)
(*                                                                         *)
(* Bytes are abstracted to a small set that contains the newline NL, the   *)
(* only byte BIO_gets treats specially.  The history variables consumed   *)
(* and written record what was read and written since the last BIO_reset, *)
(* and last records the latest call and its result, for the properties.   *)
(***************************************************************************)
EXTENDS Integers, SequencesExt, BioFlags

CONSTANTS
  Bytes,      \* the byte values (model values)
  NL,         \* '\n', a member of Bytes
  MaxLen,     \* bound on the bytes the buffer holds
  MaxRead,    \* largest len passed to BIO_read
  MaxGets,    \* largest size passed to BIO_gets
  MaxWrite,   \* longest data passed to BIO_write
  EofValues,  \* values passed to BIO_set_mem_eof_return
  MaxCount    \* bound on BIO_number_read and BIO_number_written

VARIABLES
  flags,           \* the flags word: retry bits and BIO_FLAGS_MEM_RDONLY
  buf,             \* the bytes currently stored (BIO_mem_contents)
  orig,            \* the original contents of a read-only BIO
  eof_value,       \* what a read of the empty BIO returns
  number_read,     \* BIO_number_read
  number_written,  \* BIO_number_written
  consumed,        \* bytes read since the last reset
  written,         \* bytes written since the last reset
  last             \* the latest call: [op, arg, pre, ret, out]

vars == <<flags, buf, orig, eof_value, number_read, number_written,
          consumed, written, last>>

IsReadOnly == MEM_RDONLY \in flags
BIO_should_retry == "SHOULD_RETRY" \in flags
BIO_should_read == "READ" \in flags
BIO_eof == buf = <<>>
BIO_pending == Len(buf)

Call(op, arg, r, out) ==
  [op |-> op, arg |-> arg, pre |-> buf, ret |-> r, out |-> out]

(***************************************************************************)
(* The common read path: at most n bytes are taken from the front of the  *)
(* buffer.  An empty BIO returns eof_value and sets the read retry flag   *)
(* iff eof_value is non-zero; asking for zero bytes of a non-empty BIO    *)
(* returns zero.  The retry flags are cleared first.                      *)
(***************************************************************************)
\* Mutant: BIO_number_read also counts a negative (eof_value) result.
MemReadCountsAll(n, op, arg) ==
  LET k == Min({n, Len(buf)})
      r == IF k > 0 THEN k ELSE IF buf = <<>> THEN eof_value ELSE 0
      f == BIO_clear_retry_flags(flags)
  IN /\ buf' = SubSeq(buf, k + 1, Len(buf))
     /\ consumed' = consumed \o SubSeq(buf, 1, k)
     /\ number_read' = number_read + r
     /\ flags' = IF buf = <<>> /\ eof_value # 0 THEN BIO_set_retry_read(f) ELSE f
     /\ last' = Call(op, arg, r, SubSeq(buf, 1, k))

MemRead(n, op, arg) ==
  LET k == Min({n, Len(buf)})
      r == IF k > 0 THEN k ELSE IF buf = <<>> THEN eof_value ELSE 0
      f == BIO_clear_retry_flags(flags)
  IN /\ buf' = SubSeq(buf, k + 1, Len(buf))
     /\ consumed' = consumed \o SubSeq(buf, 1, k)
     /\ number_read' = number_read + (IF r > 0 THEN r ELSE 0)
     /\ flags' = IF buf = <<>> /\ eof_value # 0 THEN BIO_set_retry_read(f) ELSE f
     /\ last' = Call(op, arg, r, SubSeq(buf, 1, k))

BIO_read(len) ==
  /\ MemRead(len, "read", len)
  /\ UNCHANGED <<orig, eof_value, number_written, written>>

(***************************************************************************)
(* BIO_gets reads at most size - 1 bytes (the output is NUL-terminated),  *)
(* stopping after the first newline.                                       *)
(***************************************************************************)
\* Mutant: the room for the trailing NUL is not subtracted.
GetsLenNoNul(b, size) ==
  LET k == Min({size, Len(b)})
      nl == SelectInSeq(SubSeq(b, 1, k), LAMBDA c : c = NL)
  IN IF nl = 0 THEN k ELSE nl

GetsLen(b, size) ==
  LET k == Min({size - 1, Len(b)})
      nl == SelectInSeq(SubSeq(b, 1, k), LAMBDA c : c = NL)
  IN IF nl = 0 THEN k ELSE nl

BIO_gets(size) ==
  /\ MemRead(GetsLen(buf, size), "gets", size)
  /\ UNCHANGED <<orig, eof_value, number_written, written>>

(***************************************************************************)
(* BIO_write (and BIO_puts, which is BIO_write of the string's bytes):    *)
(* a read-only BIO refuses with BIO_R_WRITE_TO_READ_ONLY_BIO; a writable  *)
(* one appends the data.  Either way the retry flags are cleared.         *)
(***************************************************************************)
\* Mutant: BIO_FLAGS_MEM_RDONLY is not tested; the data is appended.
BIO_writeIgnoresRdonly(data) ==
  /\ buf' = buf \o data
  /\ written' = written \o data
  /\ number_written' = number_written + Len(data)
  /\ flags' = BIO_clear_retry_flags(flags)
  /\ last' = Call("write", Len(data), Len(data), data)
  /\ UNCHANGED <<orig, eof_value, consumed, number_read>>

BIO_write(data) ==
  /\ flags' = BIO_clear_retry_flags(flags)
  /\ IF IsReadOnly
     THEN /\ last' = Call("write", Len(data), -1, <<>>)
          /\ UNCHANGED <<buf, written, number_written>>
     ELSE /\ buf' = buf \o data
          /\ written' = written \o data
          /\ number_written' = number_written + Len(data)
          /\ last' = Call("write", Len(data), Len(data), data)
  /\ UNCHANGED <<orig, eof_value, consumed, number_read>>

(***************************************************************************)
(* BIO_reset: a read-only BIO goes back to its original contents; a       *)
(* writable one is cleared.                                                *)
(***************************************************************************)
BIO_reset ==
  /\ buf' = IF IsReadOnly THEN orig ELSE <<>>
  /\ consumed' = <<>>
  /\ written' = <<>>
  /\ last' = Call("reset", 0, 1, <<>>)
  /\ UNCHANGED <<flags, orig, eof_value, number_read, number_written>>

BIO_set_mem_eof_return(v) ==
  /\ eof_value' = v
  /\ last' = Call("set_eof", v, 1, <<>>)
  /\ UNCHANGED <<flags, buf, orig, number_read, number_written,
                 consumed, written>>

(***************************************************************************)
(* BIO_new(BIO_s_mem()): writable, empty, eof_value -1.                   *)
(* BIO_new_mem_buf(data, len): read-only over data, eof_value 0.          *)
(***************************************************************************)
NewWritable ==
  /\ flags = {}
  /\ buf = <<>>
  /\ orig = <<>>
  /\ eof_value = -1

NewMemBuf ==
  \E data \in BoundedSeq(Bytes, MaxLen) :
    /\ flags = {MEM_RDONLY}
    /\ buf = data
    /\ orig = data
    /\ eof_value = 0

Init ==
  /\ NewWritable \/ NewMemBuf
  /\ number_read = 0
  /\ number_written = 0
  /\ consumed = <<>>
  /\ written = <<>>
  /\ last = Call("new", 0, 1, <<>>)

Next ==
  \/ \E len \in 1..MaxRead : BIO_read(len)
  \/ \E size \in 1..MaxGets : BIO_gets(size)
  \/ \E data \in BoundedSeq(Bytes, MaxWrite) \ {<<>>} :
       /\ Len(buf) + Len(data) <= MaxLen
       /\ BIO_write(data)
  \/ BIO_reset
  \/ \E v \in EofValues : BIO_set_mem_eof_return(v)

Spec == Init /\ [][Next]_vars

\* The counters are uint64; the model stops exploring at MaxCount.
CountBound == number_read <= MaxCount /\ number_written <= MaxCount

-----------------------------------------------------------------------------
(***************************************************************************)
(* Properties.                                                             *)
(***************************************************************************)
TypeOK ==
  /\ flags \subseteq RetryBits \cup {MEM_RDONLY}
  /\ buf \in Seq(Bytes) /\ Len(buf) <= MaxLen
  /\ orig \in Seq(Bytes)
  /\ eof_value \in EofValues \cup {-1, 0}
  /\ number_read \in Nat /\ number_written \in Nat
  /\ last.op \in {"new", "read", "gets", "write", "reset", "set_eof"}

(***************************************************************************)
(* "Data written to a writable memory BIO can be recalled by reading from *)
(* it", and a read-only BIO reads its original contents: since the last   *)
(* BIO_reset, what every BIO_read and BIO_gets returned, followed by what *)
(* the BIO still holds, is exactly what was written (writable) or the     *)
(* original buffer (read-only).  No byte is lost, duplicated or reordered *)
(* across any sequence of reads, line reads, writes and resets.           *)
(***************************************************************************)
StreamIntegrity ==
  consumed \o buf = IF IsReadOnly THEN orig ELSE written

(***************************************************************************)
(* What a caller may conclude from a BIO_read or BIO_gets result (the     *)
(* BIO_set_mem_eof_return contract): an empty BIO returns eof_value, with *)
(* BIO_should_retry and BIO_should_read set iff eof_value is non-zero, so *)
(* a BIO_read returning zero is a true EOF.  A positive eof_value looks   *)
(* like data (the header's ambiguity); the retry flag tells the two       *)
(* apart: a positive result without it means the first n stored bytes    *)
(* were returned, and with it that the BIO was empty.                     *)
(***************************************************************************)
ReadResultMeaning ==
  last.op \in {"read", "gets"} =>
    /\ last.ret > 0 => \/ ~BIO_should_retry
                          /\ last.out = SubSeq(last.pre, 1, last.ret)
                       \/ BIO_should_retry /\ last.pre = <<>>
    /\ last.pre = <<>> =>
         /\ last.ret = eof_value
         /\ BIO_should_retry <=> eof_value # 0
         /\ BIO_should_read <=> eof_value # 0
    /\ last.op = "read" /\ last.ret = 0 => last.pre = <<>> /\ ~BIO_should_retry

(***************************************************************************)
(* The BIO_gets contract, as the header words it: at most size - 1 bytes  *)
(* are output (room for the NUL), the output is a prefix of the stored    *)
(* data that includes the newline if a complete line was read, and        *)
(* without a newline it is everything available or exactly size - 1      *)
(* bytes.                                                                  *)
(***************************************************************************)
GetsContract ==
  last.op = "gets" /\ last.ret >= 0 =>
    LET out == last.out
        size == last.arg
    IN /\ Len(out) <= size - 1
       /\ IsPrefix(out, last.pre)
       /\ \A i \in 1..Len(out) - 1 : out[i] # NL
       /\ \/ out # <<>> /\ out[Len(out)] = NL
          \/ Len(out) = size - 1
          \/ out = last.pre

=============================================================================
