------------------------------- MODULE BioFlags ------------------------------
(***************************************************************************)
(* The flags word of a BIO (include/CCryptoBoringSSL_bio.h): a set of flag *)
(* names.  The retry bits BIO_FLAGS_READ, _WRITE, _IO_SPECIAL and          *)
(* _SHOULD_RETRY share the word with method-specific bits such as          *)
(* BIO_FLAGS_BASE64_NO_NL and BIO_FLAGS_MEM_RDONLY.  BioRetry and MemBio   *)
(* extend this module.                                                     *)
(***************************************************************************)
\* BIO_FLAGS_READ, _WRITE, _IO_SPECIAL (BIO_FLAGS_RWS) and _SHOULD_RETRY.
RWS == {"READ", "WRITE", "IO_SPECIAL"}
RetryBits == RWS \cup {"SHOULD_RETRY"}

\* BIO_FLAGS_MEM_RDONLY: the memory BIO is a read-only source.
MEM_RDONLY == "MEM_RDONLY"

BIO_RR_CONNECT == 2
BIO_RR_ACCEPT == 3

(***************************************************************************)
(* The flag primitives, as operators on a flags word.                      *)
(***************************************************************************)
BIO_set_flags(f, bits) == f \cup bits
BIO_clear_flags(f, bits) == f \ bits
BIO_test_flags(f, bits) == f \cap bits
\* Mutant: only SHOULD_RETRY is cleared; READ, WRITE, IO_SPECIAL stay.
ClearRetryFlagsKeepsRWS(f) == BIO_clear_flags(f, {"SHOULD_RETRY"})
BIO_clear_retry_flags(f) == BIO_clear_flags(f, RetryBits)
BIO_get_retry_flags(f) == BIO_test_flags(f, RetryBits)
BIO_set_retry_read(f) == BIO_set_flags(f, {"READ", "SHOULD_RETRY"})
BIO_set_retry_write(f) == BIO_set_flags(f, {"WRITE", "SHOULD_RETRY"})
BIO_set_retry_special(f) == BIO_set_flags(f, {"IO_SPECIAL", "SHOULD_RETRY"})

(***************************************************************************)
(* BIO_copy_next_retry: the retry flags and retry_reason of bio become     *)
(* those of the next BIO; bio's other flag bits are left alone.            *)
(***************************************************************************)
\* Mutant: only the READ/WRITE/IO_SPECIAL bits are copied, not SHOULD_RETRY.
CopyNextRetryRWSOnly(f, nextFlags) ==
  BIO_set_flags(BIO_clear_retry_flags(f), BIO_test_flags(nextFlags, RWS))

BIO_copy_next_retry(f, nextFlags) ==
  BIO_set_flags(BIO_clear_retry_flags(f), BIO_get_retry_flags(nextFlags))

=============================================================================
