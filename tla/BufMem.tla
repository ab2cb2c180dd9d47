-------------------------------- MODULE BufMem --------------------------------
(***************************************************************************)
(* Who frees the BUF_MEM behind a memory BIO (include/                    *)
(* CCryptoBoringSSL_bio.h, "Memory BIOs"): BIO_new(BIO_s_mem()) makes a   *)
(* BIO that owns a fresh BUF_MEM; BIO_set_close says whether BIO_free     *)
(* frees it; BIO_get_mem_ptr hands the caller a pointer to it; and        *)
(* BIO_set_mem_buf installs a caller's BUF_MEM, owned by the BIO iff       *)
(* take_ownership.  The caller follows the header's rules: it frees only  *)
(* a BUF_MEM the rules make its own, never one still installed in a live  *)
(* BIO, and it takes the pointer before it gives up BIO_CLOSE.            *)
(*                                                                         *)
(* owner[b] is the header's account of who must free b; alloc[b] and     *)
(* frees[b] are what the calls actually do.                               *)
(***************************************************************************)
EXTENDS Integers

CONSTANTS
  Bufs,    \* BUF_MEM structures (model values)
  BioBuf,  \* the one BIO_s_mem allocates, a member of Bufs
  NoBuf    \* a NULL BUF_MEM pointer

BIO_NOCLOSE == FALSE
BIO_CLOSE == TRUE

VARIABLES
  bio,    \* the BIO: "live" or "freed"
  cur,    \* the BUF_MEM installed in the BIO (bio->ptr)
  close,  \* the BIO's close flag (bio->shutdown)
  alloc,  \* alloc[b]: "none", "live" or "freed"
  frees,  \* frees[b]: BUF_MEM_free calls on b
  held,   \* BUF_MEMs the caller has a pointer to
  owner   \* owner[b]: "bio" or "caller", per the header

vars == <<bio, cur, close, alloc, frees, held, owner>>

Free(b) ==
  /\ alloc' = [alloc EXCEPT ![b] = "freed"]
  /\ frees' = [frees EXCEPT ![b] = @ + 1]

\* The BIO's release of its buffer: freed only under BIO_CLOSE.
ReleaseCur ==
  IF close /\ cur # NoBuf THEN Free(cur) ELSE UNCHANGED <<alloc, frees>>

\* BUF_MEM_new: a caller-owned buffer.
BUF_MEM_new(b) ==
  /\ alloc[b] = "none"
  /\ alloc' = [alloc EXCEPT ![b] = "live"]
  /\ held' = held \cup {b}
  /\ owner' = [owner EXCEPT ![b] = "caller"]
  /\ UNCHANGED <<bio, cur, close, frees>>

(***************************************************************************)
(* BIO_set_mem_buf(bio, b, take_ownership): the BIO lets go of the buffer *)
(* it has (freeing it under BIO_CLOSE), installs b, and sets the close    *)
(* flag to take_ownership.                                                 *)
(***************************************************************************)
\* Mutant: the BIO's old buffer is dropped without being freed.
BIO_set_mem_bufKeepsOld(b, take) ==
  /\ bio = "live" /\ b \in held /\ owner[b] = "caller" /\ b # cur
  /\ cur' = b /\ close' = take
  /\ owner' = [owner EXCEPT ![b] = IF take THEN "bio" ELSE "caller"]
  /\ UNCHANGED <<bio, held, alloc, frees>>

BIO_set_mem_buf(b, take) ==
  /\ bio = "live" /\ b \in held /\ owner[b] = "caller" /\ b # cur
  /\ ReleaseCur
  /\ cur' = b /\ close' = take
  /\ owner' = [owner EXCEPT ![b] = IF take THEN "bio" ELSE "caller"]
  /\ UNCHANGED <<bio, held>>

BIO_get_mem_ptr ==
  /\ bio = "live" /\ cur # NoBuf
  /\ held' = held \cup {cur}
  /\ UNCHANGED <<bio, cur, close, alloc, frees, owner>>

(***************************************************************************)
(* BIO_set_close: under BIO_NOCLOSE the buffer becomes the caller's to    *)
(* free, so the caller sets it only once it has the pointer.               *)
(***************************************************************************)
BIO_set_close(c) ==
  /\ bio = "live" /\ cur # NoBuf
  /\ c = BIO_NOCLOSE => cur \in held
  /\ close' = c
  /\ owner' = [owner EXCEPT ![cur] = IF c THEN "bio" ELSE "caller"]
  /\ UNCHANGED <<bio, cur, alloc, frees, held>>

\* Mutant: the close flag is ignored and the buffer is always freed.
BIO_freeIgnoresClose ==
  /\ bio = "live"
  /\ bio' = "freed" /\ cur' = NoBuf
  /\ IF cur # NoBuf THEN Free(cur) ELSE UNCHANGED <<alloc, frees>>
  /\ UNCHANGED <<close, held, owner>>

BIO_free ==
  /\ bio = "live"
  /\ bio' = "freed" /\ cur' = NoBuf
  /\ ReleaseCur
  /\ UNCHANGED <<close, held, owner>>

\* BUF_MEM_free by the caller, of a buffer it owns and no live BIO uses.
BUF_MEM_free(b) ==
  /\ b \in held /\ owner[b] = "caller"
  /\ ~(bio = "live" /\ cur = b)
  /\ Free(b)
  /\ held' = held \ {b}
  /\ UNCHANGED <<bio, cur, close, owner>>

Init ==
  /\ bio = "live"
  /\ cur = BioBuf
  /\ close = BIO_CLOSE
  /\ alloc = [b \in Bufs |-> IF b = BioBuf THEN "live" ELSE "none"]
  /\ frees = [b \in Bufs |-> 0]
  /\ held = {}
  /\ owner = [b \in Bufs |-> "bio"]

Next ==
  \/ \E b \in Bufs : BUF_MEM_new(b) \/ BUF_MEM_free(b)
  \/ \E b \in Bufs, take \in BOOLEAN : BIO_set_mem_buf(b, take)
  \/ BIO_get_mem_ptr
  \/ \E c \in BOOLEAN : BIO_set_close(c)
  \/ BIO_free

Spec == Init /\ [][Next]_vars

-----------------------------------------------------------------------------
(***************************************************************************)
(* The close flag and take_ownership mean what the header says, however   *)
(* the caller interleaves BIO_set_mem_buf, BIO_set_close, BIO_get_mem_ptr *)
(* and BIO_free: no BUF_MEM is freed twice; a live BIO's contents are     *)
(* never freed; a live buffer the header gives to the BIO is the one it   *)
(* holds under BIO_CLOSE (so BIO_free will free it), and one it gives to  *)
(* the caller is one the caller can still reach (nothing leaks), and a   *)
(* buffer the caller owns and points to has not been freed under it.      *)
(***************************************************************************)
BufferAccounting ==
  \A b \in Bufs :
    /\ frees[b] <= 1
    /\ bio = "live" /\ cur = b => alloc[b] = "live"
    /\ alloc[b] = "live" =>
         /\ owner[b] = "bio" => bio = "live" /\ cur = b /\ close = BIO_CLOSE
         /\ owner[b] = "caller" => b \in held
    /\ owner[b] = "caller" /\ b \in held => alloc[b] = "live"

=============================================================================
