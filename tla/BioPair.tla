------------------------------- MODULE BioPair -------------------------------
(***************************************************************************)
(* A BIO pair (include/CCryptoBoringSSL_bio.h, "BIO Pairs"): two BIOs made *)
(* by BIO_new_bio_pair where data written to one is read from the other.  *)
(* Each side s has a write buffer of writebuf[s] bytes holding what s      *)
(* wrote and its peer has not yet read.  The two sides are driven by two   *)
(* callers (typically a TLS engine and the code pumping its network side) *)
(* whose calls interleave in any order.  Each caller writes up to MaxData  *)
(* bytes, may call BIO_shutdown_wr at any point, and reads until EOF.      *)
(*                                                                         *)
(* Bytes are counted, not named: each direction is a FIFO, so the counts   *)
(* determine which bytes are where.                                        *)
(***************************************************************************)
EXTENDS Integers, BioFlags

CONSTANTS
  writebuf,   \* writebuf[s]: the buffer size given to BIO_new_bio_pair
  MaxData,    \* bytes each caller has to write
  MaxChunk    \* largest len a caller passes to BIO_read or BIO_write

Sides == {1, 2}
Peer(s) == 3 - s

VARIABLES
  buf,      \* buf[s]: bytes written by s not yet read by Peer(s)
  closed,   \* closed[s]: BIO_shutdown_wr was called on s
  request,  \* request[s]: BIO_ctrl_get_read_request(s)
  flags,    \* flags[s]: the retry flags of s
  sent,     \* sent[s]: bytes s's BIO_write calls accepted
  got,      \* got[s]: bytes s's BIO_read calls returned
  eof,      \* eof[s]: a BIO_read on s returned 0
  last      \* last[s]: s's latest write, [n, guarantee, ret]

vars == <<buf, closed, request, flags, sent, got, eof, last>>

(***************************************************************************)
(* BIO_ctrl_get_write_guarantee: what the next BIO_write on s accepts.    *)
(***************************************************************************)
\* Mutant: a shut-down side still reports its free space.
GuaranteeIgnoresShutdown(s) == writebuf[s] - buf[s]

BIO_ctrl_get_write_guarantee(s) ==
  IF closed[s] THEN 0 ELSE writebuf[s] - buf[s]

BIO_ctrl_get_read_request(s) == request[s]

(***************************************************************************)
(* BIO_write on s: refused once s is shut down; with a full buffer it     *)
(* returns -1 and asks for a write retry; otherwise it accepts what fits  *)
(* and clears the read request the peer left on s.                        *)
(***************************************************************************)
\* Mutant: the free space is computed one byte too large.
FreeSpaceOffByOne(s) == writebuf[s] - buf[s] + 1

FreeSpace(s) == writebuf[s] - buf[s]

PairWrite(s, n) ==
  LET space == FreeSpace(s)
      k == IF n < space THEN n ELSE space
  IN /\ ~closed[s] /\ space > 0
     /\ buf' = [buf EXCEPT ![s] = @ + k]
     /\ sent' = [sent EXCEPT ![s] = @ + k]
     /\ request' = [request EXCEPT ![s] = 0]
     /\ flags' = [flags EXCEPT ![s] = BIO_clear_retry_flags(@)]
     /\ last' = [last EXCEPT ![s] = [n |-> n,
                    guarantee |-> BIO_ctrl_get_write_guarantee(s), ret |-> k]]

PairWriteFull(s, n) ==
  /\ ~closed[s] /\ FreeSpace(s) <= 0
  /\ flags' = [flags EXCEPT ![s] = BIO_set_flags(BIO_clear_retry_flags(@),
                                                 {"WRITE", "SHOULD_RETRY"})]
  /\ last' = [last EXCEPT ![s] = [n |-> n,
                    guarantee |-> BIO_ctrl_get_write_guarantee(s), ret |-> -1]]
  /\ UNCHANGED <<buf, sent, request>>

PairWriteClosed(s, n) ==
  /\ closed[s]
  /\ flags' = [flags EXCEPT ![s] = BIO_clear_retry_flags(@)]
  /\ last' = [last EXCEPT ![s] = [n |-> n,
                    guarantee |-> BIO_ctrl_get_write_guarantee(s), ret |-> -1]]
  /\ UNCHANGED <<buf, sent, request>>

BIO_write(s, n) ==
  /\ PairWrite(s, n) \/ PairWriteFull(s, n) \/ PairWriteClosed(s, n)
  /\ UNCHANGED <<closed, got, eof>>

(***************************************************************************)
(* BIO_read on s takes from Peer(s)'s buffer.  With nothing buffered it   *)
(* returns 0 (EOF) once the peer is shut down, and otherwise -1 with a    *)
(* read retry, recording len as the read request on the peer; a read     *)
(* that does not fail this way leaves no request behind.                 *)
(***************************************************************************)
\* Mutant: shutdown is tested before the buffer: EOF with data pending.
PairReadEofFirst(s, n) ==
  LET p == Peer(s)
      k == IF n < buf[p] THEN n ELSE buf[p]
  IN CASE closed[p] ->
            /\ eof' = [eof EXCEPT ![s] = TRUE]
            /\ request' = [request EXCEPT ![p] = 0]
            /\ flags' = [flags EXCEPT ![s] = BIO_clear_retry_flags(@)]
            /\ UNCHANGED <<buf, got>>
       [] k > 0 ->
            /\ buf' = [buf EXCEPT ![p] = @ - k]
            /\ got' = [got EXCEPT ![s] = @ + k]
            /\ request' = [request EXCEPT ![p] = 0]
            /\ flags' = [flags EXCEPT ![s] = BIO_clear_retry_flags(@)]
            /\ UNCHANGED eof
       [] OTHER ->
            /\ request' = [request EXCEPT ![p] = n]
            /\ flags' = [flags EXCEPT ![s] =
                           BIO_set_retry_read(BIO_clear_retry_flags(@))]
            /\ UNCHANGED <<buf, got, eof>>

PairRead(s, n) ==
  LET p == Peer(s)
      k == IF n < buf[p] THEN n ELSE buf[p]
  IN CASE k > 0 ->
            /\ buf' = [buf EXCEPT ![p] = @ - k]
            /\ got' = [got EXCEPT ![s] = @ + k]
            /\ request' = [request EXCEPT ![p] = 0]
            /\ flags' = [flags EXCEPT ![s] = BIO_clear_retry_flags(@)]
            /\ UNCHANGED eof
       [] closed[p] ->
            /\ eof' = [eof EXCEPT ![s] = TRUE]
            /\ request' = [request EXCEPT ![p] = 0]
            /\ flags' = [flags EXCEPT ![s] = BIO_clear_retry_flags(@)]
            /\ UNCHANGED <<buf, got>>
       [] OTHER ->
            /\ request' = [request EXCEPT ![p] = n]
            /\ flags' = [flags EXCEPT ![s] =
                           BIO_set_retry_read(BIO_clear_retry_flags(@))]
            /\ UNCHANGED <<buf, got, eof>>

BIO_read(s, n) ==
  /\ ~eof[s]
  /\ PairRead(s, n)
  /\ UNCHANGED <<closed, sent, last>>

\* Mutant: the peer, not s, is marked as shut down.
BIO_shutdown_wrMarksPeer(s) ==
  /\ ~closed[s]
  /\ closed' = [closed EXCEPT ![Peer(s)] = TRUE]
  /\ UNCHANGED <<buf, request, flags, sent, got, eof, last>>

BIO_shutdown_wr(s) ==
  /\ ~closed[s]
  /\ closed' = [closed EXCEPT ![s] = TRUE]
  /\ UNCHANGED <<buf, request, flags, sent, got, eof, last>>

(***************************************************************************)
(* BIO_new_bio_pair: two empty BIOs.                                       *)
(***************************************************************************)
Init ==
  /\ buf = [s \in Sides |-> 0]
  /\ closed = [s \in Sides |-> FALSE]
  /\ request = [s \in Sides |-> 0]
  /\ flags = [s \in Sides |-> {}]
  /\ sent = [s \in Sides |-> 0]
  /\ got = [s \in Sides |-> 0]
  /\ eof = [s \in Sides |-> FALSE]
  /\ last = [s \in Sides |-> [n |-> 0, guarantee |-> 0, ret |-> 0]]

\* A caller writes only what it still has to send.
Write(s) == \E n \in 1..MaxChunk : n <= MaxData - sent[s] /\ BIO_write(s, n)
Read(s) == \E n \in 1..MaxChunk : BIO_read(s, n)

Next == \E s \in Sides : Write(s) \/ Read(s) \/ BIO_shutdown_wr(s)

(***************************************************************************)
(* Both callers keep calling while they have work: a caller with data to  *)
(* send writes, one that has not seen EOF reads, and one that has sent    *)
(* everything shuts its side down.                                        *)
(***************************************************************************)
Fairness ==
  \A s \in Sides :
    /\ WF_vars(Write(s))
    /\ WF_vars(Read(s))
    /\ WF_vars(sent[s] = MaxData /\ BIO_shutdown_wr(s))

Spec == Init /\ [][Next]_vars /\ Fairness

-----------------------------------------------------------------------------
TypeOK ==
  /\ \A s \in Sides :
       /\ buf[s] \in 0..writebuf[s]
       /\ request[s] \in 0..MaxChunk
       /\ flags[s] \subseteq RetryBits
       /\ sent[s] \in 0..MaxData /\ got[s] \in 0..MaxData
  /\ closed \in [Sides -> BOOLEAN] /\ eof \in [Sides -> BOOLEAN]

(***************************************************************************)
(* BIO_ctrl_get_write_guarantee "returns the number of bytes that bio     *)
(* will accept on the next BIO_write call": a write never accepts more    *)
(* than the guarantee taken just before it, and a write of no more than   *)
(* the guarantee accepts all of it.                                        *)
(***************************************************************************)
WriteGuaranteeHonoured ==
  \A s \in Sides :
    /\ last[s].ret <= last[s].guarantee
    /\ last[s].n <= last[s].guarantee => last[s].ret = last[s].n

(***************************************************************************)
(* A BIO_read that returns 0 (EOF) comes only after the peer called       *)
(* BIO_shutdown_wr and every byte the peer's writes accepted has been     *)
(* read: shutting down never loses buffered data.                         *)
(***************************************************************************)
EofMeansComplete ==
  \A s \in Sides : eof[s] => closed[Peer(s)] /\ got[s] = sent[Peer(s)]

(***************************************************************************)
(* With both callers pumping, both sides eventually see EOF (and so, by   *)
(* EofMeansComplete, every accepted byte): the pair never deadlocks on    *)
(* its buffers.                                                            *)
(***************************************************************************)
PairDrains ==
  <>(\A s \in Sides : eof[s])

=============================================================================
