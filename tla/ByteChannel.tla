------------------------------ MODULE ByteChannel ------------------------------
(***************************************************************************)
(* What one direction of a BIO pair promises (include/                     *)
(* CCryptoBoringSSL_bio.h, "BIO Pairs"): a bounded FIFO of Cap bytes       *)
(* between a writer and a reader.  The writer puts bytes in while there is *)
(* room and until it closes its end; the reader takes bytes from the front *)
(* and, once the writer has closed and every byte is taken, sees the end   *)
(* of the stream, after which it takes nothing.  Bytes are counted: the    *)
(* FIFO order is not in question here, only how many are in flight.        *)
(***************************************************************************)
EXTENDS Naturals

CONSTANT Cap   \* the writer's buffer size

VARIABLES
  pending,  \* bytes put in and not yet taken
  closed,   \* the writer has closed its end
  ended     \* the reader has seen the end of the stream

vars == <<pending, closed, ended>>

Init == pending = 0 /\ closed = FALSE /\ ended = FALSE

Put(k) ==
  /\ ~closed /\ pending + k <= Cap
  /\ pending' = pending + k
  /\ UNCHANGED <<closed, ended>>

Take(k) ==
  /\ ~ended /\ k <= pending
  /\ pending' = pending - k
  /\ UNCHANGED <<closed, ended>>

Close ==
  /\ ~closed
  /\ closed' = TRUE
  /\ UNCHANGED <<pending, ended>>

End ==
  /\ closed /\ pending = 0 /\ ~ended
  /\ ended' = TRUE
  /\ UNCHANGED <<pending, closed>>

Next == (\E k \in 1..Cap : Put(k) \/ Take(k)) \/ Close \/ End

\* A reader that keeps reading drains the buffer and sees the end.
Spec ==
  Init /\ [][Next]_vars /\ WF_vars(\E k \in 1..Cap : Take(k)) /\ WF_vars(End)

=============================================================================
