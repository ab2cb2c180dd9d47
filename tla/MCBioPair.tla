------------------------------- MODULE MCBioPair -------------------------------
(***************************************************************************)
(* BioPair for TLC: buffers of one and two bytes, so that one direction   *)
(* fills after a single byte and the other takes a partial write.         *)
(***************************************************************************)
EXTENDS BioPair

MCWritebuf == [s \in Sides |-> s]

(***************************************************************************)
(* Refinement mapping: the bytes side s has written and Peer(s) not yet   *)
(* read are one ByteChannel (Chan1 for side 1, Chan2 for side 2),         *)
(* with s's buffer as its capacity, s's shutdown as its close, and        *)
(* Peer(s) reading EOF as its end.                                        *)
(***************************************************************************)
Chan1 == INSTANCE ByteChannel WITH
           Cap <- writebuf[1], pending <- buf[1], closed <- closed[1],
           ended <- eof[2]
Chan2 == INSTANCE ByteChannel WITH
           Cap <- writebuf[2], pending <- buf[2], closed <- closed[2],
           ended <- eof[1]

\* Each direction of the pair behaves as a bounded FIFO that ends only
\* after its writer's BIO_shutdown_wr and its last byte, and that the two
\* pumping callers drain: BIO_write never overfills the buffer, BIO_read
\* never returns EOF early or reads after it, and the end is reached.
ChannelRefinement == Chan1!Spec /\ Chan2!Spec

=============================================================================
