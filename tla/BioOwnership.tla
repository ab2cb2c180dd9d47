---------------------------- MODULE BioOwnership ----------------------------
(***************************************************************************)
(* What the BIO ownership rules of include/CCryptoBoringSSL_bio.h promise, *)
(* with no reference counts and no freeing loop: a BIO is freed only once  *)
(* no handle a thread owns reaches it along the chain, and every BIO that  *)
(* no handle reaches is eventually freed.  BioChain implements this        *)
(* specification (MCBioChain).                                             *)
(***************************************************************************)
EXTENDS Naturals, FiniteSets

CONSTANTS Bios, Threads, NoBio

VARIABLES
  live,      \* the allocated BIOs
  next_bio,  \* next_bio[b] for a live b
  held       \* held[t][b]: handles to b thread t owns

RECURSIVE ReachN(_, _)
ReachN(b, n) ==
  IF b = NoBio \/ n = 0 THEN {} ELSE {b} \cup ReachN(next_bio[b], n - 1)

Chain(b) == ReachN(b, Cardinality(Bios))

\* The BIOs some handle of h reaches.
Owned(h) == UNION {Chain(b) : b \in {b \in Bios : \E t \in Threads : h[t][b] >= 1}}

Holds(t, b) == held[t][b] >= 1

New(t, b) ==
  /\ b \notin live
  /\ live' = live \cup {b}
  /\ next_bio' = [next_bio EXCEPT ![b] = NoBio]
  /\ held' = [held EXCEPT ![t][b] = @ + 1]

\* BIO_up_ref, and a handle passed from one thread to another.
Share(t, u, b) ==
  /\ Holds(t, b)
  /\ held' = [held EXCEPT ![u][b] = @ + 1]
  /\ UNCHANGED <<live, next_bio>>

Move(t, u, b) ==
  /\ Holds(t, b)
  /\ held' = [held EXCEPT ![t][b] = @ - 1, ![u][b] = @ + 1]
  /\ UNCHANGED <<live, next_bio>>

\* BIO_push: the handle to appended becomes the link from the chain's end.
Link(t, last, appended) ==
  /\ Holds(t, appended)
  /\ last \in Owned(held)
  /\ next_bio[last] = NoBio
  /\ next_bio' = [next_bio EXCEPT ![last] = appended]
  /\ held' = [held EXCEPT ![t][appended] = @ - 1]
  /\ UNCHANGED live

\* BIO_pop: the link from b becomes a handle of the caller.
Unlink(t, b) ==
  /\ Holds(t, b)
  /\ next_bio[b] # NoBio
  /\ next_bio' = [next_bio EXCEPT ![b] = NoBio]
  /\ held' = [held EXCEPT ![t][next_bio[b]] = @ + 1]
  /\ UNCHANGED live

\* BIO_free: the caller gives up its handle.
Release(t, b) ==
  /\ Holds(t, b)
  /\ held' = [held EXCEPT ![t][b] = @ - 1]
  /\ UNCHANGED <<live, next_bio>>

\* A BIO that no handle reaches is freed and its link dropped.
Reclaim(b) ==
  /\ b \in live \ Owned(held)
  /\ live' = live \ {b}
  /\ next_bio' = [next_bio EXCEPT ![b] = NoBio]
  /\ UNCHANGED held

Init ==
  /\ live = {}
  /\ next_bio = [b \in Bios |-> NoBio]
  /\ held = [t \in Threads |-> [b \in Bios |-> 0]]

Next ==
  \/ \E t \in Threads, b \in Bios :
    \/ New(t, b)
    \/ Release(t, b)
    \/ Unlink(t, b)
    \/ \E u \in Threads : Share(t, u, b) \/ Move(t, u, b)
    \/ \E a \in Bios : Link(t, b, a)
  \/ \E b \in Bios : Reclaim(b)

\* Nothing a caller does is forced; only the freeing of an unreachable BIO.
Spec ==
  /\ Init /\ [][Next]_<<live, next_bio, held>>
  /\ \A b \in Bios : WF_<<live, next_bio, held>>(Reclaim(b))

=============================================================================
