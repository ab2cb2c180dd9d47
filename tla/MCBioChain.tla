----------------------------- MODULE MCBioChain -----------------------------
(* Model-checking instance of BioChain.  The cfgs give the BIO slots and   *)
(* threads as model values.                                                *)
EXTENDS BioChain

(***************************************************************************)
(* Refinement mapping to BioOwnership: the identity on the live BIOs,     *)
(* their links and the threads' handles.  The reference counts and the    *)
(* BIO_free loop's position are hidden; a BIO_free loop's FreeDestroy is  *)
(* a Reclaim, its decrements are stutters.                                *)
(***************************************************************************)
Abs == INSTANCE BioOwnership WITH
         live <- {b \in Bios : status[b] = "live"},
         next_bio <- next_bio,
         held <- held

\* Every behaviour of BioChain is one of BioOwnership: BIO_free frees a BIO
\* only once no handle reaches it (no use after free), and every BIO that
\* no handle reaches is eventually freed (no leak), whatever other threads
\* do between the steps of its loop.
OwnershipRefinement == Abs!Spec
=============================================================================
