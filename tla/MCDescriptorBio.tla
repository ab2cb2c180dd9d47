---------------------------- MODULE MCDescriptorBio ----------------------------
(***************************************************************************)
(* DescriptorBio for TLC: BIO slots are interchangeable, and so are the   *)
(* file identities, which only ever meet through equality.                 *)
(***************************************************************************)
EXTENDS DescriptorBio, TLC

MCSymmetry == Permutations(Bios) \cup Permutations(Files)

=============================================================================
