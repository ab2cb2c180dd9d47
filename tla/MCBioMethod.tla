------------------------------ MODULE MCBioMethod ------------------------------
(***************************************************************************)
(* BioMethod for TLC: BIO slots are interchangeable.                      *)
(***************************************************************************)
EXTENDS BioMethod, TLC

MCSymmetry == Permutations(Bios)

=============================================================================
