\* Three slots and three threads: no use after free, exact reference
\* counts, no leak, and the refinement of BioOwnership.  No symmetry, which
\* the liveness property rules out.
CONSTANTS
  Bios = {b1, b2, b3}
  Threads = {t1, t2, t3}
  NoBio = NoBio
  MaxRefs = 2
SPECIFICATION Spec
INVARIANTS
  TypeOK
  ReferenceAccounting
  NoDanglingReference
PROPERTIES
  UnreachableEventuallyFreed
  OwnershipRefinement
