\* One custom method, two BIO slots, counts up to 2, two new indices.
CONSTANTS
  Bios = {b1, b2}
  MaxRefs = 2
  MaxNewIndex = 2
SPECIFICATION Spec
\* Once both slots are freed and the method is freed, the program has
\* nothing left to do.
CHECK_DEADLOCK FALSE
SYMMETRY MCSymmetry
INVARIANTS
  TypeOK
  HooksSeeLiveBios
