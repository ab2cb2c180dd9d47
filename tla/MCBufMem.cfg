\* The BIO's own BUF_MEM and two the caller may create.
CONSTANTS
  Bufs = {m0, m1, m2}
  BioBuf = m0
  NoBuf = NoBuf
SPECIFICATION Spec
\* The caller stops once everything is freed.
CHECK_DEADLOCK FALSE
INVARIANT BufferAccounting
