\* Two BIO slots, two fd numbers and one FILE pointer, so that every kind of
\* handle is reused, and four files to open over them.
CONSTANTS
  Bios = {b1, b2}
  FdNums = {n0, n1}
  FilePtrs = {p0}
  Files = {f1, f2, f3, f4}
  NoHandle = NoHandle
  NoFile = NoFile
SPECIFICATION Spec
\* Once every file has been opened and every slot freed, nothing is left.
CHECK_DEADLOCK FALSE
SYMMETRY MCSymmetry
INVARIANTS
  NoStaleHandle
  DescriptorAccounting
