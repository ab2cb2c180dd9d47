\* Two sides with 1- and 2-byte buffers, 3 bytes to send each way.
CONSTANTS
  writebuf <- MCWritebuf
  MaxData = 3
  MaxChunk = 2
SPECIFICATION Spec
\* Both callers stop once they have sent everything and read EOF.
CHECK_DEADLOCK FALSE
INVARIANTS
  TypeOK
  WriteGuaranteeHonoured
  EofMeansComplete
PROPERTIES
  PairDrains
  ChannelRefinement
