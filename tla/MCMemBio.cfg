\* One memory BIO, writable or read-only over up to three bytes of {a, nl}.
CONSTANTS
  Bytes = {a, nl}
  NL = nl
  MaxLen = 3
  MaxRead = 2
  MaxGets = 3
  MaxWrite = 2
  EofValues <- MCEofValues
  MaxCount = 5
SPECIFICATION Spec
CONSTRAINT CountBound
INVARIANTS
  TypeOK
  StreamIntegrity
  ReadResultMeaning
  GetsContract
