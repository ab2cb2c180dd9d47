\* One key id, an empty and a non-empty issuer, one serial; every TLV
\* sequence of up to four TLVs.
CONSTANTS
  KeyIds = {k}
  Issuers = {noNames, oneName}
  EmptyIssuer = noNames
  Serials = {s}
  Other = x
  NULL = NULL
  Error = Error
  MaxTlvs = 4
SPECIFICATION Spec
INVARIANTS
  DecodeMatchesReference
