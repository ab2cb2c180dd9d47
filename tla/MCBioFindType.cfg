\* Chains of up to three BIOs over source/sinks of each class mix, filters
\* and a custom type; every class and chain type as the query.
CONSTANTS
  ChainTypes = {"MEM", "FILE", "FD", "SOCKET", "SSL", "BASE64", "CONNECT", "BIO", "USER"}
  MaxChain = 3
SPECIFICATION Spec
INVARIANTS
  FindTypeCorrect
