------------------------------ MODULE BioFindType ------------------------------
(***************************************************************************)
(* BIO_find_type (include/CCryptoBoringSSL_bio.h): walk a chain from its  *)
(* head and return the first BIO that matches a BIO_TYPE_* value.  A type *)
(* value is a number in its low byte plus class bits: BIO_TYPE_DESCRIPTOR,*)
(* _FILTER, _SOURCE_SINK.  A query that is a bare class (low byte zero)   *)
(* matches every BIO of that class; any other query matches that type     *)
(* exactly.                                                                *)
(*                                                                         *)
(* The chain is the sequence of its BIOs' types, head first, and the      *)
(* query is part of the state: each state is one call.                    *)
(***************************************************************************)
EXTENDS Integers, SequencesExt, Bitwise

CONSTANTS
  ChainTypes,  \* names of the types chains are built from
  MaxChain     \* longest chain

BIO_TYPE_DESCRIPTOR == 256
BIO_TYPE_FILTER == 512
BIO_TYPE_SOURCE_SINK == 1024
Classes == {BIO_TYPE_DESCRIPTOR, BIO_TYPE_FILTER, BIO_TYPE_SOURCE_SINK}

(***************************************************************************)
(* The BIO_TYPE_* table: each type's number and its class bits; "USER"    *)
(* is a custom type from BIO_get_new_index (BIO_TYPE_START).              *)
(***************************************************************************)
DS == {BIO_TYPE_SOURCE_SINK, BIO_TYPE_DESCRIPTOR}
TypeTable ==
  [NONE |-> <<0, {}>>, MEM |-> <<1, {BIO_TYPE_SOURCE_SINK}>>,
   FILE |-> <<2, {BIO_TYPE_SOURCE_SINK}>>, FD |-> <<4, DS>>,
   SOCKET |-> <<5, DS>>, NULL |-> <<6, {BIO_TYPE_SOURCE_SINK}>>,
   SSL |-> <<7, {BIO_TYPE_FILTER}>>, MD |-> <<8, {BIO_TYPE_FILTER}>>,
   BUFFER |-> <<9, {BIO_TYPE_FILTER}>>, CIPHER |-> <<10, {BIO_TYPE_FILTER}>>,
   BASE64 |-> <<11, {BIO_TYPE_FILTER}>>, CONNECT |-> <<12, DS>>,
   ACCEPT |-> <<13, DS>>, PROXY_CLIENT |-> <<14, {BIO_TYPE_FILTER}>>,
   PROXY_SERVER |-> <<15, {BIO_TYPE_FILTER}>>,
   NBIO_TEST |-> <<16, {BIO_TYPE_FILTER}>>,
   NULL_FILTER |-> <<17, {BIO_TYPE_FILTER}>>, BER |-> <<18, {BIO_TYPE_FILTER}>>,
   BIO |-> <<19, {BIO_TYPE_SOURCE_SINK}>>,
   LINEBUFFER |-> <<20, {BIO_TYPE_FILTER}>>, DGRAM |-> <<21, DS>>,
   ASN1 |-> <<22, {BIO_TYPE_FILTER}>>, COMP |-> <<23, {BIO_TYPE_FILTER}>>,
   USER |-> <<128, {}>>]

\* The int a BIO_TYPE_* macro expands to.
TypeValue(n) == TypeTable[n][1] + SumSet(TypeTable[n][2])

(***************************************************************************)
(* BIO_find_type: the position of the first match from position i on, or *)
(* 0 (NULL).  mask is the query's low byte: zero means a class query,     *)
(* answered by testing the class bits.                                    *)
(***************************************************************************)
\* Mutant: every query is answered by testing bits in common, so a
\* specific type matches any BIO that shares a bit with it.
RECURSIVE FindTypeAnyBit(_, _, _)
FindTypeAnyBit(types, i, type) ==
  IF i > Len(types) THEN 0
  ELSE IF (types[i] & type) # 0 THEN i
  ELSE FindTypeAnyBit(types, i + 1, type)

RECURSIVE FindTypeFrom(_, _, _)
FindTypeFrom(types, i, type) ==
  LET mask == type & 255 IN
  IF i > Len(types) THEN 0
  ELSE IF IF mask = 0 THEN (types[i] & type) # 0 ELSE types[i] = type
       THEN i
       ELSE FindTypeFrom(types, i + 1, type)

BIO_find_type(types, type) == FindTypeFrom(types, 1, type)

VARIABLES chain, query

\* The values a caller may pass: the classes and the chain types.
Queries == Classes \cup {TypeValue(n) : n \in ChainTypes}

Init ==
  /\ chain \in BoundedSeq(ChainTypes, MaxChain)
  /\ query \in Queries

Next == UNCHANGED <<chain, query>>

Spec == Init /\ [][Next]_<<chain, query>>

-----------------------------------------------------------------------------
(***************************************************************************)
(* The reference, from the table rather than the bits: a BIO matches a    *)
(* class query when its type lists that class, and any other query when   *)
(* it has that very type.                                                 *)
(***************************************************************************)
Matches(n, q) == IF q \in Classes THEN q \in TypeTable[n][2] ELSE TypeValue(n) = q

RefFindType(c, q) == SelectInSeq(c, LAMBDA n : Matches(n, q))

(***************************************************************************)
(* BIO_find_type returns the first BIO of the chain that matches the      *)
(* query, and NULL when none does, for every chain and BIO_TYPE_* query.  *)
(***************************************************************************)
FindTypeCorrect ==
  BIO_find_type([i \in 1..Len(chain) |-> TypeValue(chain[i])], query)
    = RefFindType(chain, query)

=============================================================================
