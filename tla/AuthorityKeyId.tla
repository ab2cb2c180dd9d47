---------------------------- MODULE AuthorityKeyId ----------------------------
(***************************************************************************)
(* The AUTHORITY_KEYID ASN.1 template of crypto/x509/v3_akeya.cc and the  *)
(* d2i / i2d functions IMPLEMENT_ASN1_FUNCTIONS derives from it:           *)
(*                                                                         *)
(*   SEQUENCE { keyid  [0] IMPLICIT OCTET STRING OPTIONAL,                 *)
(*              issuer [1] IMPLICIT SEQUENCE OF GeneralName OPTIONAL,      *)
(*              serial [2] IMPLICIT INTEGER OPTIONAL }                     *)
(*                                                                         *)
(* The SEQUENCE's contents are a sequence of TLVs, each an identifier     *)
(* octet and a content value; lengths are implied by the contents.  A     *)
(* field's content is abstracted to a small set of model values of its    *)
(* type; for issuer, one of them stands for the empty SEQUENCE OF.        *)
(* Decoding walks the template in order: a field whose tag matches the    *)
(* next TLV takes it, an optional field that does not match is absent,    *)
(* and TLVs left over after the last field are an error.                  *)
(***************************************************************************)
EXTENDS Integers, SequencesExt

CONSTANTS
  KeyIds,       \* OCTET STRING contents
  Issuers,      \* SEQUENCE OF GeneralName contents
  EmptyIssuer,  \* the empty SEQUENCE OF, a member of Issuers
  Serials,      \* INTEGER contents
  Other,        \* the content of a TLV no field expects
  NULL,         \* the absent value of an OPTIONAL field
  Error,        \* the result of a failed d2i
  MaxTlvs       \* longest TLV sequence decoded

Fields == <<"keyid", "issuer", "serial">>

(***************************************************************************)
(* The template: each field's context tag, whether its encoding is        *)
(* constructed, and the contents its type allows.                         *)
(***************************************************************************)
Template ==
  [keyid  |-> [tag |-> 0, cons |-> FALSE, dom |-> KeyIds],
   issuer |-> [tag |-> 1, cons |-> TRUE,  dom |-> Issuers],
   serial |-> [tag |-> 2, cons |-> FALSE, dom |-> Serials]]

\* Identifier octet: context class (0x80), constructed bit (0x20), tag.
IdOctet(tag, cons) == 128 + (IF cons THEN 32 ELSE 0) + tag

FieldId(f) == IdOctet(Template[f].tag, Template[f].cons)

\* AUTHORITY_KEYID values: each field absent or one of its contents.
Values ==
  [keyid : KeyIds \cup {NULL},
   issuer : Issuers \cup {NULL},
   serial : Serials \cup {NULL}]

(***************************************************************************)
(* i2d: the present fields, in template order.                            *)
(***************************************************************************)
i2d_AUTHORITY_KEYID(v) ==
  SelectSeq([i \in 1..3 |-> [id |-> FieldId(Fields[i]), val |-> v[Fields[i]]]],
            LAMBDA t : t.val # NULL)

(***************************************************************************)
(* d2i: the template walk, from field i on, over the remaining TLVs.      *)
(***************************************************************************)
\* Mutant: a TLV no field matches is skipped instead of failing.
RECURSIVE DecodeSkipsUnknown(_, _, _)
DecodeSkipsUnknown(i, tlvs, acc) ==
  IF i > Len(Fields)
  THEN IF tlvs = <<>> THEN acc
       ELSE IF \E f \in DOMAIN Template : Head(tlvs).id = FieldId(f)
            THEN Error ELSE DecodeSkipsUnknown(i, Tail(tlvs), acc)
  ELSE LET f == Fields[i] IN
       IF tlvs # <<>> /\ Head(tlvs).id = FieldId(f)
       THEN IF Head(tlvs).val \in Template[f].dom
            THEN DecodeSkipsUnknown(i + 1, Tail(tlvs),
                                    [acc EXCEPT ![f] = Head(tlvs).val])
            ELSE Error
       ELSE DecodeSkipsUnknown(i + 1, tlvs, [acc EXCEPT ![f] = NULL])

RECURSIVE DecodeFields(_, _, _)
DecodeFields(i, tlvs, acc) ==
  IF i > Len(Fields)
  THEN IF tlvs = <<>> THEN acc ELSE Error
  ELSE LET f == Fields[i] IN
       IF tlvs # <<>> /\ Head(tlvs).id = FieldId(f)
       THEN IF Head(tlvs).val \in Template[f].dom
            THEN DecodeFields(i + 1, Tail(tlvs), [acc EXCEPT ![f] = Head(tlvs).val])
            ELSE Error
       ELSE DecodeFields(i + 1, tlvs, [acc EXCEPT ![f] = NULL])

d2i_AUTHORITY_KEYID(tlvs) ==
  DecodeFields(1, tlvs, [keyid |-> NULL, issuer |-> NULL, serial |-> NULL])

(***************************************************************************)
(* The inputs: every TLV sequence up to MaxTlvs long over the three       *)
(* fields' identifiers and two near misses: [1] primitive (an issuer     *)
(* that is not constructed) and [3] (a tag the template does not have).  *)
(***************************************************************************)
Tlvs ==
  UNION {[id : {FieldId(f)}, val : Template[f].dom] : f \in DOMAIN Template}
  \cup [id : {IdOctet(1, FALSE), IdOctet(3, FALSE)}, val : {Other}]

VARIABLE input

Init == input \in BoundedSeq(Tlvs, MaxTlvs)

\* Each state is one decode; nothing changes it.
Next == UNCHANGED input

Spec == Init /\ [][Next]_input

-----------------------------------------------------------------------------
(***************************************************************************)
(* DER is a bijection: d2i accepts exactly the encodings i2d produces,    *)
(* and returns the value encoded.  Out-of-order, repeated, unknown,       *)
(* wrongly constructed or trailing TLVs are all refused.                  *)
(***************************************************************************)
RefDecode(t) ==
  IF \E v \in Values : i2d_AUTHORITY_KEYID(v) = t
  THEN CHOOSE v \in Values : i2d_AUTHORITY_KEYID(v) = t
  ELSE Error

DecodeMatchesReference ==
  d2i_AUTHORITY_KEYID(input) = RefDecode(input)

=============================================================================
