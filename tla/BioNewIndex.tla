------------------------------ MODULE BioNewIndex ------------------------------
(***************************************************************************)
(* BIO_get_new_index (include/CCryptoBoringSSL_bio.h, "Custom BIOs")      *)
(* hands out "a new type value for a custom BIO", counting up from        *)
(* BIO_TYPE_START.  The header gives it no limit and no failure value.    *)
(* A custom BIO of a handed-out type is then looked up with               *)
(* BIO_find_type in a chain that also holds built-in BIOs: here a         *)
(* descriptor BIO (BIO_TYPE_FD) ahead of the custom one.                  *)
(***************************************************************************)
EXTENDS Integers

CONSTANT MaxNewIndex   \* bound on BIO_get_new_index calls

LOCAL FT == INSTANCE BioFindType WITH
              ChainTypes <- {}, MaxChain <- 0, chain <- <<>>, query <- 0

BIO_TYPE_START == 128

VARIABLES
  next_index,  \* BIO_get_new_index's counter
  issued       \* the type values it has returned

vars == <<next_index, issued>>

BIO_get_new_index ==
  /\ next_index < BIO_TYPE_START + MaxNewIndex
  /\ issued' = issued \cup {next_index}
  /\ next_index' = next_index + 1

Init == next_index = BIO_TYPE_START /\ issued = {}

Next == BIO_get_new_index

Spec == Init /\ [][Next]_vars

-----------------------------------------------------------------------------
(***************************************************************************)
(* A custom type is a type of its own: in the chain FD -> custom BIO,     *)
(* BIO_find_type with a handed-out type finds the custom BIO, and no      *)
(* BIO_TYPE_* class query finds it.                                       *)
(***************************************************************************)
NewIndexIsUserType ==
  \A t \in issued :
    LET c == <<FT!TypeValue("FD"), t>> IN
    /\ FT!BIO_find_type(c, t) = 2
    /\ \A q \in FT!Classes : FT!BIO_find_type(c, q) # 2

=============================================================================
