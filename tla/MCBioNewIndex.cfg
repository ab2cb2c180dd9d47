\* Enough BIO_get_new_index calls to hand out 128..256.
CONSTANTS
  MaxNewIndex = 129
SPECIFICATION Spec
\* The counter stops at the bound.
CHECK_DEADLOCK FALSE
INVARIANT NewIndexIsUserType
