CONSTANTS
  Alphabet <- MCAlphabet
  MaxLen = 3
SPECIFICATION Spec
INVARIANTS
  TypeOK
  FnvMatchesReference
CHECK_DEADLOCK FALSE
