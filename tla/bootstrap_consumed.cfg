SPECIFICATION AuthSpec
CONSTANTS
  LAST_GENERATION = 1
  MAX_STARTS = 2
INVARIANT KeptUntilServed
CHECK_DEADLOCK FALSE
