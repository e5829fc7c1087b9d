CONSTANTS
  Rates <- RatesToTry
  Plls = {3906250, 5859375}
SPECIFICATION FairSpec
INVARIANTS TypeOK PlaysAtRate RefusedOnlyAtCarry
PROPERTY UsualRatesPlay
CHECK_DEADLOCK FALSE
