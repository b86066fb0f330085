SPECIFICATION FairSpec
CONSTANTS
  Tokens = {t1, t2}
  None = None
  MaxItems = 2
  MaxEvents = 4
INVARIANTS TypeOK NeverStranded SignedOutIsForgotten PumpAlive
PROPERTIES OwnAnswersEnd NoSilentReplace PumpEnds PageSettles
CHECK_DEADLOCK FALSE
