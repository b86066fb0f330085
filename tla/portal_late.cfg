SPECIFICATION Spec
CONSTANTS
  Tokens = {t1, t2}
  None = None
  MaxItems = 2
  MaxEvents = 4
PROPERTY EndedMeansEnded
CHECK_DEADLOCK FALSE
