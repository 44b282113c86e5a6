CONSTANTS
  Thread = {t1, t2}
  Remote = {5}
  CHUNKS = 1
  Faults = FALSE

SPECIFICATION FairSpec

PROPERTY
  StopEndsThread

CHECK_DEADLOCK FALSE
