CONSTANTS
  Thread = {t1, t2}
  Remote = {5, 6}
  CHUNKS = 2
  Faults = TRUE

SPECIFICATION Spec

INVARIANTS
  TypeOK
  HandlesOpen
  NothingLeftOpen
  ToItsViewer

CHECK_DEADLOCK FALSE
