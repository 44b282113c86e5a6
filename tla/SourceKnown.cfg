CONSTANTS
  CHANNEL_MAX = 2
  FD = {5, 6}
  LIST_MAX = 8
  Outcome = {"all", "some"}
  Resets = FALSE
  PkgIn <- OneWay

SPECIFICATION Spec

INVARIANT
  SourceKnown

CHECK_DEADLOCK FALSE
