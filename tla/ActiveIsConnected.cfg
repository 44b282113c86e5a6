CONSTANTS
  CHANNEL_MAX = 3
  FD = {5, 6, 7}
  LIST_MAX = 8
  Outcome = {"all", "some"}
  Resets = FALSE
  PkgIn <- OneWay

SPECIFICATION Spec

INVARIANT
  ActiveIsConnected

CHECK_DEADLOCK FALSE
