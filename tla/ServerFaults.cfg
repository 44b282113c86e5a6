CONSTANTS
  CHANNEL_MAX = 2
  FD = {5, 6}
  LIST_MAX = 1
  Outcome = {"all", "some", "again", "fail"}
  Resets = TRUE
  PkgIn <- OneWay

SPECIFICATION Spec

INVARIANTS
  TypeOK
  ChannelMapSound
  NoDescriptorLeak
  ReplyAddressed
  
  NeverTheTerminal

CHECK_DEADLOCK FALSE
