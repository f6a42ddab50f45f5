SPECIFICATION FairSpec
CONSTANTS
  RingCap = 5
  FramePackets = 2
  Patience = 2
  Message <- MCMessage
  Sysex <- MCSysex
  RuleInput <- MCRuleInput
INVARIANTS
  TypeOK
  DrainedMeansSent
PROPERTIES
  ImplementsStream
  NoForeignData
  SysexReturns
  DrainGoesOn
