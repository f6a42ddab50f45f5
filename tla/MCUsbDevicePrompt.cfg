SPECIFICATION FairSpec
CONSTANT Prompt = TRUE
INVARIANTS
  ReceivesWhenConfigured
  BusyHasReason
PROPERTIES
  TransmissionEnds
