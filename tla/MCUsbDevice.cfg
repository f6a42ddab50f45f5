SPECIFICATION Spec
CONSTANT Prompt = FALSE
INVARIANTS
  TypeOK
  BusyCoversTransfer
PROPERTIES
  LostOnlyByBusEvent
  TxBufStable
