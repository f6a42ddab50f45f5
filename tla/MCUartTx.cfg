SPECIFICATION FairSpec
CONSTANTS
  b1 = b1
  b2 = b2
  Byte <- MCByte
  Message <- MCMessage
  RingCap = 3
  TxBufSize = 4
INVARIANTS
  TypeOK
  Inv
PROPERTIES
  BufferStable
  ImplementsStream
  QueueDrains
  TransferEnds
