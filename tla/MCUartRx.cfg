SPECIFICATION FairSpec
CONSTANTS
  Size = 4
  Byte = {b1, b2}
  MaxOut = 2
  MaxUnread = 9
INVARIANTS
  TypeOK
PROPERTIES
  PromptReadIsExact
  ImplementsLossyStream
  ReadingGoesOn
