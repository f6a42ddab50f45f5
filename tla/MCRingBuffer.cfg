SPECIFICATION Spec
CONSTANTS
  Size = 4
  Byte = {b1, b2}
INVARIANTS
  TypeOK
  AvailIsHonoured
  NoSlotRace
  Inv
PROPERTY
  ImplementsFifo
