SPECIFICATION Spec
CONSTANTS
  WordSize = 2
  PageSize = 4
  AppPages = 2
  BlockSize = 3
  MaxPayload = 4
  HalfByte = 4
  ImageSize = {3, 5, 9}
  MaxReceived = 10
INVARIANTS
  TypeOK
  ConfigUntouched
  PageHasRoom
  CompleteIsFlashed
