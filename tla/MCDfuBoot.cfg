SPECIFICATION Spec
CONSTANTS
  WordSize = 2
  PageSize = 4
  AppPages = 2
  BlockSize = 3
  MaxPayload = 4
  HalfByte = 4
  ImageSize = {5, 8}
  MaxReceived = 9
PROPERTY
  BootedIsWhole
