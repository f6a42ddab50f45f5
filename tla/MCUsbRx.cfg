SPECIFICATION Spec
CONSTANTS
  RingSize = 16
  MaxOut = 5
  Cin = {"start", "tune", "two"}
  TransferPackets = 2
INVARIANTS
  TypeOK
  FramedUnlessCut
  PopsFour
  OutFits
PROPERTIES
  DecodesInOrder
