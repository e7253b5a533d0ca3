\* Liveness of RX deadline supervision on MCCom, with one field value (the data plays no part in it).
CONSTANTS
  NumOfGroups = 2
  NumOfIPdus = 3
  NumOfSignals = 3
  MaxTicks = 2
  Dir <- MCDir
  GroupRefMask <- MCGroupRefMask
  Timeout <- MCTimeout
  FirstTimeout <- MCFirstTimeout
  CycleTime <- MCCycleTime
  FirstTime <- MCFirstTime
  SigPdu <- MCSigPdu
  SigType <- MCSigType
  Endianness <- MCEndianness
  NoUpdateBit = NoUpdateBit
  NullPtr = NullPtr
  Vals = {"v"}
  Zero = "v"
  InitValue <- MCInitValue
  UpdateBit <- MCUpdateBit
SPECIFICATION Spec

PROPERTY RxTimeoutDetected
