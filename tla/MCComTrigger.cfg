\* Every successful transmission clears the PDU's update bits (spec 4.E and 9).
CONSTANTS
  NumOfGroups = 2
  NumOfIPdus = 3
  NumOfSignals = 3
  MaxTicks = 2
  Dir <- MCDir
  GroupRefMask <- MCGroupRefMask
  Timeout <- MCTimeout
  FirstTimeout <- MCFirstTimeout
  CycleTime <- MCCycleTime
  FirstTime <- MCFirstTime
  SigPdu <- MCSigPdu
  SigType <- MCSigType
  Endianness <- MCEndianness
  NoUpdateBit = NoUpdateBit
  NullPtr = NullPtr
  Vals = {"z", "v"}
  Zero = "z"
  InitValue <- MCInitValue
  UpdateBit <- MCUpdateBit
SPECIFICATION Spec

PROPERTY TxClearsUpdateBits
