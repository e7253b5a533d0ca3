\* A send on a signal of unsupported type must leave the PDU buffer alone (spec 4.B).
CONSTANTS
  NumOfGroups = 2
  NumOfIPdus = 3
  NumOfSignals = 3
  MaxTicks = 2
  Dir <- MCDir
  GroupRefMask <- MCGroupRefMask
  Timeout <- MCTimeout
  FirstTimeout <- MCFirstTimeout
  CycleTime <- MCCycleTime
  FirstTime <- MCFirstTime
  SigPdu <- MCSigPdu
  SigType <- MCSigTypeBad
  Endianness <- MCEndianness
  NoUpdateBit = NoUpdateBit
  NullPtr = NullPtr
  Vals = {"z", "v"}
  Zero = "z"
  InitValue <- MCInitValue
  UpdateBit <- MCUpdateBit
SPECIFICATION Spec

PROPERTY SendFailureNoSideEffect
