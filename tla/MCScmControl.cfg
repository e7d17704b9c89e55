CONSTANTS
  PartCount = 1
  First = 2
  LetterCount = 6
  Bits = 8
  SystemDrives <- MCSystem
  Dependents = {d1, d2}
SPECIFICATION CtlSpec
INVARIANTS
  CtlTypeOK
  HandlesClosed
PROPERTIES
  StoppedMeansDone
  RemoveEnds
