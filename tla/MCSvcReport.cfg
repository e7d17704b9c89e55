CONSTANTS
  PartCount = 1
  First = 2
  LetterCount = 6
  Bits = 8
  SystemDrives <- MCSystem
SPECIFICATION Spec
INVARIANTS
  StoppedReported
