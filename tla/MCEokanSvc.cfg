CONSTANTS
  PartCount = 3
  First = 2
  LetterCount = 6
  Bits = 8
  SystemDrives <- MCSystem
SPECIFICATION Spec
INVARIANTS
  TypeOK
  SignalFindsEvent
  SeenAreUnmounted
PROPERTIES
  NeverRunningAgain
  PicksUnused
  StopEnds
