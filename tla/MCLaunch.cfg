CONSTANTS
  Disks <- MCDisks
  Strays <- MCStrays
  MaxPart = 3
  Drives = 2
  ExtAt = {1, 11, 16, 24, 40}
SPECIFICATION LaunchSpec
INVARIANTS
  LaunchTypeOK
  ScanFindsAll
  NeverBefore
  SameAsScanned
  DependenciesHeld
  NothingLeft
  StartsWhatMounts
PROPERTIES
  LaunchEnds
