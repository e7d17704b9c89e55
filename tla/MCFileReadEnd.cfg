CONSTANTS
  SectorSize = 2
  PartLengths = {15, 19}
  IntMax = 15
  BufSize = 14
  SectorsPerBlock = 2
  Blocks = 5
  Maps <- MCMaps
  FileSizes = {5, 10}
  MaxPos = 7
  MaxLen = 10
  FirstDataBlock = 0
  InodesPerGroup = 8
  InodeSize = 1
  InodeLen = 1
  DescSize = 2
  Groups = 3
  Tables <- MCTables
  AnyTable = {0, 3, 9}
SPECIFICATION InodeSpec
INVARIANTS
  NoReadPastEnd
