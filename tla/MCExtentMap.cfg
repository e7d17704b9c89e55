CONSTANTS
  FileBlock = {0, 1, 2, 3, 4, 5, 6, 7, 8}
  Disk <- MCDisk
  Tops <- MCTops
  BlkSz = 1024
SPECIFICATION Spec
INVARIANTS
  TypeOK
  ExtentMapped
  LeafAnswers
