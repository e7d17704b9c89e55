CONSTANTS
  Direct = 1
  PerBlock = 2
  Block <- MCBlock
  DirBlocks <- MCDir
  Root <- MCRoot
  Disk <- MCDisk
  Torn <- MCTorn
SPECIFICATION Spec
INVARIANTS
  TripleIndirect
