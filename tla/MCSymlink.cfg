CONSTANTS
  Obj <- MCObj
  RootObj = "/"
  Type <- MCType
  Entry <- MCEntry
  Stale <- MCStale
  Slots <- MCSlots
  Target <- MCTarget
  Torn <- MCTorn
  Name <- MCName
  Paths <- TornPaths
  Node = {n1, n2, n3, n4}
  Handle = {h1, h2}
  File = {f1, f2}
  MaxNest = 3
SPECIFICATION DokanSpec
INVARIANTS
  SymlinkFollowed
