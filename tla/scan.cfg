SPECIFICATION FairSpec
CONSTANTS
  Nodes <- TwinNodes
  Root = "root"
  Dirs <- TwinDirs
  Parent <- TwinParent
  Depth <- TwinDepth
  Rank <- TwinRank
  Name <- TwinName
  Content <- TwinContent
  SearchPaths = {"root", "bx"}
  Discs <- TwinDiscs
  Matching <- TwinMatching
  EntryLimit <- Limits
  MediaTypes = {"Other", "Directory"}
CHECK_DEADLOCK FALSE
INVARIANTS
  HashingInv
  ViewsCoverList
  SameContentsSameHash
  SameHashSameContentsOfEvenNames
  WrittenIsComplete
  EveryEntryWritten
PROPERTY ScanEnds
