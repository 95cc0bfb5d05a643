SPECIFICATION MCSpec
CONSTANTS
  h1 = h1
  h2 = h2
  h3 = h3
  t1 = t1
  s1 = s1
  s2 = s2
  NoHash = NoHash
  Hashes <- MCHashes
  Tags <- MCTags
  Discs <- MCDiscs
  Scanners = {s1, s2}
  Taggers = {g1}
  Deleters = {d1}
  Survivors = {}
  Owners = {1}
  Patterns <- MCPatterns
  Inside <- MCInside
  Prefetch = 2
  MaxSets = 2
  MaxFiles = 3
  Chunk = 8
INVARIANTS
  QueriesInv
  LocateMissesNothing
  ByHashMissesNothing
  GlobReachesAll
PROPERTIES
  GlobsTagWhatTheyMatch
