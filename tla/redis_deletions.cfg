SPECIFICATION FairSpec
CONSTANTS
  h1 = h1
  h2 = h2
  t1 = t1
  NoHash = NoHash
  Hashes <- MCHashes
  Tags <- MCTags
  Discs <- MCDiscs
  Scanners = {s1}
  Taggers = {}
  Deleters = {d1, d2}
  Survivors = {d1}
  Owners = {}
  MaxSets = 1
  MaxFiles = 2
  Chunk = 2
INVARIANTS
  DeletedSetStaysGone
PROPERTIES
  DeleteTakesEffect
