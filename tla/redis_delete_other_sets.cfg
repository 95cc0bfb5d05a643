SPECIFICATION Spec
CONSTANTS
  h1 = h1
  h2 = h2
  t1 = t1
  NoHash = NoHash
  Hashes <- MCHashes
  Tags <- MCTags
  Discs <- MCDiscs
  Scanners = {s1, s2}
  Taggers = {}
  Deleters = {d1}
  Survivors = {}
  Owners = {}
  MaxSets = 2
  MaxFiles = 4
  Chunk = 8
PROPERTIES
  DeleteOnlyNamedSets
