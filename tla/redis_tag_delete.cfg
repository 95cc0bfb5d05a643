SPECIFICATION Spec
CONSTANTS
  h1 = h1
  h2 = h2
  t1 = t1
  NoHash = NoHash
  Hashes <- MCHashes
  Tags <- MCTags
  Discs <- MCOneDisc
  Scanners = {s1, s2}
  Taggers = {g1}
  Deleters = {d1}
  Survivors = {}
  Owners = {2}
  MaxSets = 2
  MaxFiles = 2
  Chunk = 8
INVARIANTS
  IInv
  TagIndexExact
  ScriptsLostOnlyWhileConnecting
PROPERTIES
  TagsChangeOnlyInOwnSet
SYMMETRY MCSymmetry
