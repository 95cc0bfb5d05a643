SPECIFICATION FairSpec
CONSTANTS
  Scanners = {s1, s2}
  Taggers = {t1}
  Deleters = {d1, d2}
  p1 = p1
  p2 = p2
  h1 = h1
  h2 = h2
  x = x
  y = y
  Paths = {p1, p2}
  Hashes = {h1, h2}
  Tags = {x}
  Discs <- DiscsOfTwoLengths
  Requests <- OneRequest
  Asks <- MCAsks
  Survivors = {s2, t1, d2}
  MaxSets = 2
  MaxFiles = 3
  NoFile = NoFile
  Nobody = Nobody
  Unused = Unused
  Gone = Gone
INVARIANTS
  SetsWhole
  MissingSetWasDeleted
CHECK_DEADLOCK FALSE
PROPERTIES
  ImplementsCatalogue
  EveryoneEnds
