SPECIFICATION FairSpec
CONSTANTS
  Scanners = {s1, s2}
  Taggers = {t1, t2}
  Deleters = {d1}
  p1 = p1
  p2 = p2
  h1 = h1
  h2 = h2
  x = x
  y = y
  Paths = {p1, p2}
  Hashes = {h1, h2}
  Tags = {x, y}
  Discs <- MCDiscs
  Requests <- ManyRequests
  Asks <- MCAsks
  Survivors = {s1, s2, t2, d1}
  MaxSets = 2
  MaxFiles = 4
  NoFile = NoFile
  Nobody = Nobody
  Unused = Unused
  Gone = Gone
INVARIANTS
  NoTagLost
  PgInv
PROPERTIES
  OnlyWhatWasAsked
CHECK_DEADLOCK FALSE
