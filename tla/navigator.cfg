SPECIFICATION Spec
CONSTANTS
  Names <- MCNames
  SetIds <- MCSetIds
  Begins <- MCBegins
  Catalogue <- MCSmallCatalogue
  Pieces <- Small
  Words <- SmallWords
  Doomed = {"1"}
  CacheSize = 2
  MaxDepth = 2
CHECK_DEADLOCK FALSE
INVARIANTS
  RowsOfTheirSet
  MatchesOfThisDirectory
  NavigatorInv
PROPERTIES
  ListingOfLiveSetComplete
  EvictsLeastRecentlyUsed
