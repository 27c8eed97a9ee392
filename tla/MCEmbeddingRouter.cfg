SPECIFICATION FairSpec
CONSTANTS
  Call = {c1, c2}
  NoCall = NoCall
  Text = {a, b, c}
  Query = Query
  CacheSize = 2
  MaxSchemas = 2
INVARIANTS
  TypeOK
  OwnVectors
  MissingStillMissing
PROPERTIES
  LeastRecentlyUsedFirst
  CorruptOnlyByEviction
  EveryRouteEnds
