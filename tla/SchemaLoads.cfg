SPECIFICATION FairSpec
CONSTANTS
  a = a
  b = b
  c = c
  s1 = s1
  s2 = s2
  t = t
  refresh = refresh
  reload = reload
  r1 = r1
  Loaders = {refresh, reload}
  Refresh = refresh
  Requests = {r1}
  Sources = {"None", "Bundled", "Reflection"}
  Files = {a, b, c}
  Symbols = {s1, s2}
  Services <- ListedOf
  Defines <- DefinedIn
  Deps <- Imports
  Provides <- TypesOf
  Needs <- RefersTo
  Answers <- AnyAnswer
  NameOrder <- ByName
  ReqCap = 1
  Window = 1
  HeadersFirst = TRUE
  MaxVersion = 1
  MaxFaults = 1
INVARIANTS
  TypeOK
  LoadFailsForCause
  SnapshotCovers
PROPERTIES
  EventuallyLoaded
  CatchesUp
