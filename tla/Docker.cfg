CONSTANTS
  Ids = {c1, c2}
  Ttys = {c1}
  Creates = {r1, r2}
  Traffics <- OneKind
  MaxAge = 0
  Concurrency = 1
  BindAddrs <- Bindings
  NamedAddrs <- Everywhere
  None = None
  c1 = c1
  c2 = c2
  r1 = r1
  r2 = r2
SPECIFICATION FairSpec
INVARIANTS CacheOfLastPass NoStaleFigures OneContainerPerRequest SuccessMeansStarted 
PROPERTIES EntryGoes LogsEnd
