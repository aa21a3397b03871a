SPECIFICATION Spec
CONSTANTS
  i1 = i1  i2 = i2  good = good  broken = broken  fresh = fresh  partial = partial
  Importers <- TwoImporters
  Archives <- BothArchives
  Broken <- BrokenArchive
  Newest = 2
  VersionOf <- Older
  Fresh <- fresh
  Partial <- partial
  MaxEdits = 1
  MaxImports = 2
  MaxFaults = 2
  MaxFiles = 5
INVARIANTS TypeOK NothingLost ServesMigrated ImportSettles
CHECK_DEADLOCK FALSE
