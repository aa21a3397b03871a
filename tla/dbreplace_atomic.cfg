SPECIFICATION Spec
CONSTANTS
  i1 = i1  i2 = i2  good = good  broken = broken  fresh = fresh  partial = partial
  Importers <- OneImporter
  Archives <- BothArchives
  Broken <- BrokenArchive
  Newest = 2
  VersionOf <- Older
  Fresh <- fresh
  Partial <- partial
  MaxEdits = 2
  MaxImports = 3
  MaxFaults = 2
  MaxFiles = 5
INVARIANT ServesOldOrNew
CHECK_DEADLOCK FALSE
