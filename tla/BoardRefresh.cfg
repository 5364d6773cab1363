SPECIFICATION Spec
CONSTANTS
  first = first
  second = second
  Job <- JobsMC
  Order <- OrderMC
  PageSize = 1
  Revision = {1, 2}
  Kinds = {"single", "partial", "paged", "detail"}
INVARIANT TypeOK
PROPERTIES ClosureJustified SingleSnapshotCurrent FirstIngestionStores StoreSettles
