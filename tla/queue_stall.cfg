SPECIFICATION Spec
CONSTANTS
  a = a
  b = b
  Other = other
  Keys = {1, 2}
  GroupOf <- MCGroupOf
  MaxPredicateSize = 0
  MaxPendingKeys = 1
  Scheduled = FALSE
  Watermarks = {1, 2, 3}
  MaxReaderCount = 2
  MaxPendingTasksCount <- MCMaxPending
  CriticalPending = 1
  CriticalSliceCount = 2
  MinPendingToMove = 2
  MinSlicesToMove = 2
  WatermarkPrecision = 2
  MaxDisruptions = 1
INVARIANT
  NoMoreTasksToLoad
