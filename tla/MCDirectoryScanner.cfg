SPECIFICATION Spec
CONSTANTS
  Names = {"a", "b", "c"}
  Dots = {"dot"}
  Streams = {"s"}
  Descriptors = {"d"}
  Directories <- MCDirectories
  FlagSets <- MCFlagSets
  Filters <- MCFilters
  OwnerWaits = TRUE
INVARIANTS TypeOK ContextInUse ScanWhenIdle WholeListing
PROPERTIES Implements WaitEnds ShutdownCompletes
CHECK_DEADLOCK FALSE
