SPECIFICATION Spec
CONSTANTS
  Names = {"a", "b", "c"}
  Dots = {"dot"}
  Streams = {"s"}
  Descriptors = {"d"}
  Directories <- MCDirectories
  FlagSets <- MCFlagSets
  Filters <- MCFilters
  OwnerWaits = FALSE
PROPERTY ShutdownCompletes
CHECK_DEADLOCK FALSE
