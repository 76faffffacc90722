SPECIFICATION Spec
CONSTANTS
  Names = {1, 2}
  Trees <- MCTrees
INVARIANTS TypeOK AssertsHold ListsLive NoClash Mirror StatisticsRight NothingLost
PROPERTIES QuietWrites CallEnds
