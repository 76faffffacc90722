SPECIFICATION Spec
CONSTANTS
  Backups = 3
  Ids = {i1, i2, i3}
  None = None
  Spellings = {"f", "F"}
  Contents = {"x", "empty", "partial"}
  Times = {1, 2}
  Securities = {1, 2}
  Inherited = {1}
  Size <- MCSize
  Sources <- MCSources
  Partial = "partial"
  PartialStream = "empty"
  KeepsRef = TRUE
INVARIANTS TypeOK BackupRight StatisticsRight
PROPERTIES OthersKept IndependentCopies
SYMMETRY Symmetry
