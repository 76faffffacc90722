SPECIFICATION Spec
CONSTANTS
  Backups = 2
  Ids = {i1, i2}
  None = None
  Spellings = {"f", "F"}
  Contents = {"x", "empty", "partial"}
  Times = {1, 2}
  Securities = {1, 2}
  Inherited = {1}
  Size <- MCSize
  Sources <- MCSecuritySources
  Partial = "partial"
  PartialStream = "empty"
  KeepsRef = TRUE
INVARIANT SecurityRight
CHECK_DEADLOCK FALSE
