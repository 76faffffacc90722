SPECIFICATION Spec
CONSTANTS
  Backups = 3
  Ids = {i1, i2, i3}
  None = None
  Spellings = {"f", "F"}
  Contents = {"x", "empty", "partial"}
  Times = {1}
  Securities = {1, 2}
  Inherited = {1}
  Size <- MCSize
  Sources <- MCSecuritySources
  Partial = "partial"
  PartialStream = "empty"
  KeepsRef = FALSE
PROPERTY OthersKept
CHECK_DEADLOCK FALSE
