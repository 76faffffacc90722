SPECIFICATION Spec
CONSTANTS
  Names = {n1, n2, n3, n4}
  Ids = {f1, f2, d1}
  Directories = {d1}
  None = None
INVARIANTS TypeOK OnlyTheName
PROPERTY Implements
