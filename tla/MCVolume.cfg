SPECIFICATION Spec
CONSTANTS
  Volumes = {"src", "cpy"}
  Extents <- MCExtents
INVARIANTS TypeOK WholeVolume ChunkFits
CHECK_DEADLOCK FALSE
