\* The same careful application with buffers and textures.
SPECIFICATION Spec
CONSTANTS
  Clients = {c1}
  Kinds = {"buffer", "texture"}
  KindsAtOnce = 2
  MaxName = 2
  DriverNames = {1, 2, 3}
  MaxBatch = 1
  MaxQueue = 2
  Careful = TRUE
INVARIANT EachNameItsObject
CHECK_DEADLOCK FALSE
