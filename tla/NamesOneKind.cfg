\* One client, one kind of object at a time, a careful application.
SPECIFICATION Spec
CONSTANTS
  Clients = {c1}
  Kinds = {"buffer", "texture", "framebuffer", "renderbuffer", "shader"}
  KindsAtOnce = 1
  MaxName = 3
  DriverNames = {1, 2, 3}
  MaxBatch = 2
  MaxQueue = 3
  Careful = TRUE
INVARIANTS
  TypeOK
  WaitingNamesAreFree
  EachNameItsObject
  UseFindsObject
  NoDeadEntry
  DriverHoldsNoMore
\* Texture and shader names are never reused, so they run out at MaxName.
CHECK_DEADLOCK FALSE
