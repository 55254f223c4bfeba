\* Two threads, two context handles that the driver may reuse, one surface; with
\* the fourth creating call, one thread alone (Alone in MCEglContexts).
SPECIFICATION Spec
CONSTANTS
  Threads = {t1, t2}
  Contexts = {c1, c2}
  Surfaces = {s1}
  MaxStates = 4
  MaxCalls = 4
  CountMod = 8
  Surfaceless = FALSE
  MaxPending = 1
SYMMETRY Symmetry
CONSTRAINT Alone
INVARIANTS
  TypeOK
  OneStatePerContext
  CurrentAgrees
  ActiveIffCurrent
  CurrentIsLive
\* The bounds on states and on calls stop it.
CHECK_DEADLOCK FALSE
