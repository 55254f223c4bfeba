\* One thread, a context and one that shares with it.
SPECIFICATION Spec
CONSTANTS
  Threads = {t1}
  Contexts = {c1, c2}
  Surfaces = {}
  MaxStates = 3
  MaxCalls = 2
  CountMod = 8
  Surfaceless = TRUE
  MaxPending = 1
SYMMETRY Symmetry
INVARIANT ChildrenKeepParent
\* The bounds on states and on calls stop it.
CHECK_DEADLOCK FALSE
