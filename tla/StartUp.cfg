\* Three threads that make their first calls at any time, a table of two entries.
SPECIFICATION Spec
CONSTANTS
  Threads = {t0, t1, t2}
  Entries = 2
INVARIANTS
  TypeOK
  StartsWhole
PROPERTY FirstCallEnds
\* All threads have started in the end.
CHECK_DEADLOCK FALSE
