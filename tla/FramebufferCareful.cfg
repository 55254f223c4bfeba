SPECIFICATION Spec
CONSTANTS
  t1 = t1
  r1 = r1
  f1 = f1
  f2 = f2
  Textures = {t1}
  Renderbuffers = {r1}
  Framebuffers = {f1, f2}
  Units = {u0, u1}
  Unit0 = u0
  Levels = {l0, l1}
  Level0 = l0
  MaxSize = 2
  Pname = "filter"
  None = None
  Absent = Absent
  Casts <- MCCasts
  Manners = {"names", "rebinds", "parameters", "levels", "sizes", "storage", "attaches", "asks"}
INVARIANTS
  TypeOK
  BindingsAgree
  ParametersAgree
  RefusedDrawIsWrong
  RefusedPartIsWrong
  
