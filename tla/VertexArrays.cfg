SPECIFICATION Spec
CONSTANTS
  b1 = b1
  b2 = b2
  v1 = v1
  i0 = i0
  i1 = i1
  i2 = i2
  Indices = {i0, i1, i2}
  Arrays <- MCArrays
  Buffers = {b1, b2}
  Vaos = {v1}
  None = None
  Absent = Absent
  MaxVertex = 2
  MaxChunk = 5
  Casts <- MCCasts
  Manners = {"pointers", "binding", "rising", "strides", "unbound", "arrays", "values", "detached", "elements", "fits", "queries", "objects"}
INVARIANTS
  TypeOK
  ListCounted
  AnswersAgree
  DrawsReadRight
