SPECIFICATION Spec
CONSTANTS
  Contexts = {c0, c1}
  u0 = u0
  u1 = u1
  a0 = a0
  Uniforms = {u0, u1}
  Attribs = {a0}
  Locations = {l0, l1}
  None = None
  Absent = Absent
  Unknown = Unknown
  Casts <- MCCasts
  Manners = {"linked", "once", "asked", "alive", "yours", "hashes"}
INVARIANTS
  TypeOK
  LocationsAgree
  EffectsAgree
