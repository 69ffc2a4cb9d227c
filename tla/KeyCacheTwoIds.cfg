\* Two key ids; each may lose its master key or get a malformed one.
CONSTANTS
  Threads = {t1, t2}
  KeyIds = {v1, v2}
  Materials = {m1}
  Absent = Absent
  Malformed = Malformed
  NoKey = NoKey
  Free = Free
SPECIFICATION Spec
SYMMETRY Symmetry
INVARIANTS UsesKeyOfItsId
