SPECIFICATION Spec
CONSTANTS
  Threads = {t1, t2}
  Pointers = {p1, p2, p3}
  Blocks = {b1, b2, b3, b4}
  Payloads = {v1, v2}
  NoPayload = NoPayload
  Null = Null
SYMMETRY Symmetry
INVARIANTS
  BlocksCounted
PROPERTIES
  ValueSpec
CHECK_DEADLOCK FALSE
