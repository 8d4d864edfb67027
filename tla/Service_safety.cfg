SPECIFICATION Spec
CONSTANTS
  Requests = {r1, r2}
  Users = {u1}
  HasICMP = TRUE
SYMMETRY Symmetry
INVARIANTS
  TypeOK
  WriterOutlivesApp
  ServedWereUsers
  ClosedServesNobody
PROPERTIES
  GraceIsKept
CHECK_DEADLOCK FALSE
