CONSTANTS
  Codes = {c1}
  Typos = {x1}
  Pages = {p1, p2}
  Slots = {1, 2}
SPECIFICATION Spec
CHECK_DEADLOCK FALSE
SYMMETRY PageSymmetry
INVARIANTS
  TypeOK
  AdmittedOnce
  RefusalsStayTrue
