SPECIFICATION Spec
CONSTANTS
  Entries = 3
  Iterations = 2
  Seeders = {s1, s2, s3}
  Queriers = {q1, q2}
SYMMETRY Symmetry
INVARIANTS
  AllSeeded
  Measurements
PROPERTIES
  Repairs
CHECK_DEADLOCK FALSE
