CONSTANTS
  Calls = {c1, c2, c3, c4}
  Keys = {k1, k2}
  Salts = {s1, s2}
  Sequences = {q1, q2}
  NoBucket = NoBucket
SPECIFICATION Spec
SYMMETRY Symmetry
INVARIANTS
  TypeOK
  OneBucketPerTopic
CHECK_DEADLOCK FALSE
