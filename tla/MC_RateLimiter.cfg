SPECIFICATION Spec
CONSTANTS
  i1 = i1
  i2 = i2
  h1 = h1
  h2 = h2
  b1 = b1
  b2 = b2
  b3 = b3
  Ip = {i1, i2}
  Handler = {h1, h2}
  Bucket = {b1, b2, b3}
  Burst = 3
  Cost = 2
  Rate = 1
  IdleTime = 3
  MaxTime = 6
  NoBucket = NoBucket
  NoRequest = NoRequest
  NoOutcome = NoOutcome
INVARIANTS
  RateBound
PROPERTIES
  ImplementsMeter
SYMMETRY MCSymmetry
