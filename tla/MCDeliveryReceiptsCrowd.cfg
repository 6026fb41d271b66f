SPECIFICATION Spec
CONSTANTS
  d1 = d1
  d2 = d2
  d3 = d3
  r1 = r1
  r2 = r2
  t1 = t1
  t2 = t2
  c1 = c1
  c2 = c2
  NoRun = NoRun
  NoToken = NoToken
  NoDelivery = NoDelivery
  Delivery = {d1, d2, d3}
  Run = {r1}
  Token = {t1}
  Candidate = {c1, c2}
  CandidateOf <- MCCandidateOf
  BatchSize = 1
  MaxGeneration = 0
SYMMETRY Symmetry
INVARIANTS
  JoinedHasDriver
  BoundToOwnCandidate
CHECK_DEADLOCK FALSE
