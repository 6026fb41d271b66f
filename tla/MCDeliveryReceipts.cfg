SPECIFICATION Spec
CONSTANTS
  d1 = d1
  d2 = d2
  d3 = d3
  r1 = r1
  r2 = r2
  t1 = t1
  t2 = t2
  c1 = c1
  c2 = c2
  NoRun = NoRun
  NoToken = NoToken
  NoDelivery = NoDelivery
  Delivery = {d1, d2}
  Run = {r1, r2}
  Token = {t1, t2}
  Candidate = {c1, c2}
  CandidateOf <- MCCandidateOf
  BatchSize = 1
  MaxGeneration = 1
SYMMETRY Symmetry
INVARIANTS
  TypeOK
  OneActiveReceipt
  JoinedHasDriver
  SettledRunIsOver
PROPERTIES
  BoundAndSettledForGood
  ImplementsLedger
CHECK_DEADLOCK FALSE
