SPECIFICATION QueueSpec
CONSTANTS
  d1 = d1
  d2 = d2
  r1 = r1
  r2 = r2
  w1 = w1
  w2 = w2
  c1 = c1
  NoRun = NoRun
  NoToken = NoToken
  NoDelivery = NoDelivery
  Delivery = {d1}
  Run = {r1}
  Token = {w1, w2}
  Candidate = {c1}
  CandidateOf <- MCCandidateOf
  BatchSize = 1
  MaxGeneration = 2
  MaxRetries = 1
  MaxFaults = 2
  FaultKinds = {"crash", "call", "timeout", "duplicate", "slow", "message", "envelope", "edge", "cron", "redelivery"}
SYMMETRY Symmetry
INVARIANTS
  QueueTypeOK
  EnvelopeKept
PROPERTIES
  ImplementsReceipts
  DeadLetterSettledBeforeAck
CHECK_DEADLOCK FALSE
