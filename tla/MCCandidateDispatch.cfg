\* Two attempts, and two drivers that resolve different plans.  No symmetry, since a
\* liveness property is checked.
SPECIFICATION FairSpec
CONSTANTS
  p1 = p1
  p2 = p2
  q1 = q1
  q2 = q2
  NoDriver = NoDriver
  NoPlan = NoPlan
  NoRun = NoRun
  Run = {r1, r2}
  Driver = {w1, w2}
  Plan = {p1, p2}
  Requirement = {q1, q2}
  RequirementsOf <- MCRequirementsOf
INVARIANTS
  TypeOK
  OneVerifier
  ExecutedInOrder
PROPERTIES
  StaleCaptureIsInert
  SupersededStandsStill
  DecidedForGood
  StartedEnds
CHECK_DEADLOCK FALSE
