SPECIFICATION Spec
CONSTANTS
  s1 = s1  s2 = s2  s3 = s3  s4 = s4
  A = A  B = B  C = C  c1 = c1  c2 = c2  r1 = r1  r2 = r2  r3 = r3
  g1 = g1  g2 = g2  g3 = g3  h1 = h1
  SignalIds = {s1, s2, s3, s4}
  Sources = {A, B, C}
  Contents = {c1, c2}
  Roots = {r1, r2, r3}
  Groups = {g1, g2, g3}
  Hypotheses = {h1}
  Unresolved = unresolved
  Arrivals <- CreditArrivals
  Judgments <- MCJudgments
  Qualities = {1, 2}
  Cap = 2
  MaxCycle = 3
  MaxBatch = 1
  MaxEvents = 3
  MaxFrame = 2
INVARIANTS
  CreditWithinCap
  CreditIsSpentWeight
PROPERTIES
  ReplayIsNeutral
CHECK_DEADLOCK FALSE
