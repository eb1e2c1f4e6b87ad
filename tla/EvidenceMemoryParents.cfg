SPECIFICATION Spec
CONSTANTS
  s1 = s1  s2 = s2  s3 = s3  s4 = s4
  A = A  B = B  C = C  c1 = c1  c2 = c2  r1 = r1  r2 = r2  r3 = r3
  g1 = g1  g2 = g2  g3 = g3  h1 = h1
  SignalIds = {s1, s2, s3, s4}
  Sources = {A, B, C}
  Contents = {c1, c2}
  Roots = {r1, r2}
  Groups = {g1, g2, g3}
  Hypotheses = {h1}
  Unresolved = unresolved
  Arrivals <- MCArrivals
  Judgments <- OneJudgment
  Qualities = {1}
  Cap = 2
  MaxCycle = 2
  MaxBatch = 2
  MaxEvents = 2
  MaxFrame = 1
INVARIANT DerivedKeepsRoot
CHECK_DEADLOCK FALSE
