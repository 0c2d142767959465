SPECIFICATION Spec
CONSTANTS
  Calls = {r1, r2, r3}
  Threads = 2
  t1 = t1
  t2 = t2
  t3 = t3
  f1 = f1
  f2 = f2
  Inputs <- MCInputs
  Alike <- MCAlike
  Flagged = {t2}
  Models = {m1, m2}
  Default = m1
  None = None
  RedisFails = TRUE
SYMMETRY Symmetry
CHECK_DEADLOCK FALSE
INVARIANTS
  AnswerFits
  ModelHonest
