SPECIFICATION Spec
CONSTANTS
  Requests = {q1, q2, q3, q4}
  Tabs = {t1}
  Draft = Draft
SYMMETRY Symmetry
CHECK_DEADLOCK FALSE
INVARIANTS
  NeverStale
