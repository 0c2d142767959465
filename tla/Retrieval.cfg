SPECIFICATION MCSpec

CONSTANTS
  budget = budget
  transcript = transcript
  Registry <- MCRegistry
  Nearest <- MCNearest
  Within <- MCWithin
  Axes <- MCAxes
  Understood <- MCUnderstood
  Fits <- MCFits
  Matched <- MCMatched
  HalfLives <- MCHalfLives
  RRF_K = 60
  RecallTopK = 3
  RerankTopN = 1
  MaxSubqueries = 2
  MaxTargets = 2
  TopKs = {1, 2}
  Logits = {1, 3}
  MaxChunks = 3
  Unit = 226920
  Scale = 48
  Toggles <- MCToggles
  InEnv <- MCInEnv
  Writers = {w1}
  MaxAway = 1
  Requests = {1, 2, 3, 4, 5}
  Tabs = {t1}
  Draft = Draft

\* Requests end with their answers.
CHECK_DEADLOCK FALSE

INVARIANTS
  StaleHasCause
  ScreenPopulated
  FusionSound
  RecallSuffices
  StagesHeld
