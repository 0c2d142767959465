SPECIFICATION Spec
CONSTANTS
  Requests = {r1, r2}
  Keys = {k1, k2}
  NoKey = NoKey
  c1 = c1
  c2 = c2
  ChunkIds = {c1, c2}
  Drafts <- MCDrafts
  RedisBacked = TRUE
  Leftover = {k2}
  TTLElapses = TRUE
  GateDefault = TRUE
  NoEntry = NoEntry
  Unreadable = Unreadable
  NoEstimate = NoEstimate
SYMMETRY MCSymmetry
INVARIANTS
  OnlyCoherentLeaves
  CitationsHonest
  ReplayIsVerbatim
  RetryIsFree
