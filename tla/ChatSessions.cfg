SPECIFICATION SpecChats
CONSTANTS
  Sessions = {s1}
  Turns = {t1, t2, t3}
  MaxTurns = 1
  MaxIterations = 2
  AnchorMode = "heuristic"
  Forms <- MCForms
  Drafts <- MCDrafts
  Extracts <- MCExtracts
  Nothing = Nothing
  NoChat = NoChat
  MaxTabs = 2
SYMMETRY MCSymmetry
CHECK_DEADLOCK FALSE
INVARIANTS
  MemoryAccounted
  CommitmentsKept
  HistoryIsAnswers
  RegulationRemembered
  ChatMirrorsSession
  PanelFresh
