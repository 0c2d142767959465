SPECIFICATION ServiceSpec
CONSTANTS
  Keys <- MCKeys
  Submissions <- MCSubmissions
  Calls <- MCCalls
  MaxCalls = 2
  MaxIterations = 3
  Nothing = Nothing
  doc1 = doc1
  doc2 = doc2
  doc3 = doc3
  nowhere = nowhere
  None = None
  Absent = Absent
  ChunkIds <- MCChunkIds
  Corpus <- MCCorpus
  Names <- MCKeys
  Written <- MCWritten
  Rankings <- MCRankings
  Budgets = {6, 10}
  Trees <- MCTrees
  Tolerance = 50
  DayHours = 8
  Texts = {Text}
  Files = {File}
  Readable = {File}
  Similar <- MCSimilar
  MaxTurns = 1
  MaxSessions = 2
  MaxPosts = 3
INVARIANTS
  BreakdownTraced
  NothingDropped
  PassedIsSupported
  ContextIsBest
  PageHonest
  AnswersInContext
