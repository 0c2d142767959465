SPECIFICATION IntakeSpec

CONSTANTS
  budgets = budgets
  transcripts = transcripts
  sheets = sheets
  review = review
  a = a
  b = b
  None = None
  Workers = {w1, w2, w3}
  Inputs <- MCInputs
  Width <- MCWidth
  MaxTexts = 1
  MaxForgets = 1
  Jobs = {j1, j2}
  Ids = {i1, i2}
  Dates = {0, 1, 2}
  MaxBatch = 3
  NoId = NoId
  Requests <- MCRequests
  Corpora <- MCCorpora
  Size = 3
  Overlap = 1

\* Runs end, texts are done, a batch is routed.
CHECK_DEADLOCK FALSE

INVARIANTS
  MappingsConverge
  SpliceHonest
  RecordsRouted
  ChunksSound
PROPERTIES
  IngestionSettles
