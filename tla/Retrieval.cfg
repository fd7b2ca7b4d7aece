SPECIFICATION RetrievalSpec
CONSTANTS
  Chunk <- MCChunk
  Document = {1, 2}
  DocOf <- MCDocOf
  Level <- MCLevel
  Seq0 <- MCSeq0
  Page <- MCPage
  Parent <- MCParent
  Header <- MCHeader
  NoIndex = NoIndex
  NoChunk = NoChunk
  NoDocument = NoDocument
  Query = {"q1"}
  Candidates = 3
  TopK = 2
  MaxGroup = 2
  MaxReps = 2
  MaxContext = 3
  MaxEdits = 2
INVARIANTS
  HiddenStaysHidden
  ContextFits
  OneManual
  ReadingOrder
CHECK_DEADLOCK FALSE
