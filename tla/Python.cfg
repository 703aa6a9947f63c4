SPECIFICATION PythonSpec
CONSTANTS
  Subjects = {"package", "config", "exchange", "optimizers", "arithmetic", "runtime", "generation", "training"}
  MaxObjects = 3
  MaxEdits = 2
  Sources <- SomeSources
  Requested = {"float16", "bfloat16"}
  MaxArrays = 2
  MaxExchanged = 2
  MaxCalls = 3
  NumParams = 3
  Optimizers = {"o1", "o2", "o3"}
  Kind <- Kinds
  Decay = {"o1"}
  Outcome <- Outcomes
  Clearable = {1, 2}
  MaxSteps = 2
  MaxCheckpoints = 2
  MaxTensors = 4
  Scalars = {2}
  Inputs <- MatrixAndRow
  Shapes <- Singles
  LazyModes = {TRUE}
  MaxWork = 2
  MaxDepth = 2
  CommitModes = {TRUE, FALSE}
  Vocabulary = 3
  MaxWindow = 2
  MaxPrompt = 3
  MaxNew = 2
  MaxLayers = 2
  MaxSamples = 5
  MaxBatch = 3
  Scale = 6
INVARIANTS CopiesHold MetadataAgrees CountsRight ReadsExpected AvailableMeansAnswers ContextExact AverageExact
PROPERTIES ResolvedStays EditsStayHome ModelKeepsValues
CHECK_DEADLOCK FALSE
