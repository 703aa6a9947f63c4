SPECIFICATION PythonSpec
CONSTANTS
  Subjects = {"arithmetic"}
  MaxObjects = 0
  MaxEdits = 0
  Sources <- SomeSources
  Requested = {"float16", "bfloat16"}
  MaxArrays = 0
  MaxExchanged = 0
  MaxCalls = 0
  NumParams = 1
  Optimizers = {"o3"}
  Kind <- Kinds
  Decay = {}
  Outcome <- OneOutcome
  Clearable = {}
  MaxSteps = 0
  MaxCheckpoints = 0
  MaxTensors = 4
  Scalars = {1, 2}
  Inputs <- MatrixAndRow
  Shapes <- Singles
  LazyModes = {}
  MaxWork = 0
  MaxDepth = 0
  CommitModes = {}
  Vocabulary = 1
  MaxWindow = 1
  MaxPrompt = 0
  MaxNew = 0
  MaxLayers = 0
  MaxSamples = 0
  MaxBatch = 1
  Scale = 1
INVARIANT OrderingSuffices
CHECK_DEADLOCK FALSE
