\* Each component's own small instance; the bounds are the README's.
CONSTANTS
  Bounds = {0, 2, 4}
  RangePoints <- MCPoints
  Unbounded = {"Left"}
  Letters = {"a"}
  MaxPattern = 2
  MaxText = 3
  Lengths = {1}
  MaxFrames = 3
  MaxBody = 3
  Host = "LittleEndian"
  FileNames <- MCFileNames
  FileSizes <- MCFileSizes
  Questions <- MCQuestions
  MaxAsked = 2
  MaxChanges = 1
  short = short
  long = long
  Files <- MCFiles
  TrueSizes <- MCTrueSizes
  SizeLimit = 6
  BlockBytes = 3
  NoFile = NoFile
  MaxTasks = 2
  MaxFailures = 1
  MaxRestarts = 1
  MaxSignals = 1
  Protocols = {"http", "danejoe", "gopher"}
  Ports <- MCPorts
  Paths <- MCPaths
  ParamLists <- MCParamLists
  Fragments <- MCFragments
  RowIds = {1, 2, 3}
  Versions = {0, 1, 2, 3}
SPECIFICATION Spec
INVARIANTS
  
  FindsWhatConditionsAccept
  
  FramesArriveWhole
  SidesUnderstandEachOther
  IdsKeepTheirFile
  TasksTileTheirFile
  
  AddressesAreUnderstood
  RepositoriesKeepTheirWord
CHECK_DEADLOCK FALSE
