CONSTANTS
  config = config
  env = env
  i1 = i1
  i2 = i2
  Files = {config, env}
  Config = config
  Importers = {i1, i2}
  NoFile = NoFile
  MaxTokens = 3
  MaxEdits = 1
SPECIFICATION Spec
INVARIANT FilesHoldWorkingTokens
INVARIANT ConfigIsNotLost
PROPERTY RotationKeepsEdits
CHECK_DEADLOCK FALSE
SYMMETRY Symmetric
