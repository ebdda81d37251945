CONSTANTS
  config = config
  env = env
  i1 = i1
  i2 = i2
  Files = {config, env}
  Config = config
  Importers = {i1}
  NoFile = NoFile
  MaxTokens = 3
  MaxEdits = 1
SPECIFICATION Spec
PROPERTY ImportedEntryWorks
CHECK_DEADLOCK FALSE
