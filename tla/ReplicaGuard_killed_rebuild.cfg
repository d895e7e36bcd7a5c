SPECIFICATION Spec
CONSTANTS
  MaxWrite = 2
  MaxPath = 1
  MaxTxid = 3
  Modes = {"replicate"}
  Mishaps = {"rebuild_dies"}
  NoDb = NoDb
PROPERTIES
  NeverWrittenOver
