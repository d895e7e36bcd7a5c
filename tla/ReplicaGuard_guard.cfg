\* Starts, crashes, lost machines, disk images and two rebuilds in a row.
SPECIFICATION Spec
CONSTANTS
  MaxWrite = 2
  MaxPath = 2
  MaxTxid = 2
  Modes = {"replicate", "restore-only", "off"}
  Mishaps = {}
  NoDb = NoDb
INVARIANTS
  GuardOK
  ReplicatesCurrent
PROPERTIES
  PromiseKept
  NeverServesEmpty
