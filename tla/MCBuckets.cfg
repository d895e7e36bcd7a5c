\* Replicas with mishaps, snapshots, and the cleanup of staged photographs.
SPECIFICATION BucketsSpec
CONSTANTS
  MaxWrite = 1
  MaxPath = 2
  MaxTxid = 2
  Modes = {"replicate", "restore-only", "off"}
  Mishaps = {"rebuild_dies", "repoint_with_db", "unsynced_image", "off_without_db"}
  NoDb = NoDb
  Execution = {r1, r2}
  LastDay = 2
  MaxWrites = 1
  Replicating = TRUE
  Overlaps = {TRUE, FALSE}
  NoObject = NoObject
  NoFile = NoFile
  Nobody = Nobody
  Photo = {p1, p2}
  Retention = 1
SYMMETRY Symmetry
INVARIANTS
  NothingLeftBehind
  LatestNamesSnapshot
  PairsAgree
  Reclaimed
PROPERTIES
  PingHonest
  SparesTheLiving
  OldPathsFrozen
CHECK_DEADLOCK FALSE
