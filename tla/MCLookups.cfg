\* Searches, author enrichment and browser sessions.
SPECIFICATION LookupsSpec
CONSTANTS
  Searcher = {w1, w2}
  Pages <- SomePages
  EmptyTtl = 1
  DefaultTtl = 2
  MaxCall = 1
  Replies = {"answer", "garbled", "hollow"}
  MaxGains = 1
  Pass = {p1}
  Person = {a1}
  Names <- SomeNames
  Hebrew = {"h1"}
  SingleWord = {"l2"}
  Results <- SomeResults
  Rows <- SomeRows
  MaxRecords = 2
  FormLimit = 1
  MaxEdits = 1
  Quiets = {TRUE, FALSE}
  Thread = {w1, w2}
  Account = {u1, u2}
  Scan = {s1, s2}
  Book = {b1, b2}
  s1 = s1
  s2 = s2
  b1 = b1
  b2 = b2
  Lists <- SomeLists
  MaxPicks = 2
  MaxMade = 2
  MaxKeys = 4
  MaxRelists = 1
  Regimes = {TRUE, FALSE}
  NoYear = NoYear
  NoName = NoName
  NoId = NoId
  NoResult = NoResult
  NoAccount = NoAccount
  NoScan = NoScan
  NoBook = NoBook
SYMMETRY Symmetry
INVARIANTS
  MissIsRecent
  ShownAgain
  OneRecordEach
  OwnPick
  GateByPassword
  ClosedWithListed
PROPERTIES
  PassOnlyAdds
  OnlyUnreadLost
CHECK_DEADLOCK FALSE
