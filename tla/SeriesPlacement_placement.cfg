SPECIFICATION PlacementSpec
CONSTANTS
  Request = {w1, w2}
  Person = {p1}
  Record = {r1, r2}
  SeriesId = {s1, s2}
  Work = {t1}
  Spelling = {"a", "b"}
  Volume = {1}
  Form = {"arabic", "roman"}
  Endpoints = {"confirm", "set_kind", "add_volumes", "admin"}
  Regimes = {TRUE, FALSE}
  NoSeries = NoSeries
  NoRecord = NoRecord
  NoTitle = NoTitle
  Absent = Absent
  Gap = Gap
SYMMETRY Symmetry
INVARIANTS
  PlacementOK
  PlacedAreMembers
  OneSeriesPerWork
  OneHolderPerNumber
PROPERTIES
  NeverLowered
  PlacesKept
