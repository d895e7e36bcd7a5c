\* A discard while a confirmation promotes the photograph.
SPECIFICATION Spec
CONSTANTS
  PhotoScans = {p1}
  IsbnScans = {}
  Request = {w1, w2}
  Session = {d1}
  Record = {r1}
  Endpoints = {"confirm_candidate", "discard_title_scan", "search"}
  Cap = 0
  LeaseTimeout = 0
  MaxCall = 0
  MaxLost = 0
  NoScan = NoScan
  NoRecord = NoRecord
  NoSession = NoSession
SYMMETRY Symmetry
PROPERTIES DiscardedStaysDiscarded
