\* A full save of a stale row against the lease.
SPECIFICATION Spec
CONSTANTS
  PhotoScans = {p1}
  IsbnScans = {}
  Request = {w1, w2, w3}
  Session = {d1}
  Record = {r1}
  Endpoints = {"run_ocr", "confirm_scan", "search"}
  Cap = 3
  LeaseTimeout = 1
  MaxCall = 1
  MaxLost = 0
  NoScan = NoScan
  NoRecord = NoRecord
  NoSession = NoSession
SYMMETRY Symmetry
INVARIANTS OneCallPerPhoto
