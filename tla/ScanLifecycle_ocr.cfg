\* OCR runs on one photograph beside the review queue's whole-row saves: the
\* daily cap, calls longer than the lease, deaths and the clock.
SPECIFICATION FairSpec
CONSTANTS
  PhotoScans = {p1}
  IsbnScans = {}
  Request = {w1, w2}
  Session = {d1}
  Record = {r1}
  Endpoints = {"run_ocr", "discard_title_scan", "discard_scan"}
  Cap = 1
  LeaseTimeout = 1
  MaxCall = 2
  MaxLost = 1
  NoScan = NoScan
  NoRecord = NoRecord
  NoSession = NoSession
INVARIANTS SpendBounded LeaseHolds
PROPERTIES LeaseComesBack
