\* Uploads, OCR runs, searches, every way to confirm and to discard.
SPECIFICATION Spec
CONSTANTS
  PhotoScans = {p1}
  IsbnScans = {i1}
  Request = {w1, w2}
  Session = {d1}
  Record = {r1, r2}
  Endpoints = {"run_ocr", "discard_title_scan", "confirm_candidate", "confirm_scan", "discard_scan", "search", "manual_entry"}
  Cap = 1
  LeaseTimeout = 0
  MaxCall = 0
  MaxLost = 0
  NoScan = NoScan
  NoRecord = NoRecord
  NoSession = NoSession
SYMMETRY Symmetry
ACTION_CONSTRAINT OneKind
INVARIANTS NoStrandedFile PhotoKept ConfirmedHasRecord
PROPERTIES PromiseKept
