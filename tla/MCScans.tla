------------------------------- MODULE MCScans -------------------------------
(***************************************************************************)
(* Every endpoint of ScanLifecycle in one small instance.  Where no ISBN   *)
(* is ever looked up, OCR runs go beside the review queue on a photograph, *)
(* with one record to confirm into; where one is, there is every way to    *)
(* confirm and to discard, two records to confirm into, and no OCR, or one *)
(* record made by hand while no other request is served.                   *)
(***************************************************************************)
EXTENDS MCScanLifecycle

RecordsMade == Cardinality({r \in Record : origin[r] # NoScan})

MadeByHand == \E r \in Record : origin[r] = ByHand

OcrStep == {"check_cap", "take_lease", "open_photo", "calling",
            "log_usage", "refresh", "write_result"}

LookedUp == \E s \in IsbnScans : Exists(s)

OfQueue ==
  /\ ~LookedUp
  /\ \A d \in Session : session[d] = NoChoice
  /\ logged <= 1 /\ \A s \in Scan : row[s].lease <= 0
  /\ RecordsMade <= 1

OfConfirms ==
  /\ LookedUp /\ \A s \in IsbnScans : row[s].cands
  /\ \A w \in Request : req[w].pc \notin OcrStep
  /\ \A s \in Scan : row[s].lease = NoLease /\ ~row[s].reading
  /\ MadeByHand => RecordsMade = 1 /\ \A w \in Request : At(w, "idle")
  /\ \A d \in Session : session[d].candidate \/ session[d] = NoChoice \/ MadeByHand

(* Confirmations find the candidates a first search has listed.            *)
CandsKept == \A s \in Scan : row[s].cands => row'[s].cands

(* Nothing is chosen once there is no record left to make of it.           *)
ChosenInTime ==
  \A d \in Session :
    session'[d] \in {session[d], NoChoice} \/ RecordsMade < Cardinality(Record)

(* An ISBN is looked up before anything else happens, or never.            *)
OneKind ==
  \/ OfQueue /\ OfQueue'
  \/ staged = {} /\ (\A s \in Scan : ~Exists(s)) /\ OfConfirms'
  \/ OfConfirms /\ OfConfirms' /\ CandsKept /\ ChosenInTime
=============================================================================
