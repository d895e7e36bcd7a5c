------------------------- MODULE ScanLifecycleProofs -------------------------
(***************************************************************************)
(* Theorems about ScanLifecycle, for every set of scans, threads, sessions *)
(* and records, every cap and every lease length.                          *)
(***************************************************************************)
EXTENDS ScanLifecycle, FiniteSetTheorems, TLAPS

(* NoRow is a row, and Idle the state of a thread.                         *)
LEMMA Defaults == NoRow \in Row /\ Idle \in RequestState
BY BoundsAssumption DEF NoRow, Row, Idle, RequestState, Status, Lease, Step,
                        NoLease

LEMMA NoTime == 0 \in 0 .. MaxCall
BY BoundsAssumption

(* A live lease that ages is still a lease.                                *)
LEMMA AgedLease == \A lease \in Lease : Aged(lease) \in Lease
BY BoundsAssumption DEF Aged, Lease, NoLease

(* A thread that moves to a legal state leaves req well typed, and a scan  *)
(* saved as a legal row leaves the table well typed.                       *)
LEMMA MoveType ==
  ASSUME NEW w \in Request, NEW state \in RequestState,
         req \in [Request -> RequestState], Becomes(w, state)
  PROVE  req' \in [Request -> RequestState]
BY DEF Becomes

LEMMA SaveType ==
  ASSUME NEW s \in Scan, NEW newRow \in Row,
         row \in [Scan -> Row], Save(s, newRow)
  PROVE  row' \in [Scan -> Row]
BY DEF Save

LEMMA GotoType ==
  ASSUME NEW w \in Request, NEW step \in Step,
         req \in [Request -> RequestState], Goto(w, step)
  PROVE  req' \in [Request -> RequestState]
<1>1. [req[w] EXCEPT !.pc = step] \in RequestState
  BY DEF RequestState
<1> QED BY <1>1, MoveType DEF Goto

LEMMA DoneType ==
  ASSUME NEW w \in Request, req \in [Request -> RequestState], Done(w)
  PROVE  req' \in [Request -> RequestState]
BY Defaults, MoveType DEF Done

LEMMA ServeType ==
  ASSUME NEW w \in Request, NEW s \in Scan, NEW copy \in Row, NEW step \in Step,
         req \in [Request -> RequestState], Serve(w, s, copy, step)
  PROVE  req' \in [Request -> RequestState]
<1>1. [req[w] EXCEPT !.pc = step, !.scan = s, !.seen = copy] \in RequestState
  BY DEF RequestState
<1> QED BY <1>1, MoveType DEF Serve
(* A thread that is done is idle, serves no scan and has read no row.       *)
LEMMA DoneFacts ==
  ASSUME NEW w \in Request, req \in [Request -> RequestState], Done(w)
  PROVE  /\ req'[w] = Idle
         /\ req'[w].pc = "idle"
         /\ req'[w].scan = NoScan
         /\ req'[w].elapsed = 0
         /\ ~req'[w].seen.image
         /\ \A v \in Request : v # w => req'[v] = req[v]
BY DEF Done, Becomes, Idle, NoRow

(* What a tick does to rows and to requests.                               *)
LEMMA TickFrame ==
  ASSUME TypeOK, Tick
  PROVE  /\ \A s \in Scan :
              /\ row'[s].status = row[s].status
              /\ row'[s].image = row[s].image
              /\ row'[s].lease = Aged(row[s].lease)
         /\ \A w \in Request :
              /\ req'[w].pc = req[w].pc
              /\ req'[w].scan = req[w].scan
              /\ req'[w].session = req[w].session
              /\ req'[w].record = req[w].record
              /\ req'[w].seen.image = req[w].seen.image
              /\ req'[w].elapsed = IF InCall(w) THEN req[w].elapsed + 1
                                                ELSE req[w].elapsed
         /\ UNCHANGED <<staged, titlePage, origin, session, logged, lost,
                        dropped, stripped>>
<1>1. ASSUME NEW s \in Scan
      PROVE  /\ row'[s].status = row[s].status
             /\ row'[s].image = row[s].image
             /\ row'[s].lease = Aged(row[s].lease)
  <2>1. row'[s] = AgedRow(row[s]) /\ row[s] \in Row
    BY DEF Tick, TypeOK
  <2> QED BY <2>1 DEF AgedRow, Row
<1>2. ASSUME NEW w \in Request
      PROVE  /\ req'[w].pc = req[w].pc
             /\ req'[w].scan = req[w].scan
             /\ req'[w].session = req[w].session
             /\ req'[w].record = req[w].record
             /\ req'[w].seen.image = req[w].seen.image
             /\ req'[w].elapsed = IF InCall(w) THEN req[w].elapsed + 1
                                               ELSE req[w].elapsed
  <2>1. /\ req'[w] = [req[w] EXCEPT
             !.seen = AgedRow(req[w].seen),
             !.elapsed = IF InCall(w) THEN req[w].elapsed + 1
                                      ELSE req[w].elapsed]
        /\ req[w] \in RequestState
    BY DEF Tick, TypeOK
  <2>2. AgedRow(req[w].seen).image = req[w].seen.image
    BY <2>1 DEF AgedRow, Row, RequestState
  <2> QED BY <2>1, <2>2 DEF RequestState
<1> QED BY <1>1, <1>2 DEF Tick, usage, history

(* HandsOK reads nothing else of rows and requests.                        *)
LEMMA TickHands ==
  ASSUME TypeOK, HandsOK,
         \A s \in Scan : /\ row'[s].status = row[s].status
                         /\ row'[s].image = row[s].image,
         \A w \in Request : /\ req'[w].pc = req[w].pc
                            /\ req'[w].scan = req[w].scan
                            /\ req'[w].session = req[w].session
                            /\ req'[w].record = req[w].record
                            /\ req'[w].seen.image = req[w].seen.image,
         UNCHANGED <<origin, session>>
  PROVE  HandsOK'
<1>1. \A s \in IsbnScans : ~row'[s].image
  BY DEF HandsOK, Scan
<1>2. \A d \in Session :
        /\ session'[d].candidate => session'[d].scan # NoScan
        /\ session'[d].scan # NoScan => Exists(session[d].scan)'
  BY DEF HandsOK, Exists, TypeOK, Choice
<1>3. ASSUME NEW w \in Request
      PROVE  /\ ~At(w, "idle")' => req'[w].scan \in Scan
             /\ req'[w].scan \in IsbnScans => ~req'[w].seen.image
             /\ req'[w].pc \in PhotoStep => req'[w].scan \in PhotoScans
             /\ ~At(w, "idle")' /\ ~At(w, "insert")' =>
                  Exists(req[w].scan)'
             /\ req'[w].pc \in {"reread", "pop_session"} =>
                  req'[w].session \in Session
             /\ req'[w].pc \in PromoteStep \union {"reread"} =>
                  /\ req'[w].record \in Record
                  /\ origin'[req'[w].record] = req'[w].scan
  BY DEF HandsOK, Exists, At
<1> QED BY <1>1, <1>2, <1>3 DEF HandsOK

(* TypeOK is preserved by every action: what comes in, what a run does,    *)
(* what a confirmation or a discard does, and what happens around them.    *)
LEMMA TypeArrive ==
  ASSUME TypeOK, HandsOK, NEW w \in Request, Arrive(w) PROVE TypeOK'
<1> USE Defaults DEF TypeOK, tables, usage, history, Step
<1>1. ASSUME NEW s \in PhotoScans, Upload(w, s) PROVE TypeOK'
  <2>1. [req[w] EXCEPT !.pc = "insert", !.scan = s] \in RequestState
    BY DEF RequestState, Scan
  <2> QED BY <1>1, <2>1, MoveType DEF Upload
<1>2. ASSUME NEW s \in Scan, RunOcr(w, s) PROVE TypeOK'
  BY <1>2, ServeType DEF RunOcr
<1>3. ASSUME NEW s \in Scan, DiscardTitleScan(w, s) PROVE TypeOK'
  BY <1>3, ServeType DEF DiscardTitleScan
<1>4. ASSUME NEW s \in Scan, DiscardScan(w, s) PROVE TypeOK'
  BY <1>4, ServeType DEF DiscardScan
<1>5. ASSUME NEW s \in Scan, ConfirmScan(w, s) PROVE TypeOK'
  BY <1>5, ServeType DEF ConfirmScan
<1>6. ASSUME NEW d \in Session, NEW r \in Record, ConfirmCandidate(w, d, r)
      PROVE  TypeOK'
  <2>1. [req[w] EXCEPT !.pc = "reread", !.scan = session[d].scan,
                       !.session = d, !.record = r] \in RequestState
    BY DEF RequestState, Choice
  <2>2. session[d].scan \in Scan
    BY <1>6 DEF ConfirmCandidate, HandsOK, Choice
  <2> QED BY <1>6, <2>1, <2>2, MoveType DEF ConfirmCandidate, CreateRecord
<1> QED
  BY <1>1, <1>2, <1>3, <1>4, <1>5, <1>6 DEF Arrive

(* HandsOK is preserved.                                                   *)
LEMMA HandsArrive ==
  ASSUME TypeOK, IdleOK, HandsOK, NEW w \in Request, Arrive(w) PROVE HandsOK'
<1> USE DEF TypeOK, HandsOK, At, Exists, Becomes, PhotoStep, PromoteStep,
            RequestState, Begin, Serve, tables, history
<1>1. ASSUME NEW s \in PhotoScans, Upload(w, s) PROVE HandsOK'
  BY <1>1, ScansAssumption DEF Upload, Scan
<1>2. ASSUME NEW s \in Scan, RunOcr(w, s) PROVE HandsOK'
  BY <1>2 DEF RunOcr, Scan, NoRow
<1>3. ASSUME NEW s \in Scan, DiscardTitleScan(w, s) PROVE HandsOK'
  BY <1>3 DEF DiscardTitleScan, Scan, NoRow
<1>4. ASSUME NEW s \in Scan, DiscardScan(w, s) PROVE HandsOK'
  BY <1>4 DEF DiscardScan, Scan
<1>5. ASSUME NEW s \in Scan, ConfirmScan(w, s) PROVE HandsOK'
  BY <1>5 DEF ConfirmScan, Scan
<1>6. ASSUME NEW d \in Session, NEW r \in Record, ConfirmCandidate(w, d, r)
      PROVE  HandsOK'
  <2>1. /\ session[d].scan \in Scan /\ Exists(session[d].scan)
        /\ UNCHANGED <<row, session>>
        /\ origin' = [origin EXCEPT ![r] = session[d].scan]
        /\ origin[r] = NoScan /\ At(w, "idle")
    BY <1>6 DEF Choice, NoChoice, ConfirmCandidate, CreateRecord
  <2>3. ~req[w].seen.image
    BY <2>1 DEF IdleOK, Idle, NoRow
  <2>2. /\ req'[w].pc = "reread" /\ req'[w].scan = session[d].scan
        /\ req'[w].session = d /\ req'[w].record = r
        /\ req'[w].seen = req[w].seen
        /\ \A v \in Request : v # w => req'[v] = req[v]
    BY <1>6 DEF ConfirmCandidate
  <2> QED BY <2>1, <2>2, <2>3, ScansAssumption DEF Scan
<1> QED
  BY <1>1, <1>2, <1>3, <1>4, <1>5, <1>6 DEF Arrive

LEMMA HandsRun ==
  ASSUME TypeOK, HandsOK, NEW w \in Request, RunStep(w) PROVE HandsOK'
<1> USE DEF TypeOK, HandsOK, At, Exists, Becomes, PhotoStep, PromoteStep,
            RequestState, Goto, Done, Idle, Save, ReleaseLease, Row, tables, history
<1>1. CASE CheckCap(w)
  <2>1. CASE Done(w)
    BY <1>1, <2>1, DoneFacts, ScansAssumption DEF CheckCap, Scan
  <2>2. CASE Goto(w, "take_lease")
    BY <1>1, <2>2 DEF CheckCap
  <2> QED BY <1>1, <2>1, <2>2 DEF CheckCap
<1>2. CASE TakeLease(w)
  <2>1. CASE Done(w) /\ UNCHANGED row
    BY <1>2, <2>1, DoneFacts, ScansAssumption DEF TakeLease, Scan
  <2>2. CASE /\ Save(req[w].scan, [row[req[w].scan] EXCEPT !.lease = 0])
             /\ Goto(w, "open_photo")
    BY <1>2, <2>2 DEF TakeLease, Scan
  <2> QED BY <1>2, <2>1, <2>2 DEF TakeLease
<1>3. CASE OpenPhoto(w)
  BY <1>3, ScansAssumption DEF OpenPhoto, NoRow, Scan
<1>4. CASE OpenFails(w)
  BY <1>4, ScansAssumption DEF OpenFails, NoRow, Scan
<1>5. ASSUME NEW reading \in BOOLEAN, CallAnswered(w, reading)
      PROVE  HandsOK'
  BY <1>5, ScansAssumption DEF CallAnswered, NoRow, Scan
<1>6. CASE CallFailed(w)
  BY <1>6, ScansAssumption DEF CallFailed, NoRow, Scan
<1>7. CASE LogUsage(w)
  BY <1>7, ScansAssumption DEF LogUsage, NoRow, Scan
<1>8. CASE LogFails(w)
  BY <1>8, ScansAssumption DEF LogFails, NoRow, Scan
<1>9. CASE Refresh(w)
  <2>1. CASE Done(w)
    BY <1>9, <2>1, DoneFacts, ScansAssumption DEF Refresh, Scan
  <2>2. CASE Goto(w, "write_result")
    BY <1>9, <2>2 DEF Refresh
  <2> QED BY <1>9, <2>1, <2>2 DEF Refresh
<1>10. CASE WriteResult(w)
  BY <1>10, ScansAssumption DEF WriteResult, NoRow, Scan
<1> QED
  BY <1>1, <1>2, <1>3, <1>4, <1>5, <1>6, <1>7, <1>8, <1>9, <1>10 DEF RunStep

LEMMA HandsConfirm ==
  ASSUME TypeOK, HandsOK, NEW w \in Request, ConfirmStep(w) PROVE HandsOK'
<1> USE DEF TypeOK, HandsOK, At, Exists, Becomes, PhotoStep, PromoteStep,
            RequestState, Goto, Done, Idle, Save, Row, tables, history
<1>1. ASSUME NEW r \in Record, CreateFromScan(w, r) PROVE HandsOK'
  BY <1>1, ScansAssumption DEF CreateFromScan, CreateRecord, Promotable, Scan
<1>2. CASE Reread(w)
  BY <1>2 DEF Reread, Serve, Promotable, NoRow, Scan
<1>3. CASE ReadPhoto(w)
  BY <1>3 DEF ReadPhoto
<1>4. CASE SaveCopy(w)
  BY <1>4 DEF SaveCopy
<1>5. CASE DeleteStaged(w)
  BY <1>5 DEF DeleteStaged, ForgetImage
<1>6. CASE StorageFails(w)
  BY <1>6 DEF StorageFails
<1>7. CASE MarkConfirmed(w)
  <2> DEFINE s == req[w].scan
             base == IF req[w].session # NoSession THEN row[s] ELSE req[w].seen
             new == [base EXCEPT !.status = "confirmed",
                                 !.record = req[w].record,
                                 !.image = req[w].seen.image]
  <2>1. /\ row' = [row EXCEPT ![s] = new]
        /\ new.status = "confirmed" /\ new.image = req[w].seen.image
        /\ At(w, "mark_confirmed") /\ s \in Scan
        /\ UNCHANGED <<origin, session>>
    BY <1>7 DEF SaveWhole, MarkConfirmed
  <2>2. CASE Goto(w, "pop_session") /\ req[w].session # NoSession
    BY <2>1, <2>2 DEF Scan
  <2>3. CASE Done(w)
    BY <2>1, <2>3, DoneFacts, ScansAssumption DEF Scan
  <2> QED BY <1>7, <2>2, <2>3 DEF MarkConfirmed
<1>8. CASE PopSession(w)
  BY <1>8, ScansAssumption DEF Choice, NoChoice, PopSession, Scan, NoRow
<1> QED
  BY <1>1, <1>2, <1>3, <1>4, <1>5, <1>6, <1>7, <1>8 DEF ConfirmStep

(* The steps that are not one of a run or of a confirmation.               *)
RestStep ==
  \/ \E w \in Request :
       InsertScan(w) \/ DiscardStep(w) \/ Die(w) \/ DieCharged(w)
  \/ Browse \/ Tick \/ Midnight

LEMMA HandsRest ==
  ASSUME TypeOK, HandsOK, RestStep PROVE HandsOK'
<1> USE DEF TypeOK, HandsOK, At, Exists, Becomes, PhotoStep, PromoteStep,
            RequestState, Goto, Done, Idle, Save, Row, tables, history
<1>1. ASSUME NEW w \in Request, InsertScan(w) PROVE HandsOK'
  BY <1>1, ScansAssumption DEF InsertScan, NoRow, Scan
<1>2. ASSUME NEW w \in Request, DeletePhoto(w) PROVE HandsOK'
  BY <1>2 DEF DeletePhoto
<1>3. ASSUME NEW w \in Request, MarkDiscarded(w) PROVE HandsOK'
  BY <1>3, ScansAssumption DEF MarkDiscarded, NoRow, Scan
<1>4. ASSUME NEW w \in Request, SaveDiscard(w) PROVE HandsOK'
  BY <1>4, ScansAssumption DEF SaveWhole, SaveDiscard, NoRow, Scan
<1>5. ASSUME NEW w \in Request, Die(w) \/ DieCharged(w) PROVE HandsOK'
  <2>1. Done(w) /\ UNCHANGED tables
    BY <1>5 DEF Die, DieCharged
  <2> QED BY <2>1, DoneFacts, ScansAssumption DEF Scan
<1>6. ASSUME NEW s \in IsbnScans, NEW found \in BOOLEAN, IsbnLookup(s, found)
      PROVE  HandsOK'
  BY <1>6, ScansAssumption DEF IsbnLookup, NoRow, Scan
<1>7. ASSUME NEW s \in Scan, NEW found \in BOOLEAN, Search(s, found)
      PROVE  HandsOK'
  BY <1>7 DEF Search, Scan
<1>8. ASSUME NEW d \in Session, NEW s \in Scan, NEW found \in BOOLEAN,
             SelectCandidate(d, s, found)
      PROVE  HandsOK'
  BY <1>8, ScansAssumption DEF Choice, SelectCandidate
<1>9. ASSUME NEW d \in Session, NEW r \in Record, NEW fails \in BOOLEAN,
             ManualEntry(d, r, fails)
      PROVE  HandsOK'
  BY <1>9, ScansAssumption DEF ManualEntry, CreateRecord
<1>10. CASE Tick
  <2>1. /\ \A s \in Scan : /\ row'[s].status = row[s].status
                            /\ row'[s].image = row[s].image
        /\ UNCHANGED <<origin, session>>
    BY <1>10, TickFrame
  <2>2. ASSUME NEW w \in Request
        PROVE  /\ req'[w].pc = req[w].pc
               /\ req'[w].scan = req[w].scan
               /\ req'[w].session = req[w].session
               /\ req'[w].record = req[w].record
               /\ req'[w].seen.image = req[w].seen.image
    BY <1>10, TickFrame
  <2> QED BY <2>1, <2>2, TickHands
<1>11. CASE Midnight
  BY <1>11 DEF Midnight
<1> QED
  BY SMTT(30), <1>1, <1>2, <1>3, <1>4, <1>5, <1>6, <1>7, <1>8, <1>9, <1>10, <1>11
     DEF RestStep, DiscardStep, Browse

-----------------------------------------------------------------------------
(* TypeOK is preserved by what a thread and its surroundings do.           *)
LEMMA TypeRun ==
  ASSUME TypeOK, HandsOK, NEW w \in Request, RunStep(w) PROVE TypeOK'
<1> USE DEF TypeOK, tables, usage, history, Step, At
<1> DEFINE s == req[w].scan
<1>0. ~At(w, "idle") => s \in Scan /\ row[s] \in Row
  BY DEF HandsOK
<1>1. CASE CheckCap(w)
  BY <1>1, GotoType, DoneType DEF CheckCap
<1>2. CASE TakeLease(w)
  <2>1. [row[s] EXCEPT !.lease = 0] \in Row
    BY <1>0, <1>2, BoundsAssumption DEF TakeLease, Row, Lease
  <2> QED BY <1>0, <1>2, <2>1, SaveType, GotoType, DoneType DEF TakeLease
<1>3. CASE OpenPhoto(w)
  BY <1>3, GotoType DEF OpenPhoto
<1>4. ASSUME ReleaseLease(w), ~At(w, "idle")
      PROVE  row' \in [Scan -> Row] /\ stripped' \subseteq Request
  <2>1. [row[s] EXCEPT !.lease = NoLease] \in Row
    BY <1>0, <1>4, BoundsAssumption DEF Row, Lease, NoLease
  <2> QED BY <1>0, <1>4, <2>1, SaveType DEF ReleaseLease, CallsOn
<1>5. CASE OpenFails(w)
  BY <1>4, <1>5, DoneType DEF OpenFails
<1>6. ASSUME NEW reading \in BOOLEAN, CallAnswered(w, reading) PROVE TypeOK'
  <2>1. [req[w] EXCEPT !.pc = "log_usage", !.elapsed = 0, !.reading = reading]
          \in RequestState
    BY ZenonT(60), NoTime DEF RequestState
  <2> QED BY <1>4, <1>6, <2>1, MoveType DEF CallAnswered
<1>7. CASE CallFailed(w)
  <2>1. [req[w] EXCEPT !.pc = "refresh", !.elapsed = 0] \in RequestState
    BY ZenonT(60), NoTime DEF RequestState
  <2> QED BY <1>4, <1>7, <2>1, MoveType DEF CallFailed
<1>8. CASE LogUsage(w)
  BY <1>8, GotoType DEF LogUsage
<1>9. CASE LogFails(w)
  BY <1>9, GotoType DEF LogFails
<1>10. CASE Refresh(w)
  BY <1>10, GotoType, DoneType DEF Refresh
<1>11. CASE WriteResult(w)
  <2>1. req[w].reading \in BOOLEAN
    BY DEF RequestState
  <2>2. [row[s] EXCEPT
          !.status = IF req[w].reading THEN "pending" ELSE "awaiting_ocr",
          !.reading = req[w].reading] \in Row
    BY <1>0, <1>11, <2>1 DEF WriteResult, Row, Status
  <2> QED BY <1>0, <1>11, <2>2, SaveType, DoneType DEF WriteResult
<1> QED
  BY <1>1, <1>2, <1>3, <1>5, <1>6, <1>7, <1>8, <1>9, <1>10, <1>11 DEF RunStep

LEMMA TypeConfirm ==
  ASSUME TypeOK, HandsOK, NEW w \in Request, ConfirmStep(w) PROVE TypeOK'
<1> USE DEF TypeOK, tables, usage, history, Step, At
<1> DEFINE s == req[w].scan
<1>0. ~At(w, "idle") => s \in Scan /\ row[s] \in Row
  BY DEF HandsOK
<1>1. ASSUME NEW r \in Record, CreateFromScan(w, r) PROVE TypeOK'
  <2>1. [req[w] EXCEPT
           !.pc = IF Promotable(req[w].scan, req[w].seen)
                  THEN "read_photo" ELSE "mark_confirmed",
           !.record = r] \in RequestState
    BY ZenonT(60) DEF RequestState
  <2> QED
    BY <1>0, <1>1, <2>1, MoveType DEF CreateFromScan, CreateRecord
<1>2. CASE Reread(w)
  <2>1. [NoRow EXCEPT !.image = row[s].image] \in Row
    BY <1>0, <1>2, Defaults DEF Reread, Row
  <2> QED BY <1>0, <1>2, <2>1, ServeType DEF Reread
<1>3. CASE ReadPhoto(w)
  BY <1>3, GotoType DEF ReadPhoto
<1>4. CASE SaveCopy(w)
  BY <1>4, GotoType DEF SaveCopy, HandsOK, PhotoStep, PromoteStep
<1>5. CASE DeleteStaged(w)
  <2>1. [req[w] EXCEPT !.pc = "mark_confirmed",
                       !.seen = [req[w].seen EXCEPT !.image = FALSE]]
          \in RequestState
    <3>1. req[w].seen \in Row
      BY DEF RequestState
    <3>2. [req[w].seen EXCEPT !.image = FALSE] \in Row
      BY <3>1 DEF Row
    <3> QED BY ZenonT(60), <3>2 DEF RequestState
  <2> QED BY <1>5, <2>1, MoveType DEF DeleteStaged, ForgetImage
<1>6. CASE StorageFails(w)
  BY <1>6, GotoType DEF StorageFails
<1>7. CASE MarkConfirmed(w)
  <2> DEFINE base == IF req[w].session # NoSession THEN row[s] ELSE req[w].seen
  <2>1. /\ base \in Row /\ req[w].seen \in Row /\ s \in Scan
        /\ req[w].record \in Record
    BY <1>0, <1>7 DEF MarkConfirmed, RequestState, HandsOK, PromoteStep
  <2>2. [base EXCEPT !.status = "confirmed", !.record = req[w].record,
                     !.image = req[w].seen.image] \in Row
    BY <2>1 DEF Row, Status
  <2> QED
    BY <1>7, <2>1, <2>2, SaveType, GotoType, DoneType
       DEF SaveWhole, CallsOn, MarkConfirmed
<1>8. CASE PopSession(w)
  BY <1>8, DoneType DEF Choice, NoChoice, PopSession
<1> QED
  BY <1>1, <1>2, <1>3, <1>4, <1>5, <1>6, <1>7, <1>8 DEF ConfirmStep

LEMMA TypeRest ==
  ASSUME TypeOK, HandsOK, RestStep PROVE TypeOK'
<1> USE DEF TypeOK, tables, usage, history, Step, At
<1>1. ASSUME NEW w \in Request, InsertScan(w) PROVE TypeOK'
  <2>1. [NoRow EXCEPT !.status = "awaiting_ocr", !.image = TRUE] \in Row
    BY Defaults DEF Row, Status
  <2> QED BY <1>1, <2>1, SaveType, DoneType DEF InsertScan, HandsOK
<1>2. ASSUME NEW w \in Request, DeletePhoto(w) PROVE TypeOK'
  BY <1>2, GotoType DEF DeletePhoto, HandsOK, PhotoStep
<1>3. ASSUME NEW w \in Request, MarkDiscarded(w) PROVE TypeOK'
  <2>0. row[req[w].scan] \in Row
    BY <1>3 DEF MarkDiscarded, HandsOK
  <2>1. [row[req[w].scan] EXCEPT !.status = "discarded", !.image = FALSE]
          \in Row
    BY <2>0 DEF Row, Status
  <2> QED BY <1>3, <2>1, SaveType, DoneType DEF MarkDiscarded, HandsOK
<1>4. ASSUME NEW w \in Request, SaveDiscard(w) PROVE TypeOK'
  <2>0. req[w].seen \in Row
    BY DEF RequestState
  <2>1. [req[w].seen EXCEPT !.status = "discarded"] \in Row
    BY <2>0 DEF Row, Status
  <2> QED
    BY <1>4, <2>1, SaveType, DoneType
       DEF SaveWhole, CallsOn, SaveDiscard, HandsOK
<1>5. ASSUME NEW w \in Request, Die(w) \/ DieCharged(w) PROVE TypeOK'
  BY <1>5, DoneType DEF Die, DieCharged, Leaves
<1>6. ASSUME NEW s \in IsbnScans, NEW found \in BOOLEAN, IsbnLookup(s, found)
      PROVE  TypeOK'
  <2>1. [NoRow EXCEPT !.status = "pending", !.cands = found] \in Row
    BY Defaults DEF Row, Status
  <2> QED BY <1>6, <2>1, SaveType DEF IsbnLookup, Scan
<1>7. ASSUME NEW s \in Scan, NEW found \in BOOLEAN, Search(s, found)
      PROVE  TypeOK'
  <2>1. [row[s] EXCEPT !.cands = found] \in Row
    BY DEF Row
  <2> QED BY <1>7, <2>1, SaveType DEF Search
<1>8. ASSUME NEW d \in Session, NEW s \in Scan, NEW found \in BOOLEAN,
             SelectCandidate(d, s, found)
      PROVE  TypeOK'
  BY <1>8, ScansAssumption DEF Choice, SelectCandidate
<1>9. ASSUME NEW d \in Session, NEW r \in Record, NEW fails \in BOOLEAN,
             ManualEntry(d, r, fails)
      PROVE  TypeOK'
  BY <1>9 DEF Choice, NoChoice, ManualEntry, CreateRecord
<1>10. CASE Tick
  <2>1. ASSUME NEW r \in Row PROVE AgedRow(r) \in Row
    BY AgedLease DEF AgedRow, Row
  <2>2. ASSUME NEW w \in Request
        PROVE  [req[w] EXCEPT
                  !.seen = AgedRow(req[w].seen),
                  !.elapsed = IF InCall(w) THEN req[w].elapsed + 1
                                           ELSE req[w].elapsed]
                 \in RequestState
    <3>1. AgedRow(req[w].seen) \in Row
      BY <2>1 DEF RequestState
    <3>2. (IF InCall(w) THEN req[w].elapsed + 1 ELSE req[w].elapsed)
            \in 0 .. MaxCall
      <4>1. req[w].elapsed \in 0 .. MaxCall
        BY DEF RequestState
      <4>2. InCall(w) => req[w].elapsed < MaxCall
        BY <1>10 DEF Tick
      <4> QED BY <4>1, <4>2, BoundsAssumption
    <3> QED BY ZenonT(60), <3>1, <3>2 DEF RequestState
  <2> QED BY <1>10, <2>1, <2>2 DEF Tick
<1>11. CASE Midnight
  BY <1>11 DEF Midnight
<1> QED
  BY <1>1, <1>2, <1>3, <1>4, <1>5, <1>6, <1>7, <1>8, <1>9, <1>10, <1>11
     DEF RestStep, DiscardStep, Browse

-----------------------------------------------------------------------------
(* What a run touches of the stores: of the scan it serves the lease, and  *)
(* at its end the status and the reading.                                  *)
RunPc == {"check_cap", "take_lease", "open_photo", "calling", "log_usage",
          "refresh", "write_result"}

RunFrame(w) ==
  /\ req[w].pc \in RunPc
  /\ req'[w].pc \in RunPc \union {"idle"}
  /\ \A v \in Request : v # w => req'[v] = req[v]
  /\ UNCHANGED <<staged, titlePage, origin, session, dropped>>
  /\ \A s \in Scan :
       /\ row'[s].image = row[s].image
       /\ row'[s].record = row[s].record
       /\ \/ row'[s].status = row[s].status
          \/ /\ s = req[w].scan
             /\ row'[s].status \in {"pending", "awaiting_ocr"}

LEMMA RunFrames ==
  ASSUME TypeOK, HandsOK, NEW w \in Request, RunStep(w) PROVE RunFrame(w)
<1> USE DEF TypeOK, RunFrame, RunPc, At, Becomes, Goto, Done, Idle,
            RequestState, Save, Row, tables, history
<1>1. CASE CheckCap(w)
  BY <1>1 DEF CheckCap
<1>2. CASE TakeLease(w)
  BY <1>2 DEF TakeLease
<1>3. CASE OpenPhoto(w)
  BY <1>3 DEF OpenPhoto
<1>4. CASE OpenFails(w)
  BY <1>4 DEF OpenFails, ReleaseLease
<1>5. ASSUME NEW reading \in BOOLEAN, CallAnswered(w, reading)
      PROVE  RunFrame(w)
  BY <1>5 DEF CallAnswered, ReleaseLease
<1>6. CASE CallFailed(w)
  BY <1>6 DEF CallFailed, ReleaseLease
<1>7. CASE LogUsage(w)
  BY <1>7 DEF LogUsage
<1>8. CASE LogFails(w)
  BY <1>8 DEF LogFails
<1>9. CASE Refresh(w)
  BY <1>9 DEF Refresh
<1>10. CASE WriteResult(w)
  BY <1>10 DEF WriteResult
<1> QED
  BY <1>1, <1>2, <1>3, <1>4, <1>5, <1>6, <1>7, <1>8, <1>9, <1>10 DEF RunStep

(* What the stores promise, apart from their types.                        *)
FilesOK ==
  UploadsOK /\ CopyFirst /\ PhotoKept /\ ImagesOK /\ NoStrandedFile

(* So a run disturbs no promise about files.                               *)
LEMMA FilesRun ==
  ASSUME TypeOK, HandsOK, FilesOK, NEW w \in Request, RunStep(w)
  PROVE  FilesOK'
<1>1. RunFrame(w)
  BY RunFrames
<1> USE <1>1 DEF FilesOK, RunFrame, RunPc, At
<1>2. UploadsOK'
  BY DEF UploadsOK, HandsOK, Exists
<1>3. CopyFirst'
  BY DEF CopyFirst
<1>4. PhotoKept'
  <2>1. \A s \in PhotoScans : Exists(s)' => Exists(s)
    BY DEF HandsOK, Exists, Scan
  <2> QED BY <2>1 DEF PhotoKept, Kept
<1>5. ImagesOK'
  BY DEF ImagesOK, StaleStep, PromoteStep
<1>6. NoStrandedFile'
  BY DEF NoStrandedFile, HandsOK, Exists, Scan
<1> QED BY <1>2, <1>3, <1>4, <1>5, <1>6

(* A request that moves on without touching rows or files, and may add a   *)
(* permanent copy, keeps the promises if its next step may rely on them.   *)
MovesTo(w) ==
  /\ req'[w].pc # "insert"
  /\ req'[w].pc = "delete_staged" =>
       <<req'[w].record, req'[w].scan>> \in titlePage'
  /\ req'[w].scan \in staged /\ req'[w].pc \in StaleStep => req'[w].seen.image
  /\ req'[w].scan \in staged => req'[w].pc # "mark_discarded"
  /\ \A v \in Request : v # w => req'[v] = req[v]

LEMMA FilesMove ==
  ASSUME FilesOK, NEW w \in Request, MovesTo(w),
         row' = row, staged' = staged, dropped' = dropped,
         titlePage \subseteq titlePage'
  PROVE  FilesOK'
<1> USE DEF FilesOK, MovesTo, At
<1>1. UploadsOK'
  BY DEF UploadsOK, Exists
<1>2. CopyFirst'
  BY DEF CopyFirst
<1>3. PhotoKept'
  BY DEF PhotoKept, Exists, Kept
<1>4. NoStrandedFile'
  BY DEF NoStrandedFile, Exists
<1>5. ImagesOK'
  BY DEF ImagesOK
<1> QED BY <1>1, <1>2, <1>3, <1>4, <1>5

(* A request that only reads the row, likewise.                            *)
LEMMA FilesServe ==
  ASSUME TypeOK, FilesOK,
         NEW w \in Request, NEW s \in Scan, NEW copy \in Row,
         NEW step \in Step \ {"insert", "delete_staged"},
         Serve(w, s, copy, step), UNCHANGED <<tables, dropped>>,
         s \in staged /\ step \in StaleStep => copy.image,
         s \in staged => step # "mark_discarded"
  PROVE  FilesOK'
<1>1. /\ req'[w].pc = step /\ req'[w].scan = s /\ req'[w].seen = copy
      /\ \A v \in Request : v # w => req'[v] = req[v]
  BY DEF TypeOK, Serve, Becomes, RequestState
<1>2. MovesTo(w)
  BY <1>1 DEF MovesTo
<1> QED BY <1>2, FilesMove DEF tables, history

LEMMA FilesArrive ==
  ASSUME TypeOK, IdleOK, HandsOK, FilesOK, NEW w \in Request, Arrive(w)
  PROVE  FilesOK'
<1> USE DEF Step, Begin
<1>1. ASSUME NEW s \in PhotoScans, Upload(w, s) PROVE FilesOK'
  <2>1. /\ req'[w].pc = "insert" /\ req'[w].scan = s
        /\ \A v \in Request : v # w => req'[v] = req[v]
        /\ staged' = staged \union {s} /\ s \notin staged /\ ~Exists(s)
        /\ UNCHANGED <<row, titlePage, dropped>>
    BY <1>1 DEF history, Upload, TypeOK, Becomes, RequestState
  <2> USE <2>1 DEF FilesOK, At
  <2>2. UploadsOK'
    BY DEF UploadsOK, HandsOK, Exists
  <2>3. CopyFirst'
    BY DEF CopyFirst
  <2>4. PhotoKept' /\ NoStrandedFile'
    BY DEF PhotoKept, NoStrandedFile, Exists, Kept
  <2>5. ImagesOK'
    BY DEF ImagesOK, HandsOK, StaleStep, PromoteStep
  <2> QED BY <2>2, <2>3, <2>4, <2>5
<1>2. ASSUME NEW s \in Scan, RunOcr(w, s) PROVE FilesOK'
  BY <1>2, FilesServe, Defaults DEF history, RunOcr, StaleStep, PromoteStep
<1>3. ASSUME NEW s \in Scan, DiscardTitleScan(w, s) PROVE FilesOK'
  <2>1. s \in staged /\ Exists(s) => row[s].image
    BY DEF FilesOK, NoStrandedFile, TypeOK
  <2> QED
    BY <1>3, <2>1, FilesServe, Defaults
       DEF history, DiscardTitleScan, StaleStep, PromoteStep
<1>4. ASSUME NEW s \in Scan, DiscardScan(w, s) PROVE FilesOK'
  BY <1>4, FilesServe DEF history, DiscardScan, FilesOK, NoStrandedFile, TypeOK
<1>5. ASSUME NEW s \in Scan, ConfirmScan(w, s) PROVE FilesOK'
  BY <1>5, FilesServe DEF history, ConfirmScan, FilesOK, NoStrandedFile, TypeOK
<1>6. ASSUME NEW d \in Session, NEW r \in Record, ConfirmCandidate(w, d, r)
      PROVE  FilesOK'
  <2>1. MovesTo(w)
    BY <1>6 DEF ConfirmCandidate, TypeOK, Becomes, RequestState, MovesTo,
                StaleStep, PromoteStep
  <2> QED BY <1>6, <2>1, FilesMove DEF history, ConfirmCandidate
<1> QED
  BY <1>1, <1>2, <1>3, <1>4, <1>5, <1>6 DEF Arrive

LEMMA FilesConfirm ==
  ASSUME TypeOK, HandsOK, FilesOK, NEW w \in Request, ConfirmStep(w)
  PROVE  FilesOK'
<1> DEFINE s == req[w].scan
<1>1. ASSUME NEW r \in Record, CreateFromScan(w, r) PROVE FilesOK'
  <2>1. MovesTo(w)
    BY <1>1 DEF CreateFromScan, TypeOK, At, Becomes, RequestState, MovesTo,
                FilesOK, ImagesOK, StaleStep, PromoteStep
  <2> QED BY <1>1, <2>1, FilesMove DEF history, CreateFromScan
<1>2. CASE Reread(w)
  <2>1. /\ s \in Scan /\ Exists(s) /\ row[s] \in Row
        /\ s \in staged => s \in PhotoScans
    BY <1>2 DEF Reread, HandsOK, TypeOK, At
  <2>2. s \in staged => row[s].image
    BY <2>1 DEF FilesOK, NoStrandedFile
  <2>3. /\ [NoRow EXCEPT !.image = row[s].image] \in Row
        /\ [NoRow EXCEPT !.image = row[s].image].image = row[s].image
    BY <2>1, Defaults DEF Row
  <2>4. PICK step \in {"pop_session", "read_photo", "mark_confirmed"} :
          Serve(w, s, [NoRow EXCEPT !.image = row[s].image], step)
    BY <1>2 DEF Reread
  <2>5. step \in Step \ {"insert", "delete_staged"} /\ step # "mark_discarded"
    BY DEF Step
  <2>6. UNCHANGED <<tables, dropped>>
    BY <1>2 DEF history, Reread
  <2> QED
    BY <2>1, <2>2, <2>3, <2>4, <2>5, <2>6, FilesServe
<1>3. CASE ReadPhoto(w) \/ StorageFails(w)
  <2>1. MovesTo(w)
    BY <1>3 DEF ReadPhoto, StorageFails, Goto, TypeOK, At, Becomes,
                RequestState, MovesTo, FilesOK, ImagesOK, StaleStep,
                PromoteStep
  <2> QED BY <1>3, <2>1, FilesMove DEF ReadPhoto, StorageFails, tables, history
<1>4. CASE SaveCopy(w)
  <2>1. MovesTo(w)
    BY <1>4 DEF SaveCopy, Goto, TypeOK, At, Becomes, RequestState, MovesTo,
                FilesOK, ImagesOK, StaleStep, PromoteStep
  <2> QED BY <1>4, <2>1, FilesMove DEF history, SaveCopy
<1>5. CASE DeleteStaged(w)
  <2>1. /\ req[w].pc = "delete_staged"
        /\ req'[w].pc = "mark_confirmed"
        /\ req'[w].scan = s
        /\ \A v \in Request : v # w => req'[v] = req[v]
        /\ staged' = staged \ {s}
        /\ row' = row /\ titlePage' = titlePage /\ dropped' = dropped
    BY <1>5 DEF history, DeleteStaged, ForgetImage, TypeOK, At, Becomes, RequestState
  <2>2. Kept(s) /\ Exists(s)
    BY <2>1 DEF FilesOK, CopyFirst, Kept, HandsOK, At, PromoteStep
  <2> USE <2>1 DEF FilesOK, At
  <2>3. UploadsOK'
    BY <2>2 DEF UploadsOK, Exists
  <2>4. CopyFirst'
    BY DEF CopyFirst
  <2>5. PhotoKept'
    BY <2>2 DEF PhotoKept, Exists, Kept
  <2>6. NoStrandedFile'
    BY DEF NoStrandedFile, Exists
  <2>7. ImagesOK'
    BY DEF ImagesOK
  <2> QED BY <2>3, <2>4, <2>5, <2>6, <2>7
<1>6. CASE MarkConfirmed(w)
  <2> DEFINE base == IF req[w].session # NoSession THEN row[s] ELSE req[w].seen
  <2>1. /\ req[w].pc = "mark_confirmed"
        /\ req'[w].pc \in {"pop_session", "idle"}
        /\ \A v \in Request : v # w => req'[v] = req[v]
        /\ base \in Row
        /\ row' = [row EXCEPT ![s] =
             [base EXCEPT !.status = "confirmed", !.record = req[w].record,
                          !.image = req[w].seen.image]]
        /\ staged' = staged /\ titlePage' = titlePage /\ dropped' = dropped
        /\ s \in Scan /\ Exists(s)
    BY <1>6 DEF SaveWhole, MarkConfirmed, TypeOK, HandsOK, At, Becomes, Goto, Done, Idle,
                RequestState, Save
  <2>2. /\ row'[s].status = "confirmed"
        /\ row'[s].image = req[w].seen.image
        /\ \A t \in Scan : t # s => row'[t] = row[t]
    BY <2>1 DEF TypeOK, Row
  <2> HIDE DEF base
  <2> USE <2>1, <2>2 DEF FilesOK, At
  <2>3. UploadsOK'
    BY DEF UploadsOK, Exists, HandsOK
  <2>4. CopyFirst'
    BY DEF CopyFirst
  <2>5. PhotoKept'
    BY DEF PhotoKept, Exists, Kept, Scan
  <2>6. NoStrandedFile'
    BY DEF NoStrandedFile, Exists, ImagesOK, StaleStep, PromoteStep, Scan
  <2>7. ImagesOK'
    BY DEF ImagesOK, StaleStep, PromoteStep
  <2> QED BY <2>3, <2>4, <2>5, <2>6, <2>7
<1>7. CASE PopSession(w)
  <2>1. MovesTo(w)
    BY <1>7 DEF PopSession, Done, Idle, TypeOK, At, Becomes, MovesTo,
                StaleStep, PromoteStep
  <2> QED BY <1>7, <2>1, FilesMove DEF history, PopSession
<1> QED
  BY <1>1, <1>2, <1>3, <1>4, <1>5, <1>6, <1>7 DEF ConfirmStep

LEMMA FilesRest ==
  ASSUME TypeOK, HandsOK, FilesOK, RestStep PROVE FilesOK'
<1>1. ASSUME NEW w \in Request, InsertScan(w) PROVE FilesOK'
  <2> DEFINE s == req[w].scan
  <2>1. /\ req[w].pc = "insert" /\ req'[w].pc = "idle"
        /\ \A v \in Request : v # w => req'[v] = req[v]
        /\ s \in PhotoScans /\ s \in Scan
        /\ row'[s].image /\ \A t \in Scan : t # s => row'[t] = row[t]
        /\ staged' = staged /\ titlePage' = titlePage /\ dropped' = dropped
    BY <1>1 DEF history, InsertScan, TypeOK, HandsOK, PhotoStep, At, Becomes, Done,
                Idle, Save, Row, NoRow, Scan
  <2>2. s \in staged
    BY <2>1 DEF FilesOK, UploadsOK, At
  <2> USE <2>1, <2>2 DEF FilesOK, At
  <2>3. UploadsOK'
    BY DEF UploadsOK, Exists, HandsOK
  <2>4. CopyFirst'
    BY DEF CopyFirst
  <2>5. PhotoKept' /\ NoStrandedFile'
    BY DEF PhotoKept, NoStrandedFile, Exists, Kept, Scan
  <2>6. ImagesOK'
    BY DEF ImagesOK, StaleStep, PromoteStep
  <2> QED BY <2>3, <2>4, <2>5, <2>6
<1>2. ASSUME NEW w \in Request, DeletePhoto(w) PROVE FilesOK'
  <2> DEFINE s == req[w].scan
  <2>1. /\ req[w].pc = "delete_photo" /\ req'[w].pc = "mark_discarded"
        /\ req'[w].scan = s
        /\ \A v \in Request : v # w => req'[v] = req[v]
        /\ staged' = staged \ {s} /\ dropped' = dropped \union {s}
        /\ row' = row /\ titlePage' = titlePage
        /\ Exists(s)
    BY <1>2 DEF DeletePhoto, TypeOK, HandsOK, At, Becomes, Goto, RequestState
  <2> USE <2>1 DEF FilesOK, At
  <2>2. UploadsOK'
    BY DEF UploadsOK, Exists
  <2>3. CopyFirst'
    BY DEF CopyFirst
  <2>4. PhotoKept' /\ NoStrandedFile'
    BY DEF PhotoKept, NoStrandedFile, Exists, Kept
  <2>5. ImagesOK'
    BY DEF ImagesOK, StaleStep, PromoteStep
  <2> QED BY <2>2, <2>3, <2>4, <2>5
<1>3. ASSUME NEW w \in Request, MarkDiscarded(w) \/ SaveDiscard(w)
      PROVE  FilesOK'
  <2> DEFINE s == req[w].scan
  <2>1. /\ req[w].pc \in {"mark_discarded", "save_discard"}
        /\ req'[w].pc = "idle"
        /\ \A v \in Request : v # w => req'[v] = req[v]
        /\ row'[s].status = "discarded"
        /\ req[w].pc = "save_discard" /\ req[w].seen.image => row'[s].image
        /\ \A t \in Scan : t # s => row'[t] = row[t]
        /\ staged' = staged /\ titlePage' = titlePage /\ dropped' = dropped
        /\ s \in Scan /\ Exists(s)
    <3>1. /\ s \in Scan /\ Exists(s) /\ row[s] \in Row
          /\ req[w].seen \in Row /\ Done(w)
          /\ staged' = staged /\ titlePage' = titlePage
          /\ dropped' = dropped
      BY <1>3 DEF SaveWhole, MarkDiscarded, SaveDiscard, TypeOK, HandsOK, At,
                  RequestState, history
    <3>2. CASE MarkDiscarded(w)
      BY <3>1, <3>2 DEF MarkDiscarded, TypeOK, At, Becomes, Done, Idle, Row,
                        Save
    <3>3. CASE SaveDiscard(w)
      BY <3>1, <3>3 DEF SaveWhole, SaveDiscard, TypeOK, At, Becomes, Done, Idle, Row,
                        Save
    <3> QED BY <1>3, <3>2, <3>3
  <2> USE <2>1 DEF FilesOK, At
  <2>2. UploadsOK'
    BY DEF UploadsOK, Exists, HandsOK
  <2>3. CopyFirst'
    BY DEF CopyFirst
  <2>4. PhotoKept'
    BY DEF PhotoKept, Exists, Kept, Scan
  <2>5. NoStrandedFile'
    BY DEF NoStrandedFile, Exists, ImagesOK, StaleStep, Scan
  <2>6. ImagesOK'
    BY DEF ImagesOK, StaleStep, PromoteStep
  <2> QED BY <2>2, <2>3, <2>4, <2>5, <2>6
<1>4. ASSUME NEW w \in Request, Die(w) \/ DieCharged(w) PROVE FilesOK'
  <2>1. Done(w) /\ UNCHANGED tables /\ dropped' = dropped
    BY <1>4 DEF Die, DieCharged
  <2>2. MovesTo(w)
    BY <2>1, DoneFacts DEF MovesTo, TypeOK, StaleStep, PromoteStep
  <2> QED BY <2>1, <2>2, FilesMove DEF tables, history
<1>5. ASSUME NEW s \in IsbnScans, NEW found \in BOOLEAN, IsbnLookup(s, found)
      PROVE  FilesOK'
  <2>1. /\ ~Exists(s) /\ s \notin PhotoScans
        /\ \A t \in Scan : t # s => row'[t] = row[t]
        /\ UNCHANGED <<staged, titlePage, req, dropped>>
    BY <1>5, ScansAssumption DEF history, IsbnLookup, TypeOK, Save
  <2> USE <2>1 DEF FilesOK, At
  <2>2. UploadsOK'
    BY DEF UploadsOK, Exists, HandsOK, PhotoStep, At, Scan
  <2>3. CopyFirst' /\ ImagesOK'
    BY DEF CopyFirst, ImagesOK
  <2>4. PhotoKept' /\ NoStrandedFile'
    BY DEF PhotoKept, NoStrandedFile, Exists, Kept, Scan
  <2> QED BY <2>2, <2>3, <2>4
<1>6. ASSUME NEW s \in Scan, NEW found \in BOOLEAN, Search(s, found)
      PROVE  FilesOK'
  <2>1. /\ \A t \in Scan : /\ row'[t].status = row[t].status
                            /\ row'[t].image = row[t].image
        /\ UNCHANGED <<staged, titlePage, req, dropped>>
    BY <1>6 DEF history, Search, TypeOK, Row, Save
  <2> USE <2>1 DEF FilesOK, At
  <2>2. UploadsOK'
    BY DEF UploadsOK, Exists, HandsOK, PhotoStep, At, Scan
  <2>3. CopyFirst' /\ ImagesOK'
    BY DEF CopyFirst, ImagesOK
  <2>4. PhotoKept' /\ NoStrandedFile'
    BY DEF PhotoKept, NoStrandedFile, Exists, Kept, Scan
  <2> QED BY <2>2, <2>3, <2>4
<1>7. CASE UNCHANGED <<row, staged, titlePage, req, dropped>>
  BY <1>7 DEF FilesOK, UploadsOK, CopyFirst, PhotoKept, ImagesOK,
              NoStrandedFile, Exists, Kept, At
<1>8. CASE Tick
  <2>1. /\ \A s \in Scan : /\ row'[s].status = row[s].status
                            /\ row'[s].image = row[s].image
        /\ UNCHANGED <<staged, titlePage, dropped>>
    BY <1>8, TickFrame
  <2>2. ASSUME NEW w \in Request
        PROVE  /\ req'[w].pc = req[w].pc
               /\ req'[w].scan = req[w].scan
               /\ req'[w].record = req[w].record
               /\ req'[w].seen.image = req[w].seen.image
    BY <1>8, TickFrame
  <2> USE <2>1, <2>2 DEF FilesOK, At
  <2>3. UploadsOK'
    BY DEF UploadsOK, Exists, HandsOK, PhotoStep, At, Scan
  <2>4. CopyFirst'
    BY DEF CopyFirst
  <2>5. ImagesOK'
    BY DEF ImagesOK
  <2>6. PhotoKept' /\ NoStrandedFile'
    BY DEF PhotoKept, NoStrandedFile, Exists, Kept, Scan
  <2> QED BY <2>3, <2>4, <2>5, <2>6
<1>9. CASE Browse
  <2>1. ASSUME NEW d \in Session, NEW s \in Scan, NEW found \in BOOLEAN,
               SelectCandidate(d, s, found)
        PROVE  FilesOK'
    BY <1>7, <2>1 DEF history, SelectCandidate
  <2>2. ASSUME NEW d \in Session, NEW r \in Record, NEW fails \in BOOLEAN,
               ManualEntry(d, r, fails)
        PROVE  FilesOK'
    BY <1>7, <2>2 DEF history, ManualEntry
  <2> QED BY <1>5, <1>6, <1>9, <2>1, <2>2 DEF Browse
<1>10. CASE Midnight
  BY <1>7, <1>10 DEF Midnight, tables, history
<1> QED
  BY <1>1, <1>2, <1>3, <1>4, <1>8, <1>9, <1>10 DEF RestStep, DiscardStep

-----------------------------------------------------------------------------
(* Next, sorted as the lemmas sort it.                                     *)
LEMMA NextCases ==
  ASSUME Next
  PROVE  \/ \E w \in Request : Arrive(w) \/ RunStep(w) \/ ConfirmStep(w)
         \/ RestStep
BY DEF Next, Proceed, RestStep

(* A thread that becomes idle forgets the request.                         *)
LEMMA IdleStep ==
  ASSUME TypeOK, IdleOK, [Next]_vars PROVE IdleOK'
<1> USE DEF TypeOK, IdleOK, At, tables, history
<1>0. ASSUME NEW w \in Request, NEW state, Becomes(w, state),
             state = Idle \/ state.pc # "idle"
      PROVE  IdleOK'
  BY <1>0 DEF Becomes
<1>1. ASSUME NEW w \in Request, Arrive(w) PROVE IdleOK'
  BY ZenonT(60), <1>1, <1>0
     DEF Arrive, Upload, RunOcr, DiscardTitleScan, DiscardScan, ConfirmScan,
         ConfirmCandidate, Serve, RequestState
<1>2. ASSUME NEW w \in Request, RunStep(w) PROVE IdleOK'
  BY <1>2, <1>0
     DEF RunStep, CheckCap, TakeLease, OpenPhoto, OpenFails, CallAnswered,
         CallFailed, LogUsage, LogFails, Refresh, WriteResult, Goto, Done,
         RequestState
<1>3. ASSUME NEW w \in Request, ConfirmStep(w) PROVE IdleOK'
  BY <1>3, <1>0
     DEF ConfirmStep, CreateFromScan, Reread, Serve, ReadPhoto, SaveCopy,
         DeleteStaged, ForgetImage, StorageFails, MarkConfirmed, PopSession,
         Goto, Done, RequestState
<1>4. ASSUME NEW w \in Request,
             InsertScan(w) \/ DiscardStep(w) \/ Die(w) \/ DieCharged(w)
      PROVE  IdleOK'
  BY <1>4, <1>0
     DEF InsertScan, DiscardStep, DeletePhoto, MarkDiscarded, SaveDiscard,
         Die, DieCharged, Goto, Done, RequestState
<1>5. CASE Tick
  <2>1. AgedRow(NoRow) = NoRow
    BY DEF AgedRow, NoRow, Aged
  <2>2. ASSUME NEW w \in Request, req'[w].pc = "idle" PROVE req'[w] = Idle
    <3>1. req'[w] = [req[w] EXCEPT
            !.seen = AgedRow(req[w].seen),
            !.elapsed = IF InCall(w) THEN req[w].elapsed + 1
                                     ELSE req[w].elapsed]
      BY <1>5 DEF Tick
    <3>2. req[w].pc = "idle"
      BY <2>2, <3>1 DEF RequestState
    <3>3. req[w] = Idle /\ ~InCall(w)
      BY <3>2 DEF InCall
    <3>4. req'[w] = [Idle EXCEPT !.seen = NoRow, !.elapsed = 0]
      BY <2>1, <3>1, <3>3 DEF Idle
    <3> QED BY <3>4 DEF Idle
  <2> QED BY <2>2
<1>6. CASE Browse \/ Midnight \/ UNCHANGED vars
  BY <1>6 DEF Browse, IsbnLookup, Search, SelectCandidate, ManualEntry,
              Midnight, vars
<1> QED
  BY NextCases, <1>1, <1>2, <1>3, <1>4, <1>5, <1>6 DEF RestStep

(* A record keeps the scan it came from, and a scan is confirmed only with *)
(* a record that came from it.                                             *)
ConfirmFrame ==
  /\ \A r \in Record : origin[r] # NoScan => origin'[r] = origin[r]
  /\ \A s \in Scan : row'[s].status = "confirmed" =>
       \/ row[s].status = "confirmed" /\ row'[s].record = row[s].record
       \/ row'[s].record \in Record /\ origin'[row'[s].record] = s

LEMMA ConfirmFrames ==
  ASSUME TypeOK, HandsOK, [Next]_vars PROVE ConfirmFrame
<1> USE DEF ConfirmFrame, TypeOK, Row, Save, tables, history
<1>1. ASSUME NEW w \in Request, Arrive(w) PROVE ConfirmFrame
  <2>1. UNCHANGED row
    BY <1>1
       DEF Arrive, Upload, RunOcr, DiscardTitleScan, DiscardScan,
           ConfirmScan, ConfirmCandidate
  <2>2. \/ UNCHANGED origin
        \/ \E r \in Record : \E s : CreateRecord(r, s)
    BY <1>1
       DEF Arrive, Upload, RunOcr, DiscardTitleScan, DiscardScan,
           ConfirmScan, ConfirmCandidate
  <2> QED BY <2>1, <2>2 DEF CreateRecord
<1>2. ASSUME NEW w \in Request, RunStep(w) PROVE ConfirmFrame
  <2>1. RunFrame(w)
    BY <1>2, RunFrames
  <2> QED BY <2>1 DEF RunFrame
<1>3. ASSUME NEW w \in Request, ConfirmStep(w), ~MarkConfirmed(w)
      PROVE  ConfirmFrame
  BY <1>3
     DEF ConfirmStep, CreateFromScan, CreateRecord, Reread, ReadPhoto,
         SaveCopy, DeleteStaged, StorageFails, PopSession
<1>4. ASSUME NEW w \in Request, MarkConfirmed(w) PROVE ConfirmFrame
  <2> DEFINE s == req[w].scan
             base == IF req[w].session # NoSession THEN row[s] ELSE req[w].seen
  <2>1. /\ base \in Row /\ s \in Scan /\ UNCHANGED origin
        /\ row' = [row EXCEPT ![s] =
             [base EXCEPT !.status = "confirmed", !.record = req[w].record,
                          !.image = req[w].seen.image]]
        /\ req[w].record \in Record /\ origin[req[w].record] = s
    BY <1>4 DEF SaveWhole, MarkConfirmed, HandsOK, At, RequestState, PromoteStep
  <2>2. /\ row'[s].record = req[w].record
        /\ \A t \in Scan : t # s => row'[t] = row[t]
    BY <2>1
  <2> HIDE DEF base
  <2> QED BY <2>1, <2>2
<1>5. ASSUME NEW w \in Request,
             InsertScan(w) \/ DiscardStep(w) \/ Die(w) \/ DieCharged(w)
      PROVE  ConfirmFrame
  <2>1. UNCHANGED origin
    BY <1>5 DEF InsertScan, DiscardStep, DeletePhoto, MarkDiscarded,
                SaveDiscard, Die, DieCharged
  <2>2. ASSUME InsertScan(w) PROVE ConfirmFrame
    BY <2>1, <2>2 DEF InsertScan, NoRow
  <2>3. ASSUME DiscardStep(w) PROVE ConfirmFrame
    BY ZenonT(60), <2>1, <2>3 DEF SaveWhole, DiscardStep, DeletePhoto, MarkDiscarded, SaveDiscard,
                      RequestState
  <2>4. ASSUME Die(w) \/ DieCharged(w) PROVE ConfirmFrame
    BY <2>1, <2>4 DEF Die, DieCharged
  <2> QED BY <1>5, <2>2, <2>3, <2>4
<1>6. CASE Tick
  BY <1>6 DEF Tick, AgedRow
<1>7. CASE Browse
  <2>1. ASSUME NEW s \in IsbnScans, NEW found \in BOOLEAN, IsbnLookup(s, found)
        PROVE  ConfirmFrame
    BY <2>1 DEF IsbnLookup, NoRow
  <2>2. ASSUME NEW s \in Scan, NEW found \in BOOLEAN, Search(s, found)
        PROVE  ConfirmFrame
    BY <2>2 DEF Search
  <2>3. ASSUME NEW d \in Session, NEW s \in Scan, NEW found \in BOOLEAN,
               SelectCandidate(d, s, found)
        PROVE  ConfirmFrame
    BY <2>3 DEF SelectCandidate
  <2>4. ASSUME NEW d \in Session, NEW r \in Record, NEW fails \in BOOLEAN,
               ManualEntry(d, r, fails)
        PROVE  ConfirmFrame
    BY <2>4 DEF ManualEntry, CreateRecord
  <2> QED BY <1>7, <2>1, <2>2, <2>3, <2>4 DEF Browse
<1>8. CASE Midnight \/ UNCHANGED vars
  BY <1>8 DEF Midnight, vars
<1> QED
  BY NextCases, <1>1, <1>2, <1>3, <1>4, <1>5, <1>6, <1>7, <1>8 DEF RestStep

LEMMA ConfirmedStep ==
  ASSUME TypeOK, HandsOK, ConfirmedHasRecord, [Next]_vars
  PROVE  ConfirmedHasRecord'
BY ConfirmFrames, ScansAssumption DEF ConfirmFrame, ConfirmedHasRecord, TypeOK, Row

-----------------------------------------------------------------------------
(* ScansOK is inductive.                                                   *)
LEMMA ScansInit == Init => ScansOK
<1> SUFFICES ASSUME Init PROVE ScansOK
  OBVIOUS
<1> USE DEF Init
<1>1. TypeOK
  BY Defaults DEF Choice, NoChoice, TypeOK
<1>2. \A s \in Scan : ~Exists(s) /\ ~row[s].image
  BY DEF Exists, NoRow
<1>3. \A w \in Request : req[w] = Idle
  OBVIOUS
<1>4. IdleOK /\ UploadsOK /\ CopyFirst /\ PhotoKept /\ ImagesOK
      /\ NoStrandedFile
  BY <1>2, <1>3 DEF IdleOK, UploadsOK, CopyFirst, PhotoKept, ImagesOK,
                    NoStrandedFile, Idle, At, Scan
<1>5. HandsOK
  BY <1>2, <1>3, ScansAssumption
     DEF Choice, NoChoice, HandsOK, Idle, NoRow, At, PhotoStep, PromoteStep, Scan
<1>6. ConfirmedHasRecord
  BY <1>2 DEF ConfirmedHasRecord, NoRow
<1> QED BY <1>1, <1>4, <1>5, <1>6 DEF ScansOK

LEMMA ScansStep == ScansOK /\ [Next]_vars => ScansOK'
<1> SUFFICES ASSUME ScansOK, [Next]_vars PROVE ScansOK'
  OBVIOUS
<1>1. TypeOK /\ IdleOK /\ HandsOK /\ FilesOK /\ ConfirmedHasRecord
  BY DEF ScansOK, FilesOK
<1>2. CASE Next
  <2>1. TypeOK' /\ HandsOK' /\ FilesOK'
    BY <1>1, <1>2, NextCases, TypeArrive, TypeRun, TypeConfirm, TypeRest,
       HandsArrive, HandsRun, HandsConfirm, HandsRest,
       FilesArrive, FilesRun, FilesConfirm, FilesRest
  <2> QED BY <1>1, <2>1, IdleStep, ConfirmedStep DEF ScansOK, FilesOK
<1>3. CASE UNCHANGED vars
  <2>1. TypeOK' /\ HandsOK'
    BY <1>1, <1>3 DEF TypeOK, HandsOK, At, Exists, vars
  <2>2. FilesOK'
    BY <1>1, <1>3 DEF FilesOK, UploadsOK, CopyFirst, PhotoKept, ImagesOK,
                      NoStrandedFile, Exists, Kept, At, vars
  <2> QED BY <1>1, <2>1, <2>2, IdleStep, ConfirmedStep DEF ScansOK, FilesOK
<1> QED BY <1>2, <1>3

(* Every reachable state satisfies the invariant, and so each of its       *)
(* parts.                                                                  *)
THEOREM ScansInvariant == Spec => []ScansOK
<1> QED BY ScansInit, ScansStep, PTL DEF Spec

(* The variables keep their types.                                         *)
THEOREM TypeCorrect == Spec => []TypeOK
<1>1. ScansOK => TypeOK
  BY DEF ScansOK
<1> QED BY <1>1, ScansInvariant, PTL

(* A photograph whose scan exists is in staging, has a permanent copy or   *)
(* was deleted by discard_title_scan, whatever dies or fails in between.   *)
THEOREM PhotosKept == Spec => []PhotoKept
<1>1. ScansOK => PhotoKept
  BY DEF ScansOK
<1> QED BY <1>1, ScansInvariant, PTL

(* A staged photograph is never orphaned by a save of its row.             *)
THEOREM NothingStranded == Spec => []NoStrandedFile
<1>1. ScansOK => NoStrandedFile
  BY DEF ScansOK
<1> QED BY <1>1, ScansInvariant, PTL

(* A confirmed scan points at the record of a confirmation that was to     *)
(* close that scan, and no two scans point at one record.                  *)
THEOREM ConfirmationsSound == Spec => []ConfirmedHasRecord
<1>1. ScansOK => ConfirmedHasRecord
  BY DEF ScansOK
<1> QED BY <1>1, ScansInvariant, PTL

-----------------------------------------------------------------------------
(* The stores implement PhotoCustody.                                      *)

(* A step that touches one photograph at most, and takes its custody along *)
(* an edge of PhotoCustody or leaves it, is a step of PhotoCustody.        *)
LEMMA OneMove ==
  ASSUME NEW s \in PhotoScans,
         \A t \in PhotoScans : t # s => CustodyOf(t)' = CustodyOf(t),
         \/ CustodyOf(s)' = CustodyOf(s)
         \/ CustodyOf(s) = "none" /\ CustodyOf(s)' = "staged"
         \/ CustodyOf(s) = "staged" /\ CustodyOf(s)' = "dropped"
         \/ CustodyOf(s) \in {"staged", "dropped"} /\ CustodyOf(s)' = "kept"
  PROVE  [Promise!Next]_([t \in PhotoScans |-> CustodyOf(t)])
<1> DEFINE f == [t \in PhotoScans |-> CustodyOf(t)]
           g == [t \in PhotoScans |-> CustodyOf(t)']
<1>1. f' = g
  OBVIOUS
<1>2. g = [f EXCEPT ![s] = CustodyOf(s)']
  OBVIOUS
<1>3. f[s] = CustodyOf(s)
  OBVIOUS
<1>4. CASE CustodyOf(s)' = CustodyOf(s)
  BY <1>1, <1>2, <1>3, <1>4
<1>5. CASE CustodyOf(s) = "none" /\ CustodyOf(s)' = "staged"
  <2>1. Promise!Take(s)
    BY <1>1, <1>2, <1>3, <1>5 DEF Promise!Take, Promise!Move
  <2> QED BY <2>1 DEF Promise!Next
<1>6. CASE CustodyOf(s) = "staged" /\ CustodyOf(s)' = "dropped"
  <2>1. Promise!Drop(s)
    BY <1>1, <1>2, <1>3, <1>6 DEF Promise!Drop, Promise!Move
  <2> QED BY <2>1 DEF Promise!Next
<1>7. CASE CustodyOf(s) \in {"staged", "dropped"} /\ CustodyOf(s)' = "kept"
  <2>1. Promise!Keep(s)
    BY <1>1, <1>2, <1>3, <1>7 DEF Promise!Keep, Promise!Move
  <2> QED BY <2>1 DEF Promise!Next
<1> QED BY <1>4, <1>5, <1>6, <1>7

(* Every other step leaves the three stores as they are.                   *)
LEMMA StoresFrame ==
  ASSUME [Next]_vars
  PROVE  \/ UNCHANGED <<staged, titlePage, dropped>>
         \/ \E w \in Request : \/ \E s \in PhotoScans : Upload(w, s)
                               \/ SaveCopy(w) \/ DeleteStaged(w)
                               \/ DeletePhoto(w)
<1> USE DEF tables, history
<1>1. ASSUME NEW w \in Request, Arrive(w),
             ~\E s \in PhotoScans : Upload(w, s)
      PROVE  UNCHANGED <<staged, titlePage, dropped>>
  BY <1>1 DEF Arrive, RunOcr, DiscardTitleScan, DiscardScan, ConfirmScan,
              ConfirmCandidate
<1>2. ASSUME NEW w \in Request, RunStep(w)
      PROVE  UNCHANGED <<staged, titlePage, dropped>>
  BY <1>2 DEF RunStep, CheckCap, TakeLease, OpenPhoto, OpenFails,
              CallAnswered, CallFailed, LogUsage, LogFails, Refresh,
              WriteResult
<1>3. ASSUME NEW w \in Request, ConfirmStep(w),
             ~SaveCopy(w), ~DeleteStaged(w)
      PROVE  UNCHANGED <<staged, titlePage, dropped>>
  BY <1>3 DEF ConfirmStep, CreateFromScan, Reread, ReadPhoto, StorageFails,
              MarkConfirmed, PopSession
<1>4. ASSUME NEW w \in Request,
             InsertScan(w) \/ DiscardStep(w) \/ Die(w) \/ DieCharged(w),
             ~DeletePhoto(w)
      PROVE  UNCHANGED <<staged, titlePage, dropped>>
  BY <1>4 DEF InsertScan, DiscardStep, MarkDiscarded, SaveDiscard, Die,
              DieCharged
<1>5. CASE Browse \/ Tick \/ Midnight \/ UNCHANGED vars
  BY <1>5 DEF Browse, IsbnLookup, Search, SelectCandidate, ManualEntry,
              Tick, Midnight, vars
<1> QED BY NextCases, <1>1, <1>2, <1>3, <1>4, <1>5 DEF RestStep

LEMMA CustodyStep ==
  ASSUME ScansOK, [Next]_vars
  PROVE  [Promise!Next]_([t \in PhotoScans |-> CustodyOf(t)])
<1> USE DEF ScansOK
<1>1. CASE UNCHANGED <<staged, titlePage, dropped>>
  <2>1. \A t \in PhotoScans : CustodyOf(t)' = CustodyOf(t)
    BY <1>1 DEF CustodyOf, Kept
  <2> QED BY <2>1
<1>2. ASSUME NEW w \in Request, NEW s \in PhotoScans, Upload(w, s)
      PROVE  [Promise!Next]_([t \in PhotoScans |-> CustodyOf(t)])
  <2>1. /\ staged' = staged \union {s} /\ s \notin staged /\ s \notin dropped
        /\ UNCHANGED <<titlePage, dropped>>
    BY <1>2 DEF history, Upload
  <2>2. \A t \in PhotoScans : t # s => CustodyOf(t)' = CustodyOf(t)
    BY <2>1 DEF CustodyOf, Kept
  <2>3. \/ CustodyOf(s)' = CustodyOf(s)
        \/ CustodyOf(s) = "none" /\ CustodyOf(s)' = "staged"
    BY <2>1 DEF CustodyOf, Kept
  <2> QED BY <2>2, <2>3, OneMove
<1>3. ASSUME NEW w \in Request, SaveCopy(w) \/ DeleteStaged(w) \/ DeletePhoto(w)
      PROVE  [Promise!Next]_([t \in PhotoScans |-> CustodyOf(t)])
  <2>0. PICK s \in PhotoScans : s = req[w].scan
    BY <1>3 DEF SaveCopy, DeleteStaged, DeletePhoto, HandsOK, At, PhotoStep
  <2>1. /\ Exists(s)
        /\ At(w, "save_copy") => req[w].record \in Record
    BY <1>3, <2>0 DEF SaveCopy, DeleteStaged, DeletePhoto, HandsOK, At,
                      PromoteStep
  <2>2. CustodyOf(s) # "none"
    BY <2>1 DEF PhotoKept, CustodyOf
  <2>3. CASE SaveCopy(w)
    <3>1. /\ titlePage' = titlePage \union {<<req[w].record, s>>}
          /\ UNCHANGED <<staged, dropped>> /\ req[w].record \in Record
      BY <2>0, <2>1, <2>3 DEF history, SaveCopy
    <3>2. \A t \in PhotoScans : t # s => CustodyOf(t)' = CustodyOf(t)
      BY <3>1 DEF CustodyOf, Kept
    <3>3. CustodyOf(s)' = "kept"
      BY <3>1 DEF CustodyOf, Kept
    <3>4. CustodyOf(s) \in {"staged", "dropped", "kept"}
      BY <2>2 DEF CustodyOf
    <3> QED BY <2>1, <3>2, <3>3, <3>4, OneMove
  <2>4. CASE DeleteStaged(w)
    <3>1. /\ staged' = staged \ {s} /\ UNCHANGED <<titlePage, dropped>>
          /\ Kept(s)
      BY <2>0, <2>1, <2>4 DEF history, DeleteStaged, CopyFirst, Kept, At, HandsOK, PromoteStep
    <3>2. \A t \in PhotoScans : CustodyOf(t)' = CustodyOf(t)
      BY <3>1 DEF CustodyOf, Kept
    <3> QED BY <3>2
  <2>5. CASE DeletePhoto(w)
    <3>1. /\ staged' = staged \ {s} /\ dropped' = dropped \union {s}
          /\ UNCHANGED titlePage
      BY <2>0, <2>5 DEF DeletePhoto
    <3>2. \A t \in PhotoScans : t # s => CustodyOf(t)' = CustodyOf(t)
      BY <3>1 DEF CustodyOf, Kept
    <3>3. \/ CustodyOf(s)' = CustodyOf(s)
          \/ CustodyOf(s) = "staged" /\ CustodyOf(s)' = "dropped"
      BY <2>2, <3>1 DEF CustodyOf, Kept
    <3> QED BY <2>1, <3>2, <3>3, OneMove
  <2> QED BY <1>3, <2>3, <2>4, <2>5
<1> QED BY StoresFrame, <1>1, <1>2, <1>3

(* The detailed specification implements the abstract one: whatever the    *)
(* requests interleave and wherever one dies, the stores take a photograph *)
(* only along the edges of PhotoCustody.                                   *)
THEOREM CustodyRefined == Spec => PromiseKept
<1>1. Init => Promise!Init
  BY DEF Init, Promise!Init, CustodyOf, Kept
<1>2. ScansOK /\ [Next]_vars
        => [Promise!Next]_([s \in PhotoScans |-> CustodyOf(s)])
  BY CustodyStep
<1>3. Spec => /\ Promise!Init
              /\ [][Promise!Next]_([s \in PhotoScans |-> CustodyOf(s)])
  BY <1>1, <1>2, ScansInvariant, PTL DEF Spec
<1> QED
  BY <1>3, PTL DEF PromiseKept, Promise!Spec

-----------------------------------------------------------------------------
(***************************************************************************)
(* What run_ocr spends: the bound on the calls of a day, and one call at   *)
(* a time for a photograph.                                                *)
(***************************************************************************)
PastCap == {"take_lease", "open_photo", "calling", "log_usage"}

(* The threads past the cap check are finitely many.                       *)
LEMMA PastFinite ==
  /\ IsFiniteSet(PastCapCheck)
  /\ Cardinality(PastCapCheck) \in Nat
  /\ Cardinality(PastCapCheck) <= Cardinality(Request)
  /\ Cardinality(Request) \in Nat /\ Cardinality(Request) >= 1
<1>1. PastCapCheck \subseteq Request
  BY DEF PastCapCheck
<1>2. Cardinality(Request) \in Nat /\ Cardinality(Request) # 0
  BY RequestAssumption, FS_CardinalityType, FS_EmptySet
<1> QED BY <1>1, <1>2, RequestAssumption, FS_Subset, FS_CardinalityType

(* A step that takes no thread past the cap check and logs no call.        *)
LEMMA SpendFrame ==
  ASSUME TypeOK, TypeOK', SpendOK, logged' <= logged,
         \A w \in Request : req'[w].pc \in PastCap => req[w].pc \in PastCap
  PROVE  SpendOK'
<1>1. PastCapCheck' \subseteq PastCapCheck
  BY DEF PastCapCheck, PastCap
<1>2. /\ Cardinality(PastCapCheck') <= Cardinality(PastCapCheck)
      /\ Cardinality(PastCapCheck') \in Nat
  BY <1>1, PastFinite, FS_Subset, FS_CardinalityType
<1> QED
  BY <1>2, PastFinite, BoundsAssumption DEF SpendOK, TypeOK

(* A thread goes past the check only below the cap.                        *)
LEMMA SpendCheck ==
  ASSUME TypeOK, TypeOK', SpendOK, NEW w \in Request, CheckCap(w)
  PROVE  SpendOK'
<1>1. CASE logged >= Cap
  <2>1. \A v \in Request : req'[v].pc \in PastCap => req[v].pc \in PastCap
    BY <1>1 DEF CheckCap, TypeOK, Done, Becomes, Idle, PastCap
  <2> QED BY <1>1, <2>1, SpendFrame DEF CheckCap, usage, TypeOK
<1>2. CASE ~(logged >= Cap)
  <2>1. PastCapCheck' \subseteq Request
    BY DEF PastCapCheck
  <2>2. /\ Cardinality(PastCapCheck') \in Nat
        /\ Cardinality(PastCapCheck') <= Cardinality(Request)
    BY <2>1, RequestAssumption, FS_Subset, FS_CardinalityType
  <2>3. logged' = logged /\ logged \in Nat /\ logged + 1 <= Cap
    BY <1>2, BoundsAssumption DEF CheckCap, usage, TypeOK
  <2> QED BY <2>2, <2>3, PastFinite, BoundsAssumption DEF SpendOK
<1> QED BY <1>1, <1>2

(* A call that is logged is no longer in flight.                           *)
LEMMA SpendLog ==
  ASSUME TypeOK, SpendOK, NEW w \in Request, LogUsage(w)
  PROVE  SpendOK'
<1>1. /\ req[w].pc = "log_usage" /\ req'[w].pc = "refresh"
      /\ \A v \in Request : v # w => req'[v] = req[v]
      /\ logged' = logged + 1 /\ logged \in Nat
  BY DEF LogUsage, TypeOK, At, Goto, Becomes, RequestState
<1>2. PastCapCheck' = PastCapCheck \ {w} /\ w \in PastCapCheck
  BY <1>1 DEF PastCapCheck
<1>3. Cardinality(PastCapCheck') = Cardinality(PastCapCheck) - 1
  BY <1>2, PastFinite, FS_RemoveElement
<1> QED BY <1>1, <1>3, PastFinite, BoundsAssumption DEF SpendOK

LEMMA SpendStep ==
  ASSUME ScansOK, ScansOK', SpendOK, [Next]_vars PROVE SpendOK'
<1> DEFINE Quiet ==
      /\ logged' <= logged
      /\ \A v \in Request : req'[v].pc \in PastCap => req[v].pc \in PastCap
<1>0. TypeOK /\ TypeOK' /\ logged \in Nat /\ req \in [Request -> RequestState]
  BY DEF ScansOK, TypeOK
<1>a. ASSUME NEW w \in Request, NEW state, Becomes(w, state),
             UNCHANGED logged, state.pc \in PastCap => req[w].pc \in PastCap
      PROVE  Quiet
  BY <1>0, <1>a DEF Becomes
<1>b. ASSUME NEW w \in Request, NEW step, Goto(w, step),
             UNCHANGED logged, step \in PastCap => req[w].pc \in PastCap
      PROVE  Quiet
  <2>1. req[w] \in RequestState
    BY <1>0
  <2>2. [req[w] EXCEPT !.pc = step].pc = step
    BY <2>1 DEF RequestState
  <2> QED BY <1>a, <1>b, <2>2 DEF Goto
<1>c. ASSUME NEW w \in Request, Done(w), UNCHANGED logged
      PROVE  Quiet
  BY <1>a, <1>c DEF Done, Idle, PastCap
<1>d. ASSUME NEW w \in Request, NEW s, NEW copy, NEW step,
             Serve(w, s, copy, step), step \notin PastCap, UNCHANGED logged
      PROVE  Quiet
  <2>1. req[w] \in RequestState
    BY <1>0
  <2>2. [req[w] EXCEPT !.pc = step, !.scan = s, !.seen = copy].pc = step
    BY <2>1 DEF RequestState
  <2> QED BY <1>a, <1>d, <2>2 DEF Serve
<1> HIDE DEF Quiet
<1>1. ASSUME NEW w \in Request, Arrive(w) PROVE Quiet
  <2> USE DEF usage
  <2>1. req[w] \in RequestState
    BY <1>0
  <2>2. ASSUME NEW s \in PhotoScans, Upload(w, s) PROVE Quiet
    BY <1>a, <2>1, <2>2 DEF Upload, RequestState, PastCap
  <2>3. ASSUME NEW s \in Scan,
               \/ RunOcr(w, s) \/ DiscardTitleScan(w, s)
               \/ DiscardScan(w, s) \/ ConfirmScan(w, s)
        PROVE  Quiet
    BY <1>d, <2>3
       DEF RunOcr, DiscardTitleScan, DiscardScan, ConfirmScan, PastCap
  <2>4. ASSUME NEW d \in Session, NEW r \in Record, ConfirmCandidate(w, d, r)
        PROVE  Quiet
    BY <1>a, <2>1, <2>4 DEF ConfirmCandidate, RequestState, PastCap
  <2> QED BY <1>1, <2>2, <2>3, <2>4 DEF Arrive
<1>2. ASSUME NEW w \in Request, RunStep(w), ~CheckCap(w), ~LogUsage(w)
      PROVE  Quiet
  <2> USE DEF usage, PastCap, At, tables, history
  <2>1. req[w] \in RequestState
    BY <1>0
  <2>2. CASE TakeLease(w) \/ OpenPhoto(w) \/ OpenFails(w)
    BY <1>b, <1>c, <2>2 DEF TakeLease, OpenPhoto, OpenFails
  <2>3. CASE LogFails(w) \/ Refresh(w) \/ WriteResult(w)
    BY <1>b, <1>c, <2>3 DEF LogFails, Refresh, WriteResult
  <2>4. ASSUME NEW reading \in BOOLEAN, CallAnswered(w, reading) PROVE Quiet
    BY <1>a, <2>1, <2>4 DEF CallAnswered, RequestState
  <2>5. CASE CallFailed(w)
    BY <1>a, <2>1, <2>5 DEF CallFailed, RequestState
  <2> QED BY <1>2, <2>2, <2>3, <2>4, <2>5 DEF RunStep
<1>3. ASSUME NEW w \in Request, ConfirmStep(w) PROVE Quiet
  <2> USE DEF usage, PastCap
  <2>1. req[w] \in RequestState
    BY <1>0
  <2>2. ASSUME NEW r \in Record, CreateFromScan(w, r) PROVE Quiet
    BY <1>a, <2>1, <2>2 DEF CreateFromScan, RequestState
  <2>3. CASE Reread(w)
    BY <1>d, <2>3 DEF Reread
  <2>4. CASE ReadPhoto(w) \/ SaveCopy(w) \/ StorageFails(w)
    BY <1>b, <2>4 DEF ReadPhoto, SaveCopy, StorageFails
  <2>5. CASE DeleteStaged(w)
    BY <1>a, <2>1, <2>5 DEF DeleteStaged, ForgetImage, RequestState
  <2>6. CASE MarkConfirmed(w) \/ PopSession(w)
    BY <1>b, <1>c, <2>6 DEF MarkConfirmed, PopSession
  <2> QED BY <1>3, <2>2, <2>3, <2>4, <2>5, <2>6 DEF ConfirmStep
<1>4. ASSUME NEW w \in Request,
             InsertScan(w) \/ DiscardStep(w) \/ Die(w) \/ DieCharged(w)
      PROVE  Quiet
  BY <1>b, <1>c, <1>4
     DEF InsertScan, DiscardStep, DeletePhoto, MarkDiscarded, SaveDiscard,
         Die, DieCharged, usage, PastCap
<1>5. ASSUME Tick PROVE Quiet
  <2>1. \A v \in Request : req'[v].pc = req[v].pc
    BY <1>0, <1>5 DEF Tick, RequestState
  <2>2. logged' = logged
    BY <1>5 DEF Tick, usage
  <2> QED BY <1>0, <2>1, <2>2 DEF Quiet
<1>6. ASSUME Browse \/ Midnight \/ UNCHANGED vars PROVE Quiet
  <2>1. req' = req /\ logged' \in {logged, 0}
    BY <1>6 DEF Browse, IsbnLookup, Search, SelectCandidate, ManualEntry,
                Midnight, vars, usage
  <2> QED BY <1>0, <2>1 DEF Quiet
<1>7. CASE Quiet
  BY <1>0, <1>7, SpendFrame DEF Quiet
<1> QED
  BY <1>0, <1>1, <1>2, <1>3, <1>4, <1>5, <1>6, <1>7, NextCases, SpendCheck,
     SpendLog DEF RestStep

(* The calls charged in a day are at most the cap, one less than the       *)
(* threads, and the calls APIUsageLog never heard of.                      *)
THEOREM SpendIsBounded == Spec => []SpendBounded
<1>1. Init => SpendOK
  <2> SUFFICES ASSUME Init PROVE SpendOK
    OBVIOUS
  <2>1. PastCapCheck = {} /\ logged = 0
    BY DEF Init, PastCapCheck, Idle
  <2> QED
    BY <2>1, PastFinite, FS_EmptySet, BoundsAssumption DEF SpendOK
<1>2. ScansOK /\ ScansOK' /\ SpendOK /\ [Next]_vars => SpendOK'
  BY SpendStep
<1>3. ScansOK /\ SpendOK => SpendBounded
  <2> SUFFICES ASSUME ScansOK, SpendOK PROVE SpendBounded
    OBVIOUS
  <2> DEFINE unlogged == {w \in Request : At(w, "log_usage")}
  <2>1. unlogged \subseteq PastCapCheck
    BY DEF PastCapCheck, At
  <2>2. /\ Cardinality(unlogged) \in Nat
        /\ Cardinality(unlogged) <= Cardinality(PastCapCheck)
    BY <2>1, PastFinite, FS_Subset, FS_CardinalityType
  <2>3. logged \in Nat /\ lost \in Nat
    BY DEF ScansOK, TypeOK
  <2> HIDE DEF unlogged
  <2>4. Charged = logged + lost + Cardinality(unlogged)
    BY DEF Charged, unlogged
  <2> QED
    BY <2>2, <2>3, <2>4, PastFinite, BoundsAssumption
       DEF SpendOK, SpendBounded
<1> QED BY <1>1, <1>2, <1>3, ScansInvariant, PTL DEF Spec
-----------------------------------------------------------------------------
(* One call at a time, among the runs that their lease covers.             *)

(* What a step of w leaves alone: it strips no run of its lease but those  *)
(* it counts as stripped, and changes the lease of no other run still      *)
(* covered.                                                                *)
LeaseFrame(w) ==
  /\ stripped \ {w} \subseteq stripped'
  /\ stripped' \subseteq {v \in Request : InCall(v)} \ {w}
  /\ \A v \in Request :
       v # w /\ InCall(v) /\ v \notin stripped' /\ req[v].elapsed <= LeaseTimeout
         => row'[req[v].scan].lease = row[req[v].scan].lease

(* A run in its call serves a scan that has a row.                         *)
LEMMA CallHands ==
  ASSUME TypeOK, HandsOK, NEW w \in Request, InCall(w)
  PROVE  /\ req[w].scan \in Scan /\ Exists(req[w].scan)
         /\ row[req[w].scan] \in Row
         /\ req[w].elapsed \in 0 .. MaxCall
BY DEF TypeOK, HandsOK, InCall, At, RequestState

(* A thread that leaves its call, or was in none, disturbs no other.       *)
LEMMA LeaseAside ==
  ASSUME TypeOK, HandsOK, LeaseOK, NEW w \in Request, NEW state,
         Becomes(w, state), state.pc \notin {"open_photo", "calling"},
         state.elapsed = 0, LeaseFrame(w)
  PROVE  LeaseOK'
<1>1. /\ req'[w] = state
      /\ \A v \in Request : v # w => req'[v] = req[v]
  BY DEF TypeOK, Becomes
<1>2. ~InCall(w)' /\ \A v \in Request : v # w => InCall(v)' = InCall(v)
  BY <1>1 DEF InCall
<1>3. stripped' \subseteq {v \in Request : InCall(v)'}
  BY <1>2 DEF LeaseFrame
<1>4. ASSUME NEW v \in Request
      PROVE  /\ ~InCall(v)' => req'[v].elapsed = 0
             /\ InCall(v)' /\ ~Uncovered(v)' =>
                  row'[req'[v].scan].lease = req'[v].elapsed
  <2>1. CASE v = w
    BY <1>1, <1>2, <2>1
  <2>2. CASE v # w
    <3>1. ~InCall(v) => req[v].elapsed = 0
      BY DEF LeaseOK
    <3>2. ASSUME InCall(v), ~Uncovered(v)'
          PROVE  row'[req[v].scan].lease = req[v].elapsed
      <4>1. v \notin stripped' /\ ~(req[v].elapsed > LeaseTimeout)
        BY <1>1, <2>2, <3>2 DEF Uncovered
      <4>2. req[v].elapsed <= LeaseTimeout
        BY <3>2, <4>1, CallHands, BoundsAssumption
      <4>3. row'[req[v].scan].lease = row[req[v].scan].lease
        BY <2>2, <3>2, <4>1, <4>2 DEF LeaseFrame
      <4>4. ~Uncovered(v)
        BY <2>2, <4>1 DEF Uncovered, LeaseFrame
      <4> QED BY <3>2, <4>3, <4>4 DEF LeaseOK
    <3> QED BY <1>1, <1>2, <2>2, <3>1, <3>2
  <2> QED BY <2>1, <2>2
<1>5. LeaseHolds'
  <2> SUFFICES ASSUME NEW u \in Request, NEW v \in Request, u # v,
                      InCall(u)', InCall(v)', req'[u].scan = req'[v].scan
               PROVE  Uncovered(u)' \/ Uncovered(v)'
    BY DEF LeaseHolds
  <2>1. u # w /\ v # w
    BY <1>2
  <2>2. Uncovered(u) \/ Uncovered(v)
    BY <1>1, <1>2, <2>1 DEF LeaseOK, LeaseHolds
  <2> QED BY <1>1, <2>1, <2>2 DEF Uncovered, LeaseFrame
<1> QED BY <1>3, <1>4, <1>5 DEF LeaseOK

(* What a thread does while it is in no call, and how it leaves one.       *)
LEMMA LeaseQuiet ==
  ASSUME TypeOK, HandsOK, LeaseOK, NEW w \in Request, LeaseFrame(w),
         \/ Done(w)
         \/ /\ ~InCall(w)
            /\ \/ \E step \in Step \ {"open_photo", "calling"} : Goto(w, step)
               \/ \E step \in Step \ {"open_photo", "calling"} :
                    \E s, copy : Serve(w, s, copy, step)
  PROVE  LeaseOK'
<1>1. req[w] \in RequestState
  BY DEF TypeOK
<1>2. CASE Done(w)
  BY <1>2, LeaseAside DEF Done, Idle
<1>3. ASSUME ~InCall(w), NEW step \in Step \ {"open_photo", "calling"},
             Goto(w, step)
      PROVE  LeaseOK'
  <2>1. /\ [req[w] EXCEPT !.pc = step].pc = step
        /\ [req[w] EXCEPT !.pc = step].elapsed = 0
    BY <1>1, <1>3 DEF RequestState, LeaseOK
  <2> QED BY <1>3, <2>1, LeaseAside DEF Goto
<1>4. ASSUME ~InCall(w), NEW step \in Step \ {"open_photo", "calling"},
             NEW s, NEW copy, Serve(w, s, copy, step)
      PROVE  LeaseOK'
  <2>1. /\ [req[w] EXCEPT !.pc = step, !.scan = s, !.seen = copy].pc = step
        /\ [req[w] EXCEPT !.pc = step, !.scan = s, !.seen = copy].elapsed = 0
    BY <1>1, <1>4 DEF RequestState, LeaseOK
  <2> QED BY <1>4, <2>1, LeaseAside DEF Serve
<1> QED BY <1>2, <1>3, <1>4

(* Three ways to leave the other runs alone: to change no lease of a row   *)
(* that exists, to give a lease back, to save a whole row.                 *)
LEMMA LeaseUntouched ==
  ASSUME TypeOK, HandsOK, LeaseOK, NEW w \in Request,
         stripped' = stripped \ {w},
         \A s \in Scan : row'[s].lease = row[s].lease \/ ~Exists(s)
  PROVE  LeaseFrame(w)
BY CallHands DEF LeaseFrame, LeaseOK

LEMMA LeaseIdle ==
  ASSUME LeaseOK, NEW w \in Request, ~InCall(w)
  PROVE  stripped \ {w} = stripped
BY DEF LeaseOK

LEMMA LeaseReleased ==
  ASSUME TypeOK, HandsOK, LeaseOK, NEW w \in Request, InCall(w),
         ReleaseLease(w)
  PROVE  LeaseFrame(w)
<1> DEFINE s == req[w].scan
<1>1. /\ s \in Scan
      /\ \A t \in Scan : t # s => row'[t] = row[t]
  BY CallHands DEF ReleaseLease, Save, TypeOK
<1>2. CASE Uncovered(w)
  <2>1. stripped' = (stripped \union CallsOn(s)) \ {w}
    BY <1>2 DEF ReleaseLease
  <2>2. ASSUME NEW v \in Request, v # w, InCall(v), v \notin stripped'
        PROVE  row'[req[v].scan].lease = row[req[v].scan].lease
    <3>1. req[v].scan # s
      BY <2>1, <2>2 DEF CallsOn
    <3> QED BY <1>1, <2>2, <3>1, CallHands
  <2> QED BY <2>1, <2>2 DEF LeaseFrame, LeaseOK, CallsOn
<1>3. CASE ~Uncovered(w)
  <2>1. stripped' = stripped \ {w}
    BY <1>3 DEF ReleaseLease
  <2>2. ASSUME NEW v \in Request, v # w, InCall(v), v \notin stripped',
               req[v].elapsed <= LeaseTimeout
        PROVE  row'[req[v].scan].lease = row[req[v].scan].lease
    <3>1. ~Uncovered(v)
      BY <2>1, <2>2, CallHands, BoundsAssumption DEF Uncovered
    <3>2. req[v].scan # s
      BY <1>3, <2>2, <3>1 DEF LeaseOK, LeaseHolds
    <3> QED BY <1>1, <2>2, <3>2, CallHands
  <2> QED BY <2>1, <2>2 DEF LeaseFrame, LeaseOK
<1> QED BY <1>2, <1>3

LEMMA LeaseOverwritten ==
  ASSUME TypeOK, HandsOK, LeaseOK, NEW w \in Request, ~InCall(w),
         req[w].scan \in Scan, NEW newRow, SaveWhole(w, newRow)
  PROVE  LeaseFrame(w)
<1> DEFINE s == req[w].scan
<1>1. /\ row'[s] = newRow
      /\ \A t \in Scan : t # s => row'[t] = row[t]
  BY DEF SaveWhole, Save, TypeOK
<1>2. CASE newRow.lease = row[s].lease
  <2>1. stripped' = stripped
    BY <1>2 DEF SaveWhole
  <2>2. \A t \in Scan : row'[t].lease = row[t].lease
    BY <1>1, <1>2
  <2> QED BY <2>1, <2>2, LeaseIdle, LeaseUntouched
<1>3. CASE newRow.lease # row[s].lease
  <2>1. stripped' = stripped \union CallsOn(s)
    BY <1>3 DEF SaveWhole
  <2>2. ASSUME NEW v \in Request, v # w, InCall(v), v \notin stripped'
        PROVE  row'[req[v].scan].lease = row[req[v].scan].lease
    <3>1. req[v].scan # s
      BY <2>1, <2>2 DEF CallsOn
    <3> QED BY <1>1, <2>2, <3>1, CallHands
  <2> QED BY <2>1, <2>2 DEF LeaseFrame, LeaseOK, CallsOn
<1> QED BY <1>2, <1>3

LEMMA LeaseArrive ==
  ASSUME TypeOK, HandsOK, IdleOK, LeaseOK, NEW w \in Request, Arrive(w)
  PROVE  LeaseOK'
<1>1. req[w] \in RequestState
  BY DEF TypeOK
<1>2. At(w, "idle") /\ row' = row /\ stripped' = stripped
  BY DEF Arrive, Upload, RunOcr, DiscardTitleScan, DiscardScan, ConfirmScan,
         ConfirmCandidate, Begin, tables, history
<1>3. ~InCall(w) /\ req[w].elapsed = 0
  BY <1>2 DEF InCall, At, LeaseOK
<1>4. LeaseFrame(w)
  BY <1>2, <1>3, LeaseIdle, LeaseUntouched
<1>5. ASSUME NEW s \in PhotoScans, Upload(w, s) PROVE LeaseOK'
  BY <1>1, <1>3, <1>4, <1>5, LeaseAside DEF Upload, RequestState
<1>6. ASSUME NEW s \in Scan,
             \/ RunOcr(w, s) \/ DiscardTitleScan(w, s)
             \/ DiscardScan(w, s) \/ ConfirmScan(w, s)
      PROVE  LeaseOK'
  BY <1>3, <1>4, <1>6, LeaseQuiet
     DEF RunOcr, DiscardTitleScan, DiscardScan, ConfirmScan, Step
<1>7. ASSUME NEW d \in Session, NEW r \in Record, ConfirmCandidate(w, d, r)
      PROVE  LeaseOK'
  BY <1>1, <1>3, <1>4, <1>7, LeaseAside DEF ConfirmCandidate, RequestState
<1> QED BY <1>5, <1>6, <1>7 DEF Arrive

LEMMA LeaseTaken ==
  ASSUME TypeOK, HandsOK, LeaseOK, NEW w \in Request, TakeLease(w)
  PROVE  LeaseOK'
<1> DEFINE s == req[w].scan
<1>1. /\ req[w].pc = "take_lease" /\ s \in Scan /\ row[s] \in Row
      /\ ~InCall(w) /\ stripped' = stripped
  BY DEF TakeLease, At, HandsOK, TypeOK, InCall, history
<1>2. CASE Done(w) /\ UNCHANGED row
  <2>1. LeaseFrame(w)
    BY <1>1, <1>2, LeaseIdle, LeaseUntouched
  <2> QED BY <1>2, <2>1, LeaseQuiet
<1>3. CASE LeaseFree(row[s].lease) /\ Goto(w, "open_photo")
           /\ Save(s, [row[s] EXCEPT !.lease = 0])
  <2>1. /\ req'[w].pc = "open_photo"
        /\ req'[w].scan = s /\ req'[w].elapsed = req[w].elapsed
        /\ \A v \in Request : v # w => req'[v] = req[v]
    BY <1>3 DEF Goto, Becomes, TypeOK, RequestState
  <2>2. /\ row'[s].lease = 0
        /\ \A t \in Scan : t # s => row'[t] = row[t]
    BY <1>1, <1>3 DEF Save, TypeOK, Row
  <2>3. req[w].elapsed = 0 /\ w \notin stripped
    BY <1>1 DEF LeaseOK
  <2>4. ASSUME NEW v \in Request, InCall(v), req[v].scan = s
        PROVE  Uncovered(v)
    <3> SUFFICES ASSUME ~Uncovered(v) PROVE FALSE
      OBVIOUS
    <3>1. row[s].lease = req[v].elapsed /\ ~(req[v].elapsed > LeaseTimeout)
      BY <2>4 DEF LeaseOK, Uncovered
    <3> QED
      BY <1>3, <2>4, <3>1, CallHands, BoundsAssumption
         DEF LeaseFree, NoLease
  <2>5. /\ InCall(w)'
        /\ \A v \in Request : v # w => /\ InCall(v)' = InCall(v)
                                       /\ Uncovered(v)' = Uncovered(v)
    BY <1>1, <2>1 DEF InCall, Uncovered
  <2>6. stripped' \subseteq {v \in Request : InCall(v)'}
    BY <1>1, <2>5 DEF LeaseOK
  <2>7. ASSUME NEW v \in Request
        PROVE  /\ ~InCall(v)' => req'[v].elapsed = 0
               /\ InCall(v)' /\ ~Uncovered(v)' =>
                    row'[req'[v].scan].lease = req'[v].elapsed
    <3>1. CASE v = w
      BY <2>1, <2>2, <2>3, <2>5, <3>1
    <3>2. CASE v # w
      <4>1. ~InCall(v) => req[v].elapsed = 0
        BY DEF LeaseOK
      <4>2. ASSUME InCall(v), ~Uncovered(v)
            PROVE  row'[req[v].scan].lease = req[v].elapsed
        <5>1. req[v].scan # s /\ req[v].scan \in Scan
          BY <2>4, <4>2, CallHands
        <5> QED BY <2>2, <4>2, <5>1 DEF LeaseOK
      <4> QED BY <2>1, <2>5, <3>2, <4>1, <4>2
    <3> QED BY <3>1, <3>2
  <2>8. LeaseHolds'
    <3> SUFFICES ASSUME NEW u \in Request, NEW v \in Request, u # v,
                        InCall(u)', InCall(v)', req'[u].scan = req'[v].scan
                 PROVE  Uncovered(u)' \/ Uncovered(v)'
      BY DEF LeaseHolds
    <3>1. CASE u = w
      BY <2>1, <2>4, <2>5, <3>1
    <3>2. CASE v = w
      BY <2>1, <2>4, <2>5, <3>2
    <3>3. CASE u # w /\ v # w
      BY <2>1, <2>5, <3>3 DEF LeaseOK, LeaseHolds
    <3> QED BY <3>1, <3>2, <3>3
  <2> QED BY <2>6, <2>7, <2>8 DEF LeaseOK
<1> QED BY <1>2, <1>3 DEF TakeLease

LEMMA LeaseRun ==
  ASSUME TypeOK, HandsOK, LeaseOK, NEW w \in Request, RunStep(w)
  PROVE  LeaseOK'
<1> DEFINE s == req[w].scan
<1>1. /\ req[w] \in RequestState /\ s \in Scan /\ row[s] \in Row
      /\ req[w].reading \in BOOLEAN
  BY RunFrames DEF TypeOK, HandsOK, RunFrame, RunPc, At, RequestState
<1>2. CASE CheckCap(w) \/ LogUsage(w) \/ LogFails(w) \/ Refresh(w)
  <2>1. row' = row /\ ~InCall(w) /\ stripped' = stripped
    BY <1>2 DEF CheckCap, LogUsage, LogFails, Refresh, tables, history, At,
                InCall
  <2>2. LeaseFrame(w)
    BY <2>1, LeaseIdle, LeaseUntouched
  <2> QED
    BY <1>2, <2>1, <2>2, LeaseQuiet
       DEF CheckCap, LogUsage, LogFails, Refresh, Step
<1>3. CASE WriteResult(w)
  <2>1. ~InCall(w) /\ stripped' = stripped
    BY <1>3 DEF WriteResult, At, InCall, history
  <2>2. \A t \in Scan : row'[t].lease = row[t].lease
    BY <1>1, <1>3 DEF WriteResult, Save, TypeOK, Row
  <2>3. LeaseFrame(w)
    BY <2>1, <2>2, LeaseIdle, LeaseUntouched
  <2> QED BY <1>3, <2>3, LeaseQuiet DEF WriteResult
<1>4. CASE OpenPhoto(w)
  <2>1. /\ req[w].pc = "open_photo" /\ req'[w].pc = "calling"
        /\ req'[w].scan = s /\ req'[w].elapsed = req[w].elapsed
        /\ \A v \in Request : v # w => req'[v] = req[v]
        /\ row' = row /\ stripped' = stripped
    BY <1>4 DEF OpenPhoto, Goto, Becomes, At, TypeOK, RequestState, tables,
                history
  <2>2. \A v \in Request : /\ InCall(v)' = InCall(v)
                            /\ Uncovered(v)' = Uncovered(v)
                            /\ req'[v].scan = req[v].scan
                            /\ req'[v].elapsed = req[v].elapsed
    BY <2>1 DEF InCall, Uncovered
  <2> QED BY <2>1, <2>2 DEF LeaseOK, LeaseHolds
<1>5. CASE OpenFails(w)
  <2>1. LeaseFrame(w)
    BY <1>5, LeaseReleased DEF OpenFails, At, InCall
  <2> QED BY <1>5, <2>1, LeaseQuiet DEF OpenFails
<1>6. ASSUME NEW reading \in BOOLEAN, CallAnswered(w, reading) PROVE LeaseOK'
  <2>1. LeaseFrame(w)
    BY <1>6, LeaseReleased DEF CallAnswered, At, InCall
  <2> QED BY <1>1, <1>6, <2>1, LeaseAside DEF CallAnswered, RequestState
<1>7. CASE CallFailed(w)
  <2>1. LeaseFrame(w)
    BY <1>7, LeaseReleased DEF CallFailed, At, InCall
  <2> QED BY <1>1, <1>7, <2>1, LeaseAside DEF CallFailed, RequestState
<1>8. CASE TakeLease(w)
  BY <1>8, LeaseTaken
<1> QED
  BY <1>2, <1>3, <1>4, <1>5, <1>6, <1>7, <1>8 DEF RunStep

LEMMA LeaseConfirm ==
  ASSUME TypeOK, HandsOK, LeaseOK, NEW w \in Request, ConfirmStep(w)
  PROVE  LeaseOK'
<1>1. req[w] \in RequestState
  BY DEF TypeOK
<1>2. ASSUME row' = row, ~InCall(w), stripped' = stripped PROVE LeaseFrame(w)
  BY <1>2, LeaseIdle, LeaseUntouched
<1>3. CASE Reread(w) \/ ReadPhoto(w) \/ SaveCopy(w) \/ StorageFails(w)
           \/ PopSession(w)
  <2>1. row' = row /\ ~InCall(w) /\ stripped' = stripped
    BY <1>3 DEF Reread, ReadPhoto, SaveCopy, StorageFails, PopSession,
                tables, history, At, InCall
  <2> QED
    BY <1>2, <1>3, <2>1, LeaseQuiet
       DEF Reread, ReadPhoto, SaveCopy, StorageFails, PopSession, Step
<1>4. CASE DeleteStaged(w)
  <2>1. row' = row /\ ~InCall(w) /\ req[w].elapsed = 0 /\ stripped' = stripped
    BY <1>4 DEF DeleteStaged, At, InCall, LeaseOK, history
  <2> QED
    BY <1>1, <1>2, <1>4, <2>1, LeaseAside
       DEF DeleteStaged, ForgetImage, RequestState
<1>5. ASSUME NEW r \in Record, CreateFromScan(w, r) PROVE LeaseOK'
  <2>1. row' = row /\ ~InCall(w) /\ req[w].elapsed = 0 /\ stripped' = stripped
    BY <1>5 DEF CreateFromScan, At, InCall, LeaseOK, history
  <2> QED
    BY <1>1, <1>2, <1>5, <2>1, LeaseAside DEF CreateFromScan, RequestState
<1>6. CASE MarkConfirmed(w)
  <2>1. req[w].scan \in Scan /\ ~InCall(w)
    BY <1>6 DEF MarkConfirmed, At, HandsOK, InCall
  <2>2. LeaseFrame(w)
    BY <1>6, <2>1, LeaseOverwritten DEF MarkConfirmed
  <2> QED BY <1>6, <2>1, <2>2, LeaseQuiet DEF MarkConfirmed, Step
<1> QED BY <1>3, <1>4, <1>5, <1>6 DEF ConfirmStep

LEMMA LeaseTick ==
  ASSUME TypeOK, HandsOK, LeaseOK, Tick PROVE LeaseOK'
<1>1. ASSUME NEW w \in Request
      PROVE  /\ InCall(w)' = InCall(w)
             /\ Uncovered(w) => Uncovered(w)'
             /\ ~InCall(w) => req'[w].elapsed = req[w].elapsed
             /\ req'[w].scan = req[w].scan
             /\ stripped' = stripped
  <2>1. /\ req'[w].pc = req[w].pc /\ req'[w].scan = req[w].scan
        /\ req'[w].elapsed = IF InCall(w) THEN req[w].elapsed + 1
                                          ELSE req[w].elapsed
        /\ stripped' = stripped
    BY TickFrame
  <2>2. req[w].elapsed \in 0 .. MaxCall
    BY DEF TypeOK, RequestState
  <2> QED BY <2>1, <2>2, BoundsAssumption DEF InCall, Uncovered
<1>2. ASSUME NEW w \in Request, InCall(w), ~Uncovered(w)'
      PROVE  row'[req[w].scan].lease = req'[w].elapsed
  <2>1. /\ req'[w].elapsed = req[w].elapsed + 1
        /\ row'[req[w].scan].lease = Aged(row[req[w].scan].lease)
        /\ req[w].elapsed \in 0 .. MaxCall
    BY <1>2, TickFrame, CallHands
  <2>2. row[req[w].scan].lease = req[w].elapsed
    BY <1>1, <1>2 DEF LeaseOK
  <2>3. ~(req[w].elapsed + 1 > LeaseTimeout)
    BY <1>2, <2>1 DEF Uncovered
  <2> QED BY <2>1, <2>2, <2>3, BoundsAssumption DEF Aged, NoLease
<1>3. stripped' = stripped
  BY TickFrame
<1>4. LeaseHolds'
  <2> SUFFICES ASSUME NEW u \in Request, NEW v \in Request, u # v,
                      InCall(u)', InCall(v)', req'[u].scan = req'[v].scan
               PROVE  Uncovered(u)' \/ Uncovered(v)'
    BY DEF LeaseHolds
  <2> QED BY <1>1 DEF LeaseOK, LeaseHolds
<1> QED BY <1>1, <1>2, <1>3, <1>4 DEF LeaseOK

LEMMA LeaseRest ==
  ASSUME TypeOK, HandsOK, UploadsOK, LeaseOK, RestStep
  PROVE  LeaseOK'
<1>1. ASSUME NEW w \in Request, InsertScan(w) PROVE LeaseOK'
  <2>1. ~InCall(w) /\ stripped' = stripped
    BY <1>1 DEF InsertScan, At, InCall, history
  <2>2. \A s \in Scan : row'[s].lease = row[s].lease \/ ~Exists(s)
    BY <1>1 DEF InsertScan, Save, TypeOK, UploadsOK, At
  <2>3. LeaseFrame(w)
    BY <2>1, <2>2, LeaseIdle, LeaseUntouched
  <2> QED BY <1>1, <2>3, LeaseQuiet DEF InsertScan
<1>2. ASSUME NEW w \in Request, DeletePhoto(w) PROVE LeaseOK'
  <2>1. row' = row /\ ~InCall(w) /\ stripped' = stripped
    BY <1>2 DEF DeletePhoto, At, InCall
  <2>2. LeaseFrame(w)
    BY <2>1, LeaseIdle, LeaseUntouched
  <2> QED BY <1>2, <2>1, <2>2, LeaseQuiet DEF DeletePhoto, Step
<1>3. ASSUME NEW w \in Request, MarkDiscarded(w) PROVE LeaseOK'
  <2>1. /\ req[w].scan \in Scan /\ row[req[w].scan] \in Row
        /\ ~InCall(w) /\ stripped' = stripped
    BY <1>3 DEF MarkDiscarded, HandsOK, At, TypeOK, InCall, history
  <2>2. \A s \in Scan : row'[s].lease = row[s].lease
    BY <1>3, <2>1 DEF MarkDiscarded, Save, TypeOK, Row
  <2>3. LeaseFrame(w)
    BY <2>1, <2>2, LeaseIdle, LeaseUntouched
  <2> QED BY <1>3, <2>3, LeaseQuiet DEF MarkDiscarded
<1>4. ASSUME NEW w \in Request, SaveDiscard(w) PROVE LeaseOK'
  <2>1. req[w].scan \in Scan /\ ~InCall(w)
    BY <1>4 DEF SaveDiscard, At, HandsOK, InCall
  <2>2. LeaseFrame(w)
    BY <1>4, <2>1, LeaseOverwritten DEF SaveDiscard
  <2> QED BY <1>4, <2>2, LeaseQuiet DEF SaveDiscard
<1>5. ASSUME NEW w \in Request, Die(w) \/ DieCharged(w) PROVE LeaseOK'
  <2>1. LeaseFrame(w)
    BY <1>5, LeaseUntouched DEF Die, DieCharged, Leaves, tables
  <2> QED BY <1>5, <2>1, LeaseQuiet DEF Die, DieCharged
<1>6. ASSUME req' = req, stripped' = stripped,
             \A s \in Scan : row'[s].lease = row[s].lease \/ ~Exists(s)
      PROVE  LeaseOK'
  <2>1. ASSUME NEW w \in Request
        PROVE  /\ InCall(w)' = InCall(w)
               /\ Uncovered(w)' = Uncovered(w)
               /\ InCall(w) =>
                    row'[req[w].scan].lease = row[req[w].scan].lease
    BY <1>6, CallHands DEF InCall, Uncovered
  <2> QED BY <1>6, <2>1 DEF LeaseOK, LeaseHolds
<1>7. CASE Browse \/ Midnight
  <2>1. req' = req /\ stripped' = stripped
    BY <1>7 DEF Browse, IsbnLookup, Search, SelectCandidate, ManualEntry,
                Midnight, history
  <2>2. \A s \in Scan : row'[s].lease = row[s].lease \/ ~Exists(s)
    <3>1. ASSUME NEW s \in IsbnScans, NEW found \in BOOLEAN,
                 IsbnLookup(s, found)
          PROVE  \A t \in Scan : row'[t].lease = row[t].lease \/ ~Exists(t)
      BY <3>1 DEF IsbnLookup, Save, TypeOK
    <3>2. ASSUME NEW s \in Scan, NEW found \in BOOLEAN, Search(s, found)
          PROVE  \A t \in Scan : row'[t].lease = row[t].lease
      BY <3>2 DEF Search, Save, TypeOK, Row
    <3>3. CASE row' = row
      BY <3>3
    <3> QED
      BY <1>7, <3>1, <3>2, <3>3
         DEF Browse, SelectCandidate, ManualEntry, Midnight, tables
  <2> QED BY <1>6, <2>1, <2>2
<1>8. CASE Tick
  BY <1>8, LeaseTick
<1> QED
  BY <1>1, <1>2, <1>3, <1>4, <1>5, <1>7, <1>8 DEF RestStep, DiscardStep

(* Two runs at the model with one photograph: only where one of them has   *)
(* outlived its lease or had it written over.  This is what the lease is   *)
(* worth for every set of views and however long a call takes.             *)
THEOREM LeaseExcludes == Spec => []LeaseHolds
<1>1. Init => LeaseOK
  BY DEF Init, LeaseOK, LeaseHolds, Idle, InCall
<1>2. ScansOK /\ LeaseOK /\ [Next]_vars => LeaseOK'
  <2> SUFFICES ASSUME ScansOK, LeaseOK, [Next]_vars
               PROVE  LeaseOK'
    OBVIOUS
  <2>1. CASE Next
    BY <2>1, NextCases, LeaseArrive, LeaseRun, LeaseConfirm, LeaseRest
       DEF ScansOK
  <2>2. CASE UNCHANGED vars
    BY <2>2 DEF LeaseOK, LeaseHolds, InCall, Uncovered, vars
  <2> QED BY <2>1, <2>2
<1>3. LeaseOK => LeaseHolds
  BY DEF LeaseOK
<1> QED BY <1>1, <1>2, <1>3, ScansInvariant, PTL DEF Spec
=============================================================================
