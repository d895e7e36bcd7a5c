---------------------------- MODULE ScanLifecycle ----------------------------
(***************************************************************************)
(* The life of a scan: the ScanResult rows of the ingest application, the  *)
(* staged photographs beside them, and the requests that read and write    *)
(* both.                                                                   *)
(*                                                                         *)
(* gunicorn runs threads in two worker processes over one SQLite database  *)
(* in autocommit mode, so nothing groups the statements of a request: each *)
(* query, each storage call and each vision call is a step of its own and  *)
(* the steps of different requests interleave.  A request works on the row *)
(* it has read (seen) until it reads again.                                *)
(*                                                                         *)
(* Time is relative.  A lease is its age in ticks; a tick makes every live *)
(* lease, and every copy of one, a tick older.                             *)
(***************************************************************************)
EXTENDS Integers, FiniteSets

CONSTANTS
  PhotoScans,    \* scans made by title_page_upload (scan_type "ocr")
  IsbnScans,     \* scans made by isbn_lookup_view (scan_type "isbn")
  Request,       \* threads that serve requests
  Session,       \* browser sessions
  Record,        \* catalogue records that candidates can become
  Endpoints,     \* the views in play; all of AllEndpoints in the full model
  Cap,           \* OCR_DAILY_CALL_CAP
  LeaseTimeout,  \* OCR_LEASE_TIMEOUT, in ticks
  MaxCall,       \* the longest a run holds its lease, in ticks
  MaxLost,       \* bound: charged calls that never reach APIUsageLog
  NoScan, NoRecord, NoSession

Scan == PhotoScans \union IsbnScans

AllEndpoints == {"run_ocr", "discard_title_scan", "confirm_candidate",
                 "confirm_scan", "discard_scan", "search", "manual_entry"}

NoLease == -1
ByHand == "by_hand"

ASSUME ScansAssumption ==
  /\ PhotoScans \intersect IsbnScans = {}
  /\ NoScan \notin Scan
  /\ NoRecord \notin Record
  /\ NoSession \notin Session
ASSUME RequestAssumption == IsFiniteSet(Request) /\ Request # {}
ASSUME BoundsAssumption ==
  /\ Cap \in Nat
  /\ LeaseTimeout \in Nat
  /\ MaxCall \in Nat
  /\ MaxLost \in Nat
ASSUME EndpointsAssumption == Endpoints \subseteq AllEndpoints

VARIABLES
  row,        \* the ScanResult table
  staged,     \* scans whose photograph is a file under staging/
  titlePage,  \* TitlePageImage: <<record, scan>> pairs of permanent copies
  origin,     \* the scan each created record is to close, or ByHand
  logged,     \* APIUsageLog rows since midnight
  session,    \* the candidate and the scan each browser session holds
  req,        \* what each thread is doing
  lost,       \* history: charged calls that will never reach APIUsageLog
  dropped,    \* history: photographs discard_title_scan deleted
  stripped    \* history: runs whose lease another request has written over

tables == <<row, staged, titlePage, origin, session>>
usage == <<logged, lost>>
history == <<dropped, stripped>>
vars == <<row, staged, titlePage, origin, logged, session, req,
          lost, dropped, stripped>>

Status == {"absent", "awaiting_ocr", "pending", "confirmed", "discarded"}
Lease == -1 .. LeaseTimeout + 1

(* image: the row names a file.  reading: ocr_output is set.  cands: the   *)
(* candidate list is not empty.                                            *)
Row == [status: Status, image: BOOLEAN, reading: BOOLEAN, lease: Lease,
        cands: BOOLEAN, record: Record \union {NoRecord}]

(* candidate: the session holds one.  scan: candidate_scan_id.             *)
Choice == [candidate: BOOLEAN, scan: Scan \union {NoScan}]

NoChoice == [candidate |-> FALSE, scan |-> NoScan]

NoRow == [status |-> "absent", image |-> FALSE, reading |-> FALSE,
          lease |-> NoLease, cands |-> FALSE, record |-> NoRecord]

Step == {"idle", "insert",
         "check_cap", "take_lease", "open_photo", "calling",
         "log_usage", "refresh", "write_result",
         "delete_photo", "mark_discarded",
         "create_record", "reread", "read_photo", "save_copy",
         "delete_staged", "mark_confirmed", "pop_session",
         "save_discard"}

RequestState == [pc: Step, scan: Scan \union {NoScan}, seen: Row,
                 session: Session \union {NoSession},
                 record: Record \union {NoRecord},
                 elapsed: 0 .. MaxCall, reading: BOOLEAN]

Idle == [pc |-> "idle", scan |-> NoScan, seen |-> NoRow,
         session |-> NoSession, record |-> NoRecord,
         elapsed |-> 0, reading |-> FALSE]

TypeOK ==
  /\ row \in [Scan -> Row]
  /\ staged \subseteq PhotoScans
  /\ titlePage \subseteq Record \X PhotoScans
  /\ origin \in [Record -> Scan \union {NoScan, ByHand}]
  /\ session \in [Session -> Choice]
  /\ req \in [Request -> RequestState]
  /\ logged \in Nat /\ lost \in Nat
  /\ dropped \subseteq PhotoScans
  /\ stripped \subseteq Request

Init ==
  /\ row = [s \in Scan |-> NoRow]
  /\ staged = {}
  /\ titlePage = {}
  /\ origin = [r \in Record |-> NoScan]
  /\ session = [d \in Session |-> NoChoice]
  /\ req = [w \in Request |-> Idle]
  /\ logged = 0 /\ lost = 0
  /\ dropped = {} /\ stripped = {}

-----------------------------------------------------------------------------
(* Moves of a request.                                                     *)

Exists(s) == row[s].status # "absent"

At(w, step) == req[w].pc = step

Becomes(w, state) == req' = [req EXCEPT ![w] = state]

Save(s, newRow) == row' = [row EXCEPT ![s] = newRow]

Begin(e, w, s) ==
  /\ e \in Endpoints
  /\ At(w, "idle")
  /\ Exists(s)

(* Start serving s.  copy is what the request will still use of the row as *)
(* it has just read it.                                                    *)
Serve(w, s, copy, step) ==
  Becomes(w, [req[w] EXCEPT !.pc = step, !.scan = s, !.seen = copy])

Goto(w, step) == Becomes(w, [req[w] EXCEPT !.pc = step])

Done(w) == Becomes(w, Idle)

(* A new record, of a confirmation that is to close the scan s.            *)
CreateRecord(r, s) ==
  /\ origin[r] = NoScan
  /\ origin' = [origin EXCEPT ![r] = s]

(* The runs between taking the lease of a photograph and giving it back.   *)
InCall(w) == req[w].pc \in {"open_photo", "calling"}

CallsOn(s) == {w \in Request : InCall(w) /\ req[w].scan = s}

(* A run that its lease no longer covers: it is past the timeout, or       *)
(* another request has written over the lease.                             *)
Uncovered(w) == req[w].elapsed > LeaseTimeout \/ w \in stripped

Leaves(w) == stripped' = stripped \ {w}

-----------------------------------------------------------------------------
(* title_page_upload, upload phase.  ImageField stores the file before the *)
(* INSERT, so a request that dies in between leaves a file and no row.     *)

Upload(w, s) ==
  /\ At(w, "idle")
  /\ ~Exists(s)
  /\ s \notin staged \union dropped
  /\ staged' = staged \union {s}
  /\ Becomes(w, [req[w] EXCEPT !.pc = "insert", !.scan = s])
  /\ UNCHANGED <<row, titlePage, origin, session, usage, history>>

InsertScan(w) ==
  /\ At(w, "insert")
  /\ Save(req[w].scan,
          [NoRow EXCEPT !.status = "awaiting_ocr", !.image = TRUE])
  /\ Done(w)
  /\ UNCHANGED <<staged, titlePage, origin, session, usage, history>>

(* isbn_lookup_view, no scan to reuse: one INSERT after the lookup, with   *)
(* whatever the catalogues returned.                                       *)
IsbnLookup(s, found) ==
  /\ ~Exists(s)
  /\ Save(s, [NoRow EXCEPT !.status = "pending", !.cands = found])
  /\ UNCHANGED <<staged, titlePage, origin, session, usage, req, history>>

(* A repeated search stores its result in the scan it was launched from:   *)
(* title_page_upload with one UPDATE whatever the status, isbn_lookup_view *)
(* with a save of that one field of a scan it read as pending, by now in   *)
(* any status.                                                             *)
Search(s, found) ==
  /\ "search" \in Endpoints
  /\ Exists(s)
  /\ Save(s, [row[s] EXCEPT !.cands = found])
  /\ UNCHANGED <<staged, titlePage, origin, session, usage, req, history>>

-----------------------------------------------------------------------------
(* run_ocr.                                                                *)

RunOcr(w, s) ==
  /\ Begin("run_ocr", w, s)
  /\ row[s].image
  /\ row[s].status # "discarded"
  /\ Serve(w, s, NoRow, "check_cap")
  /\ UNCHANGED <<tables, usage, history>>

(* Seeded fault: the cap compared off by one.                              *)
CheckCapOffByOne(w) ==
  /\ At(w, "check_cap")
  /\ IF logged > Cap THEN Done(w) ELSE Goto(w, "take_lease")
  /\ UNCHANGED <<tables, usage, history>>

CheckCap(w) ==
  /\ At(w, "check_cap")
  /\ IF logged >= Cap THEN Done(w) ELSE Goto(w, "take_lease")
  /\ UNCHANGED <<tables, usage, history>>

(* Seeded faults for the runs: the expiry left out, and off by one.        *)
LeaseFreeNoExpiry(lease) == lease = NoLease
LeaseFreeTooSoon(lease) == lease = NoLease \/ lease >= LeaseTimeout

(* The condition of the conditional UPDATE.                                *)
LeaseFree(lease) == lease = NoLease \/ lease > LeaseTimeout

TakeLease(w) ==
  /\ At(w, "take_lease")
  /\ LET s == req[w].scan IN
       IF LeaseFree(row[s].lease)
       THEN /\ Save(s, [row[s] EXCEPT !.lease = 0])
            /\ Goto(w, "open_photo")
       ELSE Done(w) /\ UNCHANGED row
  /\ UNCHANGED <<staged, titlePage, origin, session, usage, history>>

(* The finally clause: by primary key, whoever holds the lease by now.     *)
ReleaseLease(w) ==
  LET s == req[w].scan IN
    /\ Save(s, [row[s] EXCEPT !.lease = NoLease])
    /\ stripped' = (IF Uncovered(w) THEN stripped \union CallsOn(s)
                                    ELSE stripped) \ {w}

OpenPhoto(w) ==
  /\ At(w, "open_photo")
  /\ req[w].scan \in staged
  /\ Goto(w, "calling")
  /\ UNCHANGED <<tables, usage, history>>

(* The file is gone: open() raises through the finally clause.             *)
OpenFails(w) ==
  /\ At(w, "open_photo")
  /\ req[w].scan \notin staged
  /\ ReleaseLease(w)
  /\ Done(w)
  /\ UNCHANGED <<staged, titlePage, origin, session, usage, dropped>>

(* A response came back and is charged, with a usable reading or without.  *)
CallAnswered(w, reading) ==
  /\ At(w, "calling")
  /\ ReleaseLease(w)
  /\ Becomes(w, [req[w] EXCEPT !.pc = "log_usage", !.elapsed = 0,
                        !.reading = reading])
  /\ UNCHANGED <<staged, titlePage, origin, session, usage, dropped>>

(* No response: (None, None), nothing charged and nothing to log.          *)
CallFailed(w) ==
  /\ At(w, "calling")
  /\ ReleaseLease(w)
  /\ Becomes(w, [req[w] EXCEPT !.pc = "refresh", !.elapsed = 0])
  /\ UNCHANGED <<staged, titlePage, origin, session, usage, dropped>>

LogUsage(w) ==
  /\ At(w, "log_usage")
  /\ logged' = logged + 1
  /\ Goto(w, "refresh")
  /\ UNCHANGED <<tables, lost, history>>

(* The INSERT raises and the exception is swallowed.                       *)
LogFails(w) ==
  /\ At(w, "log_usage")
  /\ lost < MaxLost
  /\ lost' = lost + 1
  /\ Goto(w, "refresh")
  /\ UNCHANGED <<tables, logged, history>>

(* refresh_from_db and the tests made on what it read.                     *)
Refresh(w) ==
  /\ At(w, "refresh")
  /\ LET r == row[req[w].scan] IN
       IF \/ r.status = "discarded"
          \/ ~r.image
          \/ ~req[w].reading /\ r.reading
       THEN Done(w)
       ELSE Goto(w, "write_result")
  /\ UNCHANGED <<tables, usage, history>>

WriteResult(w) ==
  /\ At(w, "write_result")
  /\ Save(req[w].scan,
          [row[req[w].scan] EXCEPT
             !.status = IF req[w].reading THEN "pending" ELSE "awaiting_ocr",
             !.reading = req[w].reading])
  /\ Done(w)
  /\ UNCHANGED <<staged, titlePage, origin, session, usage, history>>

-----------------------------------------------------------------------------
(* discard_title_scan.                                                     *)

DiscardTitleScan(w, s) ==
  /\ Begin("discard_title_scan", w, s)
  /\ row[s].status # "discarded"
  /\ Serve(w, s, NoRow, IF row[s].image THEN "delete_photo" ELSE "mark_discarded")
  /\ UNCHANGED <<tables, usage, history>>

DeletePhoto(w) ==
  /\ At(w, "delete_photo")
  /\ staged' = staged \ {req[w].scan}
  /\ dropped' = dropped \union {req[w].scan}
  /\ Goto(w, "mark_discarded")
  /\ UNCHANGED <<row, titlePage, origin, session, usage, stripped>>

MarkDiscarded(w) ==
  /\ At(w, "mark_discarded")
  /\ Save(req[w].scan,
          [row[req[w].scan] EXCEPT !.status = "discarded", !.image = FALSE])
  /\ Done(w)
  /\ UNCHANGED <<staged, titlePage, origin, session, usage, history>>

-----------------------------------------------------------------------------
(* discard_scan: reads the row, then saves every field of it.              *)

(* save() without update_fields: the lease as it was when the row was read *)
(* goes over the lease of whoever has taken or given back one since.       *)
SaveWhole(w, newRow) ==
  LET s == req[w].scan IN
    /\ Save(s, newRow)
    /\ stripped' = IF newRow.lease = row[s].lease THEN stripped
                   ELSE stripped \union CallsOn(s)

DiscardScan(w, s) ==
  /\ Begin("discard_scan", w, s)
  /\ Serve(w, s, row[s], "save_discard")
  /\ UNCHANGED <<tables, usage, history>>

SaveDiscard(w) ==
  /\ At(w, "save_discard")
  /\ SaveWhole(w, [req[w].seen EXCEPT !.status = "discarded"])
  /\ Done(w)
  /\ UNCHANGED <<staged, titlePage, origin, session, usage, dropped>>

-----------------------------------------------------------------------------
(* The session's way to a record: select_candidate, then confirm_candidate *)
(* or manual_entry.                                                        *)

(* select_candidate: the page lists candidates the scan has had, and an    *)
(* index past the list it has by now leaves the candidate that was there.  *)
(* The scan is stored either way.                                          *)
SelectCandidate(d, s, found) ==
  /\ {"confirm_candidate", "manual_entry"} \intersect Endpoints # {}
  /\ Exists(s)
  /\ found => row[s].cands
  /\ session' = [session EXCEPT ![d] =
                   [candidate |-> found \/ @.candidate, scan |-> s]]
  /\ UNCHANGED <<row, staged, titlePage, origin, usage, req, history>>

(* manual_entry takes the candidate out of the session and makes a record  *)
(* of it; the scan stays there and is not closed.  If a statement after    *)
(* the record's INSERT raises, the session is not saved.                   *)
ManualEntry(d, r, fails) ==
  /\ "manual_entry" \in Endpoints
  /\ session[d].candidate
  /\ CreateRecord(r, ByHand)
  /\ session' = [session EXCEPT ![d].candidate = fails]
  /\ UNCHANGED <<row, staged, titlePage, usage, req, history>>

(* confirm_candidate: the scan to close is the one in the session, whoever *)
(* listed the candidate.                                                   *)
ConfirmCandidate(w, d, r) ==
  /\ "confirm_candidate" \in Endpoints
  /\ At(w, "idle")
  /\ session[d].candidate
  /\ CreateRecord(r, session[d].scan)
  /\ Becomes(w, [req[w] EXCEPT !.pc = "reread", !.scan = session[d].scan,
                        !.session = d, !.record = r])
  /\ UNCHANGED <<row, staged, titlePage, session, usage, history>>

Promotable(s, r) == s \in PhotoScans /\ r.image

(* _close_scan_for_record reads the scan itself and leaves a closed one.   *)
Reread(w) ==
  /\ At(w, "reread")
  /\ LET s == req[w].scan
         step == IF row[s].status \in {"discarded", "confirmed"}
                 THEN "pop_session"
                 ELSE IF Promotable(s, row[s])
                 THEN "read_photo"
                 ELSE "mark_confirmed"
     IN Serve(w, s, [NoRow EXCEPT !.image = row[s].image], step)
  /\ UNCHANGED <<tables, usage, history>>

PopSession(w) ==
  /\ At(w, "pop_session")
  /\ session' = [session EXCEPT ![req[w].session] = NoChoice]
  /\ Done(w)
  /\ UNCHANGED <<row, staged, titlePage, origin, usage, history>>

-----------------------------------------------------------------------------
(* confirm_scan: whatever the status, the candidates the row held.         *)

ConfirmScan(w, s) ==
  /\ Begin("confirm_scan", w, s)
  /\ row[s].cands
  /\ Serve(w, s, row[s], "create_record")
  /\ UNCHANGED <<tables, usage, history>>

CreateFromScan(w, r) ==
  /\ At(w, "create_record")
  /\ CreateRecord(r, req[w].scan)
  /\ Becomes(w, [req[w] EXCEPT
       !.pc = IF Promotable(req[w].scan, req[w].seen)
              THEN "read_photo" ELSE "mark_confirmed",
       !.record = r])
  /\ UNCHANGED <<row, staged, titlePage, session, usage, history>>

-----------------------------------------------------------------------------
(* _attach_title_page_image, for both ways to confirm: read the staged     *)
(* file, save the permanent copy, delete the staged one.  Whatever raises  *)
(* is swallowed with the image field kept.                                 *)

ForgetImage(w) ==
  Becomes(w, [req[w] EXCEPT !.pc = "mark_confirmed",
                            !.seen = [req[w].seen EXCEPT !.image = FALSE]])

(* Seeded fault: the staged file deleted as soon as it has been read.      *)
ReadPhotoMoving(w) ==
  /\ At(w, "read_photo")
  /\ staged' = staged \ {req[w].scan}
  /\ Goto(w, IF req[w].scan \in staged THEN "save_copy" ELSE "mark_confirmed")
  /\ UNCHANGED <<row, titlePage, origin, session, usage, history>>

ReadPhoto(w) ==
  /\ At(w, "read_photo")
  /\ Goto(w, IF req[w].scan \in staged THEN "save_copy" ELSE "mark_confirmed")
  /\ UNCHANGED <<tables, usage, history>>

SaveCopy(w) ==
  /\ At(w, "save_copy")
  /\ titlePage' = titlePage \union {<<req[w].record, req[w].scan>>}
  /\ Goto(w, "delete_staged")
  /\ UNCHANGED <<row, staged, origin, session, usage, history>>

DeleteStaged(w) ==
  /\ At(w, "delete_staged")
  /\ staged' = staged \ {req[w].scan}
  /\ ForgetImage(w)
  /\ UNCHANGED <<row, titlePage, origin, session, usage, history>>

(* Seeded fault: the image field cleared outside the try.                  *)
StorageFailsForgetting(w) ==
  /\ req[w].pc \in {"read_photo", "save_copy", "delete_staged"}
  /\ ForgetImage(w)
  /\ UNCHANGED <<tables, usage, history>>

StorageFails(w) ==
  /\ req[w].pc \in {"read_photo", "save_copy", "delete_staged"}
  /\ Goto(w, "mark_confirmed")
  /\ UNCHANGED <<tables, usage, history>>

(* Seeded fault: created_record missing from update_fields.                *)
MarkConfirmedNoRecord(w) ==
  /\ At(w, "mark_confirmed")
  /\ LET s == req[w].scan
         byCandidate == req[w].session # NoSession
         base == IF byCandidate THEN row[s] ELSE req[w].seen
     IN /\ SaveWhole(w, [base EXCEPT !.status = "confirmed",
                                     !.image = req[w].seen.image])
        /\ IF byCandidate THEN Goto(w, "pop_session") ELSE Done(w)
  /\ UNCHANGED <<staged, titlePage, origin, session, usage, dropped>>

(* _close_scan_for_record saves the fields it names; confirm_scan saves    *)
(* the whole row it read.                                                  *)
MarkConfirmed(w) ==
  /\ At(w, "mark_confirmed")
  /\ LET s == req[w].scan
         byCandidate == req[w].session # NoSession
         base == IF byCandidate THEN row[s] ELSE req[w].seen
     IN /\ SaveWhole(w, [base EXCEPT !.status = "confirmed",
                                     !.record = req[w].record,
                                     !.image = req[w].seen.image])
        /\ IF byCandidate THEN Goto(w, "pop_session") ELSE Done(w)
  /\ UNCHANGED <<staged, titlePage, origin, session, usage, dropped>>

-----------------------------------------------------------------------------
(* What happens to requests rather than in them.                           *)

(* The worker is killed, or a statement raises: no later step runs, the    *)
(* finally clause of a killed call included.                               *)
Die(w) ==
  /\ ~At(w, "idle")
  /\ ~At(w, "log_usage")
  /\ Done(w) /\ Leaves(w)
  /\ UNCHANGED <<tables, usage, dropped>>

(* Death after the provider has charged the call and before it is logged.  *)
DieCharged(w) ==
  /\ req[w].pc \in {"calling", "log_usage"}
  /\ lost < MaxLost
  /\ lost' = lost + 1
  /\ Done(w) /\ Leaves(w)
  /\ UNCHANGED <<tables, logged, dropped>>

(* Ages past the timeout are not told apart.                               *)
Aged(lease) ==
  IF lease = NoLease \/ lease > LeaseTimeout THEN lease ELSE lease + 1

AgedRow(r) == [r EXCEPT !.lease = Aged(r.lease)]

(* A tick passes.  No run holds its lease for more than MaxCall of them.   *)
Tick ==
  /\ \A w \in Request : InCall(w) => req[w].elapsed < MaxCall
  /\ row' = [s \in Scan |-> AgedRow(row[s])]
  /\ req' = [w \in Request |->
       [req[w] EXCEPT
          !.seen = AgedRow(req[w].seen),
          !.elapsed = IF InCall(w) THEN req[w].elapsed + 1
                                   ELSE req[w].elapsed]]
  /\ UNCHANGED <<staged, titlePage, origin, session, usage, history>>

(* calls_today counts from local midnight.                                 *)
Midnight ==
  /\ logged' = 0 /\ lost' = 0
  /\ UNCHANGED <<tables, req, history>>

-----------------------------------------------------------------------------
RunStep(w) ==
  \/ CheckCap(w) \/ TakeLease(w) \/ OpenPhoto(w) \/ OpenFails(w)
  \/ \E reading \in BOOLEAN : CallAnswered(w, reading)
  \/ CallFailed(w) \/ LogUsage(w) \/ LogFails(w)
  \/ Refresh(w) \/ WriteResult(w)

ConfirmStep(w) ==
  \/ \E r \in Record : CreateFromScan(w, r)
  \/ Reread(w) \/ ReadPhoto(w) \/ SaveCopy(w) \/ DeleteStaged(w)
  \/ StorageFails(w) \/ MarkConfirmed(w) \/ PopSession(w)

DiscardStep(w) == DeletePhoto(w) \/ MarkDiscarded(w) \/ SaveDiscard(w)

Proceed(w) == InsertScan(w) \/ RunStep(w) \/ ConfirmStep(w) \/ DiscardStep(w)

Arrive(w) ==
  \/ \E s \in PhotoScans : Upload(w, s)
  \/ \E s \in Scan : \/ RunOcr(w, s) \/ DiscardTitleScan(w, s)
                     \/ DiscardScan(w, s) \/ ConfirmScan(w, s)
  \/ \E d \in Session, r \in Record : ConfirmCandidate(w, d, r)

Browse ==
  \/ \E s \in IsbnScans, found \in BOOLEAN : IsbnLookup(s, found)
  \/ \E s \in Scan, found \in BOOLEAN : Search(s, found)
  \/ \E d \in Session, s \in Scan, found \in BOOLEAN :
       SelectCandidate(d, s, found)
  \/ \E d \in Session, r \in Record, fails \in BOOLEAN :
       ManualEntry(d, r, fails)

Next ==
  \/ \E w \in Request : Arrive(w) \/ Proceed(w) \/ Die(w) \/ DieCharged(w)
  \/ Browse
  \/ Tick
  \/ Midnight

Spec == Init /\ [][Next]_vars

(* Time passes and gunicorn keeps running the threads it has started; no   *)
(* user is obliged to click anything.                                      *)
FairSpec ==
  /\ Spec
  /\ WF_vars(Tick)
  /\ \A w \in Request : WF_vars(Proceed(w))
-----------------------------------------------------------------------------
(* Safety.                                                                 *)

(* Two runs at the model with one photograph, the second vision call that  *)
(* _take_ocr_lease exists to stop: only where one of them has outlived its *)
(* lease or had it written over, by a whole-row save or by a run that was  *)
(* itself no longer covered when it gave "its" lease back.                 *)
LeaseHolds ==
  \A v, w \in Request :
    /\ v # w
    /\ InCall(v) /\ InCall(w)
    /\ req[v].scan = req[w].scan
    => Uncovered(v) \/ Uncovered(w)

(* The calls charged since midnight; one answered before midnight and      *)
(* logged after it belongs to the new day, as it does in APIUsageLog.      *)
Charged == logged + lost + Cardinality({w \in Request : At(w, "log_usage")})

(* The spend of a day passes the cap by no more than the other threads can *)
(* have in flight when the last permitted call is let through, plus the    *)
(* calls APIUsageLog never heard of: run_ocr checks the cap long before it *)
(* logs the call.                                                          *)
SpendBounded == Charged <= Cap + Cardinality(Request) - 1 + lost

(* The photograph has a permanent copy, with some record.                  *)
Kept(s) == \E r \in Record : <<r, s>> \in titlePage

(* A photograph goes missing only by discard_title_scan: whatever dies or  *)
(* fails while it is promoted, the staged file or a permanent copy is      *)
(* there.                                                                  *)
PhotoKept ==
  \A s \in PhotoScans : Exists(s) =>
    \/ s \in staged
    \/ s \in dropped
    \/ Kept(s)

(* The custody of a photograph, read off the stores.                       *)
CustodyOf(s) ==
  CASE Kept(s) -> "kept"
    [] ~Kept(s) /\ s \in staged -> "staged"
    [] ~Kept(s) /\ s \notin staged /\ s \in dropped -> "dropped"
    [] OTHER -> "none"

(* The stores implement the custody of photographs: what is kept stays     *)
(* kept, and a staged photograph leaves staging only into a permanent copy *)
(* or by discard_title_scan.                                               *)
Promise == INSTANCE PhotoCustody
  WITH Photo <- PhotoScans, custody <- [s \in PhotoScans |-> CustodyOf(s)]

PromiseKept == Promise!Spec

(* A staged file is always named by its row, so that no request turns a    *)
(* photograph into an orphan that cleanup_staging would sweep.             *)
NoStrandedFile ==
  \A s \in PhotoScans : Exists(s) /\ s \in staged => row[s].image

(* A confirmed scan points at the record of a confirmation that was to     *)
(* close it, so that no two scans point at one record: however stale the   *)
(* copy of the row that a save wrote back, and whatever the session held.  *)
(* The record need not be of the scan's own candidates: ClosedWithListed   *)
(* of CandidateSession says when it is.                                    *)
ConfirmedHasRecord ==
  \A s \in Scan : row[s].status = "confirmed" =>
    row[s].record # NoRecord /\ origin[row[s].record] = s

(* Liveness: a lease does not outlive its run for ever, a dead run's       *)
(* included: the scan comes back to where a device can run OCR on it.      *)
LeaseComesBack ==
  \A s \in PhotoScans :
    row[s].lease # NoLease ~> LeaseFree(row[s].lease)

-----------------------------------------------------------------------------
(* What makes the safety invariants inductive.                             *)

PhotoStep == {"insert", "check_cap", "take_lease", "open_photo", "calling",
              "log_usage", "refresh", "write_result", "delete_photo",
              "read_photo", "save_copy", "delete_staged"}

PromoteStep == {"read_photo", "save_copy", "delete_staged", "mark_confirmed"}

(* Steps that end in a save of the image field as the request read it.     *)
StaleStep == PromoteStep \union {"create_record", "save_discard"}

(* An idle thread keeps nothing of the request it served.                  *)
IdleOK == \A w \in Request : At(w, "idle") => req[w] = Idle

(* What a request has at hand at each step: a scan that has a row (a fresh *)
(* file and no row yet, during an upload), a photograph wherever one is    *)
(* touched, and the record and the session it confirms for.                *)
HandsOK ==
  /\ \A s \in IsbnScans : ~row[s].image
  /\ \A d \in Session :
       /\ session[d].candidate => session[d].scan # NoScan
       /\ session[d].scan # NoScan => Exists(session[d].scan)
  /\ \A w \in Request :
       /\ ~At(w, "idle") => req[w].scan \in Scan
       /\ req[w].scan \in IsbnScans => ~req[w].seen.image
       /\ req[w].pc \in PhotoStep => req[w].scan \in PhotoScans
       /\ ~At(w, "idle") /\ ~At(w, "insert") => Exists(req[w].scan)
       /\ req[w].pc \in {"reread", "pop_session"} =>
            req[w].session \in Session
       /\ req[w].pc \in PromoteStep \union {"reread"} =>
            /\ req[w].record \in Record
            /\ origin[req[w].record] = req[w].scan

(* A file that waits for its row is in staging and waits for one request.  *)
UploadsOK ==
  \A w \in Request : At(w, "insert") =>
    /\ req[w].scan \in staged
    /\ ~Exists(req[w].scan)
    /\ \A v \in Request :
         v # w /\ At(v, "insert") => req[v].scan # req[w].scan

(* The staged file is deleted after the permanent copy has been written.   *)
CopyFirst ==
  \A w \in Request :
    At(w, "delete_staged") => <<req[w].record, req[w].scan>> \in titlePage

(* No request is about to save a row without the name of a file that is    *)
(* still staged.                                                           *)
ImagesOK ==
  \A w \in Request : req[w].scan \in staged =>
    /\ req[w].pc \in StaleStep => req[w].seen.image
    /\ ~At(w, "mark_discarded")

(* The inductive invariant.                                                *)
ScansOK ==
  /\ TypeOK
  /\ IdleOK
  /\ HandsOK
  /\ UploadsOK
  /\ CopyFirst
  /\ PhotoKept
  /\ ImagesOK
  /\ NoStrandedFile
  /\ ConfirmedHasRecord

(* The part of SpendBounded that is inductive: what is in flight past the  *)
(* cap check counts before it is logged.                                   *)
PastCapCheck ==
  {w \in Request :
     req[w].pc \in {"take_lease", "open_photo", "calling", "log_usage"}}

SpendOK ==
  logged + Cardinality(PastCapCheck) <= Cap + Cardinality(Request) - 1

(* While a lease covers its run, its age is the time the call has taken.   *)
LeaseOK ==
  /\ stripped \subseteq {w \in Request : InCall(w)}
  /\ \A w \in Request :
       /\ ~InCall(w) => req[w].elapsed = 0
       /\ InCall(w) /\ ~Uncovered(w) =>
            row[req[w].scan].lease = req[w].elapsed
  /\ LeaseHolds

-----------------------------------------------------------------------------
(* What the comments say and the code does not do.                         *)

(* run_ocr: "Returns 409 ... if another device already has a run in flight *)
(* on this scan"; asked here of runs inside their time only.               *)
OneCallPerPhoto ==
  \A v, w \in Request :
    /\ v # w
    /\ InCall(v) /\ InCall(w)
    /\ req[v].scan = req[w].scan
    => \/ req[v].elapsed > LeaseTimeout
       \/ req[w].elapsed > LeaseTimeout

(* _close_scan_for_record: a discarded scan is not resurrected.            *)
DiscardedStaysDiscarded ==
  [][\A s \in Scan :
       row[s].status = "discarded" => row'[s].status = "discarded"]_row
=============================================================================
