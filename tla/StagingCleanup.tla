---------------------------- MODULE StagingCleanup ----------------------------
(***************************************************************************)
(* cleanup_staging --apply beside the requests that stage, discard and     *)
(* confirm photographs.                                                    *)
(*                                                                         *)
(* A run reads the names that rows hold, then the discarded rows past the  *)
(* retention, and deletes on the strength of both while requests go on     *)
(* changing rows and files.  It may be killed at any step.                 *)
(*                                                                         *)
(* Time is in days.  Requests and runs take less than one, so a day ends   *)
(* only between them; the requests are here by the step between their file *)
(* and their row, the rest of each is the subject of ScanLifecycle.        *)
(***************************************************************************)
EXTENDS Integers, FiniteSets

CONSTANTS
  Photo,     \* scans with a photograph: the row and its staged file
  Retention  \* --days

(* --days 0, with which a file being uploaded is already past the          *)
(* retention, is left out.                                                 *)
ASSUME RetentionAssumption == Retention \in Nat \ {0}

VARIABLES
  scanRow,  \* ScanResult rows: status, image named, days since updated_at
  file,     \* days since the staged file was written
  copied,   \* photographs with a permanent copy
  halfway,  \* what a request has still to do to the row of a photograph
  sweep,      \* the cleanup run
  due,      \* history: what was reclaimable when the run started
  restored  \* history: photographs confirmed after they had been discarded

cleanupVars == <<scanRow, file, copied, halfway, sweep, due, restored>>

(* Ages past the retention are not told apart.                             *)
Age == 0 .. Retention + 1
None == -1
Waiting == {"awaiting_ocr", "pending"}
Status == Waiting \union {"confirmed", "discarded", "none"}

NoScanRow == [status |-> "none", image |-> FALSE, age |-> 0]
NotRunning == [pc |-> "off", referenced |-> {}, rows |-> {}, files |-> {},
               failed |-> FALSE]

CleanupTypeOK ==
  /\ scanRow \in [Photo -> [status : Status, image : BOOLEAN, age : Age]]
  /\ file \in [Photo -> Age \union {None}]
  /\ copied \subseteq Photo /\ due \subseteq Photo /\ restored \subseteq Photo
  /\ halfway \in [Photo -> {"none", "insert", "confirm", "discard"}]
  /\ sweep \in [pc : {"off", "rows", "row", "walk", "file", "done"},
              referenced : SUBSET Photo, rows : SUBSET Photo,
              files : SUBSET Photo, failed : BOOLEAN]

CleanupInit ==
  /\ scanRow = [p \in Photo |-> NoScanRow]
  /\ file = [p \in Photo |-> None]
  /\ copied = {} /\ due = {} /\ restored = {}
  /\ halfway = [p \in Photo |-> "none"]
  /\ sweep = NotRunning

HasRow(p) == scanRow[p].status # "none"
HasFile(p) == file[p] # None
Old(age) == age > Retention

-----------------------------------------------------------------------------
(* Requests.                                                               *)

Now(p, step) == halfway[p] = step
Then(p, step) == halfway' = [halfway EXCEPT ![p] = step]

(* The name is a random one: no run knows it yet.                          *)
Stage(p) ==
  /\ Now(p, "none") /\ ~HasRow(p) /\ ~HasFile(p)
  /\ p \notin copied \union sweep.referenced \union sweep.rows \union due
  /\ file' = [file EXCEPT ![p] = 0]
  /\ Then(p, "insert")
  /\ UNCHANGED <<scanRow, copied, sweep, due, restored>>

InsertRow(p) ==
  /\ Now(p, "insert")
  /\ scanRow' = [scanRow EXCEPT ![p] =
       [status |-> "awaiting_ocr", image |-> TRUE, age |-> 0]]
  /\ Then(p, "none")
  /\ UNCHANGED <<file, copied, sweep, due, restored>>

(* run_ocr saves over what has come between its refresh and its save, a    *)
(* discard too; not one that a cleanup run found to be old, unless the     *)
(* scan has been confirmed since.                                          *)
OcrMaySave(p) ==
  \/ scanRow[p].status # "discarded"
  \/ scanRow[p].age = 0 /\ (p \in sweep.rows => p \in restored)

(* OCR, a discard that leaves the file, a search: the row is saved.        *)
Touch(p, status) ==
  /\ Now(p, "none") /\ HasRow(p)
  /\ \/ status \in Waiting /\ OcrMaySave(p)
     \/ status \in {"discarded", scanRow[p].status}
  /\ scanRow' = [scanRow EXCEPT ![p].status = status, ![p].age = 0]
  /\ UNCHANGED <<file, copied, halfway, sweep, due, restored>>

(* discard_title_scan deletes the file, confirming moves it into a copy;   *)
(* either then saves the row without its name.                             *)
DropFile(p) ==
  /\ Now(p, "none") /\ HasRow(p)
  /\ scanRow[p].status # "discarded" /\ scanRow[p].image
  /\ file' = [file EXCEPT ![p] = None]
  /\ Then(p, "discard")
  /\ UNCHANGED <<scanRow, copied, sweep, due, restored>>

Promote(p) ==
  /\ Now(p, "none") /\ HasRow(p) /\ scanRow[p].image /\ HasFile(p)
  /\ copied' = copied \union {p}
  /\ file' = [file EXCEPT ![p] = None]
  /\ Then(p, "confirm")
  /\ UNCHANGED <<scanRow, sweep, due, restored>>

(* The save.  confirm_scan takes a discarded scan too and saves it whole,  *)
(* anew if cleanup has deleted the row.                                    *)
SaveRow(p) ==
  /\ halfway[p] \in {"confirm", "discard"}
  /\ Now(p, "discard") => HasRow(p)
  /\ LET status == IF Now(p, "confirm") THEN "confirmed" ELSE "discarded" IN
       scanRow' = [scanRow EXCEPT ![p] =
         [status |-> status, image |-> FALSE, age |-> 0]]
  /\ restored' = IF Now(p, "confirm") /\ scanRow[p].status \notin Waiting
                 THEN restored \union {p} ELSE restored
  /\ Then(p, "none")
  /\ UNCHANGED <<file, copied, sweep, due>>

(* Nothing could be read or copied: confirmed with the name it had.        *)
ConfirmUnpromoted(p) ==
  /\ Now(p, "none") /\ HasRow(p)
  /\ scanRow' = [scanRow EXCEPT ![p].status = "confirmed", ![p].age = 0]
  /\ restored' = IF scanRow[p].status = "discarded"
                 THEN restored \union {p} ELSE restored
  /\ UNCHANGED <<file, copied, halfway, sweep, due>>

Dies(p) ==
  /\ ~Now(p, "none")
  /\ Then(p, "none")
  /\ UNCHANGED <<scanRow, file, copied, sweep, due, restored>>

(* A row deleted through the ORM or the admin leaves its file; a run under *)
(* way may leave that to the next one.                                     *)
DeleteInAdmin(p) ==
  /\ Now(p, "none") /\ HasRow(p)
  /\ scanRow' = [scanRow EXCEPT ![p] = NoScanRow]
  /\ due' = due \ {p}
  /\ UNCHANGED <<file, copied, halfway, sweep, restored>>

DayPasses ==
  /\ sweep.pc = "off"
  /\ \A p \in Photo : Now(p, "none")
  /\ LET Aged(age) == IF Old(age) \/ age = None THEN age ELSE age + 1 IN
       /\ file' = [p \in Photo |-> Aged(file[p])]
       /\ scanRow' = [p \in Photo |->
            IF HasRow(p) THEN [scanRow[p] EXCEPT !.age = Aged(@)] ELSE NoScanRow]
  /\ UNCHANGED <<copied, halfway, sweep, due, restored>>

-----------------------------------------------------------------------------
(* The command.                                                            *)

Proceeds(state) == sweep' = state /\ UNCHANGED <<copied, halfway, restored>>

Reclaimable(p) ==
  \/ scanRow[p].status = "discarded" /\ Old(scanRow[p].age)
  \/ ~(HasRow(p) /\ scanRow[p].image) /\ HasFile(p) /\ Old(file[p])

(* referenced_image_names                                                  *)
ReadReferenced ==
  /\ sweep.pc = "off"
  /\ Proceeds([NotRunning EXCEPT !.pc = "rows",
                 !.referenced = {p \in Photo : scanRow[p].image}])
  /\ due' = {p \in Photo : Reclaimable(p)}
  /\ UNCHANGED <<scanRow, file>>

(* Seeded fault: rows without an image are not looked for.                 *)
ListDiscardedWithImage ==
  /\ sweep.pc = "rows"
  /\ Proceeds([sweep EXCEPT !.pc = "row",
       !.rows = {p \in Photo : /\ scanRow[p].status = "discarded"
                               /\ scanRow[p].image
                               /\ Old(scanRow[p].age)}])
  /\ UNCHANGED <<scanRow, file, due>>

ListDiscarded ==
  /\ sweep.pc = "rows"
  /\ Proceeds([sweep EXCEPT !.pc = "row",
       !.rows = {p \in Photo : /\ scanRow[p].status = "discarded"
                               /\ Old(scanRow[p].age)}])
  /\ UNCHANGED <<scanRow, file, due>>

(* _delete_rows: the file of a listed row, unless storage fails ...        *)
DeleteStagedFile(p, fails) ==
  /\ sweep.pc = "row"
  /\ p \in sweep.rows /\ sweep.files = {}
  /\ fails => HasFile(p)
  /\ file' = IF fails THEN file ELSE [file EXCEPT ![p] = None]
  /\ Proceeds([sweep EXCEPT !.files = {p}, !.failed = @ \/ fails])
  /\ UNCHANGED <<scanRow, due>>

(* ... and the row, by its key, whatever it has become.                    *)
DeleteRow(p) ==
  /\ sweep.pc = "row"
  /\ sweep.files = {p}
  /\ scanRow' = [scanRow EXCEPT ![p] = NoScanRow]
  /\ Proceeds([sweep EXCEPT !.rows = @ \ {p}, !.files = {}])
  /\ UNCHANGED <<file, due>>

(* staging_files                                                           *)
WalkStaging ==
  /\ sweep.pc = "row" /\ sweep.rows = {}
  /\ Proceeds([sweep EXCEPT !.pc = "file", !.files = {p \in Photo : HasFile(p)}])
  /\ UNCHANGED <<scanRow, file, due>>

(* Seeded fault: orphans are deleted whatever their age.                   *)
SweepAnyAge(p) == HasFile(p) /\ p \notin sweep.referenced

Sweepable(p) == HasFile(p) /\ p \notin sweep.referenced /\ Old(file[p])

(* _delete_orphans                                                         *)
SweepFile(p, fails) ==
  /\ sweep.pc = "file"
  /\ p \in sweep.files
  /\ fails => Sweepable(p)
  /\ file' = IF Sweepable(p) /\ ~fails THEN [file EXCEPT ![p] = None] ELSE file
  /\ Proceeds([sweep EXCEPT !.files = @ \ {p}, !.failed = @ \/ fails])
  /\ UNCHANGED <<scanRow, due>>

FinishCleanup ==
  /\ sweep.pc = "file" /\ sweep.files = {}
  /\ Proceeds([sweep EXCEPT !.pc = "done"])
  /\ UNCHANGED <<scanRow, file, due>>

(* The command ends, killed or not.                                        *)
LeaveCleanup ==
  /\ sweep.pc # "off"
  /\ Proceeds(NotRunning)
  /\ due' = {}
  /\ UNCHANGED <<scanRow, file>>

CleanupNext ==
  \/ \E p \in Photo :
       \/ Stage(p) \/ InsertRow(p) \/ DropFile(p) \/ Promote(p) \/ SaveRow(p)
       \/ \E status \in Status : Touch(p, status)
       \/ ConfirmUnpromoted(p) \/ Dies(p) \/ DeleteInAdmin(p)
       \/ \E fails \in BOOLEAN : DeleteStagedFile(p, fails) \/ SweepFile(p, fails)
       \/ DeleteRow(p)
  \/ DayPasses
  \/ ReadReferenced \/ ListDiscarded \/ WalkStaging
  \/ FinishCleanup \/ LeaveCleanup

CleanupSpec == CleanupInit /\ [][CleanupNext]_cleanupVars

-----------------------------------------------------------------------------
Spared(p) ==
  /\ HasFile(p) /\ file'[p] = None =>
       /\ ~Now(p, "insert")
       /\ ~scanRow[p].image \/ scanRow[p].status = "discarded" \/ p \in restored
  /\ scanRow'[p].status # scanRow[p].status =>
       scanRow[p].status = "discarded" \/ p \in restored

(* Cleanup takes nothing somebody may still use: not the file of an upload *)
(* whose row is not there yet, not the file a row names that is not a      *)
(* discarded scan's, not the row of such a scan.  Only a confirmation of a *)
(* scan discarded long ago can be undone by the run it races.              *)
SparesTheLiving ==
  [][\A p \in Photo : sweep' # sweep => Spared(p)]_cleanupVars

(* What was reclaimable when a run started is gone when it ends, whatever  *)
(* requests did meanwhile, if no storage call failed and nobody deleted    *)
(* the row.                                                                *)
Reclaimed ==
  sweep.pc = "done" /\ ~sweep.failed => \A p \in due : ~Reclaimable(p)

-----------------------------------------------------------------------------
(* What makes them inductive.                                              *)

Deleting == sweep.pc = "row" /\ sweep.files # {}

(* A file without its row is a new one, and a request that has still to    *)
(* save the row has deleted its file.                                      *)
HalfwayOK ==
  \A p \in Photo :
    /\ Now(p, "insert") =>
         /\ ~HasRow(p) /\ file[p] \in {None, 0}
         /\ p \notin sweep.rows \union sweep.referenced \union due
    /\ halfway[p] \in {"confirm", "discard"} => ~HasFile(p)
    /\ ~HasRow(p) => ~scanRow[p].image

(* What a run knows of a row or a file is still true of it, or of a scan   *)
(* confirmed since.                                                        *)
SweepOK ==
  /\ sweep.pc # "row" => sweep.rows = {}
  /\ sweep.pc \notin {"row", "file"} => sweep.files = {}
  /\ Deleting => sweep.files \subseteq sweep.rows
  /\ \A p \in Photo :
       /\ p \in sweep.rows =>
            scanRow[p].status \in {"discarded", "none"} \/ p \in restored
       /\ sweep.pc # "off" /\ scanRow[p].image =>
            p \in sweep.referenced \/ file[p] \in {None, 0}

(* What was due is either gone or still to be come to.                     *)
DueOK ==
  /\ sweep.pc = "off" => due = {}
  /\ sweep.pc \in {"row", "file", "done"} =>
       \A p \in Photo : scanRow[p].status = "discarded" /\ Old(scanRow[p].age)
                          => p \in sweep.rows
  /\ ~sweep.failed =>
       /\ Deleting => \A p \in sweep.files : ~HasFile(p)
       /\ \A p \in due \intersect sweep.referenced :
            ~scanRow[p].image => ~HasFile(p)
       /\ \A p \in due \ sweep.referenced :
            /\ ~scanRow[p].image
            /\ sweep.pc \in {"file", "done"} /\ HasFile(p) =>
                 p \in sweep.files \/ ~Old(file[p])

(* The inductive invariant.                                                *)
CleanupOK == CleanupTypeOK /\ HalfwayOK /\ SweepOK /\ DueOK
=============================================================================
