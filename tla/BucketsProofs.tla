---------------------------- MODULE BucketsProofs -----------------------------
(***************************************************************************)
(* Proofs about the two programs that keep a bucket in order:              *)
(* cleanup_staging, for any number of photographs and any retention, what  *)
(* it spares and what it reclaims; and snapshot_db, for any number of      *)
(* runs, days and writes, what the bucket and the success ping promise.    *)
(***************************************************************************)
EXTENDS StagingCleanup, Snapshots, TLAPS

(***************************************************************************)
(*                            cleanup_staging                              *)
(***************************************************************************)

LEMMA Ages ==
  /\ 0 \in Age /\ None \notin Age /\ ~Old(0)
  /\ \A age \in Age : ~Old(age) => age + 1 \in Age
  BY RetentionAssumption DEF Age, None, Old

(* A row that is saved again.                                              *)
LEMMA Resaved ==
  ASSUME CleanupTypeOK, NEW p \in Photo, NEW status \in Status,
         scanRow' = [scanRow EXCEPT ![p].status = status, ![p].age = 0]
  PROVE  /\ scanRow' \in [Photo -> [status : Status, image : BOOLEAN, age : Age]]
         /\ scanRow'[p].status = status /\ scanRow'[p].age = 0
         /\ scanRow'[p].image = scanRow[p].image
         /\ \A q \in Photo \ {p} : scanRow'[q] = scanRow[q]
  BY Ages DEF CleanupTypeOK

(* The row is saved again with the status new.                             *)
SavedAgain(p, new) ==
  /\ scanRow'[p].status = new /\ scanRow'[p].age = 0
  /\ scanRow'[p].image = scanRow[p].image
  /\ \A q \in Photo \ {p} : scanRow'[q] = scanRow[q]
  /\ HasRow(p) /\ Now(p, "none")
  /\ UNCHANGED <<file, copied, halfway, sweep, due>>
  /\ restored \subseteq restored'
  /\ scanRow[p].status = "discarded" /\ new # "discarded"
       => p \notin sweep.rows \/ p \in restored'

LEMMA Retouched ==
  ASSUME CleanupTypeOK, NEW p \in Photo,
         (\E status \in Status : Touch(p, status)) \/ ConfirmUnpromoted(p)
  PROVE  \E new \in Status \ {"none"} : SavedAgain(p, new)
<1>1. ASSUME NEW status \in Status, Touch(p, status)
      PROVE  \E new \in Status \ {"none"} : SavedAgain(p, new)
  <2>1. status \in Status \ {"none"}
    BY <1>1 DEF Touch, Waiting, HasRow
  <2>2. scanRow' = [scanRow EXCEPT ![p].status = status, ![p].age = 0]
    BY <1>1 DEF Touch
  <2>3. scanRow[p].status = "discarded" /\ status # "discarded"
          => p \notin sweep.rows \/ p \in restored
    BY <1>1 DEF Touch, OcrMaySave
  <2> QED BY <1>1, <2>1, <2>2, <2>3, Resaved DEF Touch, SavedAgain
<1>2. CASE ConfirmUnpromoted(p)
  <2>1. "confirmed" \in Status \ {"none"}
    BY DEF Status
  <2>2. scanRow' = [scanRow EXCEPT ![p].status = "confirmed", ![p].age = 0]
    BY <1>2 DEF ConfirmUnpromoted
  <2> QED BY <1>2, <2>1, <2>2, Resaved DEF ConfirmUnpromoted, SavedAgain
<1> QED BY <1>1, <1>2

(* Types.                                                                  *)
LEMMA CleanupTypeStep ==
  ASSUME CleanupTypeOK, [CleanupNext]_cleanupVars
  PROVE  CleanupTypeOK'
<1>1. ASSUME NEW p \in Photo, Stage(p)
      PROVE  CleanupTypeOK'
  BY <1>1, Ages DEF CleanupTypeOK, Stage, Then
<1>2. ASSUME NEW p \in Photo, InsertRow(p)
      PROVE  CleanupTypeOK'
  BY <1>2, Ages DEF CleanupTypeOK, InsertRow, Then, Now, Waiting, Status
<1>3. ASSUME NEW p \in Photo, NEW status \in Status, Touch(p, status)
      PROVE  CleanupTypeOK'
  BY <1>3, Ages, Resaved DEF CleanupTypeOK, Touch, Waiting, Status
<1>4. ASSUME NEW p \in Photo, DropFile(p)
      PROVE  CleanupTypeOK'
  BY <1>4, Ages DEF CleanupTypeOK, DropFile, Then
<1>5. ASSUME NEW p \in Photo, Promote(p)
      PROVE  CleanupTypeOK'
  BY <1>5, Ages DEF CleanupTypeOK, Promote, Then
<1>6. ASSUME NEW p \in Photo, SaveRow(p)
      PROVE  CleanupTypeOK'
  BY <1>6, Ages DEF CleanupTypeOK, SaveRow, Then, Waiting, Status
<1>7. ASSUME NEW p \in Photo, ConfirmUnpromoted(p)
      PROVE  CleanupTypeOK'
  BY ZenonT(60), <1>7, Ages, Resaved DEF CleanupTypeOK, ConfirmUnpromoted, Status
<1>8. ASSUME NEW p \in Photo, Dies(p)
      PROVE  CleanupTypeOK'
  BY <1>8, Ages DEF CleanupTypeOK, Dies, Then
<1>9. ASSUME NEW p \in Photo, DeleteInAdmin(p)
      PROVE  CleanupTypeOK'
  BY <1>9, Ages DEF CleanupTypeOK, DeleteInAdmin, NoScanRow, Status
<1>10. ASSUME DayPasses
      PROVE  CleanupTypeOK'
  BY <1>10, Ages DEF CleanupTypeOK, DayPasses, NoScanRow, Status, HasRow
<1>11. ASSUME ReadReferenced
      PROVE  CleanupTypeOK'
  BY <1>11, Ages DEF CleanupTypeOK, ReadReferenced, Proceeds, NotRunning
<1>12. ASSUME ListDiscarded
      PROVE  CleanupTypeOK'
  BY <1>12, Ages DEF CleanupTypeOK, ListDiscarded, Proceeds
<1>13. ASSUME NEW p \in Photo, NEW fails \in BOOLEAN, DeleteStagedFile(p, fails)
      PROVE  CleanupTypeOK'
  BY <1>13, Ages DEF CleanupTypeOK, DeleteStagedFile, Proceeds
<1>14. ASSUME NEW p \in Photo, DeleteRow(p)
      PROVE  CleanupTypeOK'
  BY <1>14, Ages DEF CleanupTypeOK, DeleteRow, Proceeds, NoScanRow, Status
<1>15. ASSUME WalkStaging
      PROVE  CleanupTypeOK'
  BY <1>15, Ages DEF CleanupTypeOK, WalkStaging, Proceeds
<1>16. ASSUME NEW p \in Photo, NEW fails \in BOOLEAN, SweepFile(p, fails)
      PROVE  CleanupTypeOK'
  BY <1>16, Ages DEF CleanupTypeOK, SweepFile, Proceeds
<1>17. ASSUME FinishCleanup
      PROVE  CleanupTypeOK'
  BY <1>17, Ages DEF CleanupTypeOK, FinishCleanup, Proceeds
<1>18. ASSUME LeaveCleanup
      PROVE  CleanupTypeOK'
  BY <1>18, Ages DEF CleanupTypeOK, LeaveCleanup, Proceeds, NotRunning
<1>19. CASE UNCHANGED cleanupVars
  BY <1>19 DEF CleanupTypeOK, cleanupVars
<1> QED BY <1>1, <1>2, <1>3, <1>4, <1>5, <1>6, <1>7, <1>8, <1>9, <1>10, <1>11,
           <1>12, <1>13, <1>14, <1>15, <1>16, <1>17, <1>18, <1>19
      DEF CleanupNext

LEMMA HalfwayStep ==
  ASSUME CleanupTypeOK, HalfwayOK, [CleanupNext]_cleanupVars
  PROVE  HalfwayOK'
<1>1. ASSUME NEW p \in Photo, Stage(p)
      PROVE  HalfwayOK'
  BY <1>1, Ages DEF HalfwayOK, Stage, CleanupTypeOK, Now, HasRow, HasFile,
     Then
<1>2. ASSUME NEW p \in Photo, InsertRow(p)
      PROVE  HalfwayOK'
  BY <1>2, Ages DEF HalfwayOK, InsertRow, CleanupTypeOK, Now, HasRow, HasFile,
     Then
<1>3. ASSUME NEW p \in Photo, NEW status \in Status, Touch(p, status)
      PROVE  HalfwayOK'
  BY <1>3, Ages, Retouched DEF HalfwayOK, CleanupTypeOK, Now, HasRow, HasFile,
     SavedAgain
<1>4. ASSUME NEW p \in Photo, DropFile(p)
      PROVE  HalfwayOK'
  BY <1>4, Ages DEF HalfwayOK, DropFile, CleanupTypeOK, Now, HasRow, HasFile,
     Then
<1>5. ASSUME NEW p \in Photo, Promote(p)
      PROVE  HalfwayOK'
  BY <1>5, Ages DEF HalfwayOK, Promote, CleanupTypeOK, Now, HasRow, HasFile,
     Then
<1>6. ASSUME NEW p \in Photo, SaveRow(p)
      PROVE  HalfwayOK'
  BY <1>6, Ages DEF HalfwayOK, SaveRow, CleanupTypeOK, Now, HasRow, HasFile,
     Then
<1>7. ASSUME NEW p \in Photo, ConfirmUnpromoted(p)
      PROVE  HalfwayOK'
  BY <1>7, Ages, Retouched DEF HalfwayOK, CleanupTypeOK, Now, HasRow, HasFile,
     Status, SavedAgain
<1>8. ASSUME NEW p \in Photo, Dies(p)
      PROVE  HalfwayOK'
  BY <1>8, Ages DEF HalfwayOK, Dies, CleanupTypeOK, Now, HasRow, HasFile, Then
<1>9. ASSUME NEW p \in Photo, DeleteInAdmin(p)
      PROVE  HalfwayOK'
  BY <1>9, Ages DEF HalfwayOK, DeleteInAdmin, CleanupTypeOK, Now, HasRow,
     HasFile, NoScanRow
<1>10. ASSUME DayPasses
      PROVE  HalfwayOK'
  BY <1>10, Ages DEF HalfwayOK, DayPasses, CleanupTypeOK, Now, HasRow,
     HasFile, NoScanRow, Old
<1>11. ASSUME ReadReferenced
      PROVE  HalfwayOK'
  BY <1>11, Ages DEF HalfwayOK, ReadReferenced, CleanupTypeOK, Now, HasRow,
     HasFile, Proceeds, NotRunning, Reclaimable, Old
<1>12. ASSUME ListDiscarded
      PROVE  HalfwayOK'
  BY <1>12, Ages DEF HalfwayOK, ListDiscarded, CleanupTypeOK, Now, HasRow,
     HasFile, Proceeds
<1>13. ASSUME NEW p \in Photo, NEW fails \in BOOLEAN, DeleteStagedFile(p, fails)
      PROVE  HalfwayOK'
  BY <1>13, Ages DEF HalfwayOK, DeleteStagedFile, CleanupTypeOK, Now, HasRow,
     HasFile, Proceeds
<1>14. ASSUME NEW p \in Photo, DeleteRow(p)
      PROVE  HalfwayOK'
  BY <1>14, Ages DEF HalfwayOK, DeleteRow, CleanupTypeOK, Now, HasRow,
     HasFile, Proceeds, NoScanRow
<1>15. ASSUME WalkStaging
      PROVE  HalfwayOK'
  BY <1>15, Ages DEF HalfwayOK, WalkStaging, CleanupTypeOK, Now, HasRow,
     HasFile, Proceeds
<1>16. ASSUME NEW p \in Photo, NEW fails \in BOOLEAN, SweepFile(p, fails)
      PROVE  HalfwayOK'
  BY <1>16, Ages DEF HalfwayOK, SweepFile, CleanupTypeOK, Now, HasRow,
     HasFile, Proceeds
<1>17. ASSUME FinishCleanup
      PROVE  HalfwayOK'
  BY <1>17, Ages DEF HalfwayOK, FinishCleanup, CleanupTypeOK, Now, HasRow,
     HasFile, Proceeds
<1>18. ASSUME LeaveCleanup
      PROVE  HalfwayOK'
  BY <1>18, Ages DEF HalfwayOK, LeaveCleanup, CleanupTypeOK, Now, HasRow,
     HasFile, Proceeds, NotRunning
<1>19. CASE UNCHANGED cleanupVars
  BY <1>19 DEF HalfwayOK, cleanupVars, Now, HasRow, HasFile
<1> QED BY <1>1, <1>2, <1>3, <1>4, <1>5, <1>6, <1>7, <1>8, <1>9, <1>10, <1>11,
           <1>12, <1>13, <1>14, <1>15, <1>16, <1>17, <1>18, <1>19
      DEF CleanupNext

LEMMA SweepStep ==
  ASSUME CleanupTypeOK, HalfwayOK, SweepOK, [CleanupNext]_cleanupVars
  PROVE  SweepOK'
<1>1. ASSUME NEW p \in Photo, Stage(p)
      PROVE  SweepOK'
  BY <1>1, Ages DEF SweepOK, Stage, CleanupTypeOK, HalfwayOK, Deleting, Now,
     HasRow, HasFile, Then
<1>2. ASSUME NEW p \in Photo, InsertRow(p)
      PROVE  SweepOK'
  BY <1>2, Ages DEF SweepOK, InsertRow, CleanupTypeOK, HalfwayOK, Deleting,
     Now, Then
<1>3. ASSUME NEW p \in Photo, NEW status \in Status, Touch(p, status)
      PROVE  SweepOK'
  BY <1>3, Ages, Retouched DEF SweepOK, CleanupTypeOK, HalfwayOK, Deleting,
     Now, HasRow, HasFile, Status, SavedAgain
<1>4. ASSUME NEW p \in Photo, DropFile(p)
      PROVE  SweepOK'
  BY <1>4, Ages DEF SweepOK, DropFile, CleanupTypeOK, HalfwayOK, Deleting,
     Now, Then, Waiting
<1>5. ASSUME NEW p \in Photo, Promote(p)
      PROVE  SweepOK'
  BY <1>5, Ages DEF SweepOK, Promote, CleanupTypeOK, HalfwayOK, Deleting, Now,
     HasRow, HasFile, Then
<1>6. ASSUME NEW p \in Photo, SaveRow(p)
      PROVE  SweepOK'
  BY <1>6, Ages DEF SweepOK, SaveRow, CleanupTypeOK, HalfwayOK, Deleting, Now,
     HasRow, Then, Waiting
<1>7. ASSUME NEW p \in Photo, ConfirmUnpromoted(p)
      PROVE  SweepOK'
  BY <1>7, Ages, Retouched DEF SweepOK, CleanupTypeOK, HalfwayOK, Deleting,
     Now, HasRow, HasFile, Status, SavedAgain
<1>8. ASSUME NEW p \in Photo, Dies(p)
      PROVE  SweepOK'
  BY <1>8, Ages DEF SweepOK, Dies, CleanupTypeOK, HalfwayOK, Deleting, Now,
     Then
<1>9. ASSUME NEW p \in Photo, DeleteInAdmin(p)
      PROVE  SweepOK'
  BY <1>9, Ages DEF SweepOK, DeleteInAdmin, CleanupTypeOK, HalfwayOK,
     Deleting, Now, HasRow, NoScanRow
<1>10. ASSUME DayPasses
      PROVE  SweepOK'
  BY <1>10, Ages DEF SweepOK, DayPasses, CleanupTypeOK, HalfwayOK, Deleting,
     Now, HasRow, NoScanRow
<1>11. ASSUME ReadReferenced
      PROVE  SweepOK'
  BY <1>11, Ages DEF SweepOK, ReadReferenced, CleanupTypeOK, HalfwayOK,
     Deleting, HasRow, HasFile, Proceeds, NotRunning
<1>12. ASSUME ListDiscarded
      PROVE  SweepOK'
  BY <1>12, Ages DEF SweepOK, ListDiscarded, CleanupTypeOK, HalfwayOK,
     Deleting, Proceeds
<1>13. ASSUME NEW p \in Photo, NEW fails \in BOOLEAN, DeleteStagedFile(p, fails)
      PROVE  SweepOK'
  BY <1>13, Ages DEF SweepOK, DeleteStagedFile, CleanupTypeOK, HalfwayOK,
     Deleting, HasFile, Proceeds
<1>14. ASSUME NEW p \in Photo, DeleteRow(p)
      PROVE  SweepOK'
  BY <1>14, Ages DEF SweepOK, DeleteRow, CleanupTypeOK, HalfwayOK, Deleting,
     Proceeds, NoScanRow
<1>15. ASSUME WalkStaging
      PROVE  SweepOK'
  BY <1>15, Ages DEF SweepOK, WalkStaging, CleanupTypeOK, HalfwayOK, Deleting,
     HasFile, Proceeds
<1>16. ASSUME NEW p \in Photo, NEW fails \in BOOLEAN, SweepFile(p, fails)
      PROVE  SweepOK'
  BY <1>16, Ages DEF SweepOK, SweepFile, CleanupTypeOK, HalfwayOK, Deleting,
     HasFile, Proceeds
<1>17. ASSUME FinishCleanup
      PROVE  SweepOK'
  BY <1>17, Ages DEF SweepOK, FinishCleanup, CleanupTypeOK, HalfwayOK,
     Deleting, Proceeds
<1>18. ASSUME LeaveCleanup
      PROVE  SweepOK'
  BY <1>18, Ages DEF SweepOK, LeaveCleanup, CleanupTypeOK, HalfwayOK,
     Deleting, Proceeds, NotRunning
<1>19. CASE UNCHANGED cleanupVars
  BY <1>19 DEF SweepOK, cleanupVars, Deleting
<1> QED BY <1>1, <1>2, <1>3, <1>4, <1>5, <1>6, <1>7, <1>8, <1>9, <1>10, <1>11,
           <1>12, <1>13, <1>14, <1>15, <1>16, <1>17, <1>18, <1>19
      DEF CleanupNext

LEMMA DueStep ==
  ASSUME CleanupTypeOK, HalfwayOK, SweepOK, DueOK, [CleanupNext]_cleanupVars
  PROVE  DueOK'
<1>1. ASSUME NEW p \in Photo, Stage(p)
      PROVE  DueOK'
  BY <1>1, Ages DEF DueOK, Stage, CleanupTypeOK, HalfwayOK, Deleting, Now,
     HasRow, HasFile, Then, SweepOK
<1>2. ASSUME NEW p \in Photo, InsertRow(p)
      PROVE  DueOK'
  BY <1>2, Ages DEF DueOK, InsertRow, CleanupTypeOK, HalfwayOK, Deleting, Now,
     HasFile, Then, SweepOK
<1>3. ASSUME NEW p \in Photo, NEW status \in Status, Touch(p, status)
      PROVE  DueOK'
  <2>1. PICK new \in Status \ {"none"} : SavedAgain(p, new)
    BY <1>3, Retouched
  <2>2. /\ UNCHANGED <<file, sweep, due>>
        /\ \A q \in Photo : /\ scanRow'[q].image = scanRow[q].image
                            /\ q # p => scanRow'[q] = scanRow[q]
    BY <2>1 DEF SavedAgain
  <2>3. ~Old(scanRow'[p].age)
    BY <2>1, Ages DEF SavedAgain
  <2>4. \A q \in Photo :
          scanRow'[q].status = "discarded" /\ Old(scanRow'[q].age) =>
            scanRow[q].status = "discarded" /\ Old(scanRow[q].age)
    BY <2>2, <2>3 DEF Old
  <2>5. file' = file /\ sweep' = sweep /\ due' = due
    BY <2>2
  <2>6. sweep.pc \in {"row", "file", "done"} =>
          \A q \in Photo :
            scanRow'[q].status = "discarded" /\ Old(scanRow'[q].age)
              => q \in sweep.rows
    BY <2>4 DEF DueOK
  <2>7. \A q \in due \intersect Photo : scanRow'[q].image = scanRow[q].image
    BY <2>2
  <2>8. due \subseteq Photo
    BY DEF CleanupTypeOK
  <2> QED BY <2>5, <2>6, <2>7, <2>8 DEF DueOK, Deleting, HasFile
<1>4. ASSUME NEW p \in Photo, DropFile(p)
      PROVE  DueOK'
  BY <1>4, Ages DEF DueOK, DropFile, CleanupTypeOK, HalfwayOK, Deleting, Now,
     HasFile, Then, Waiting, SweepOK
<1>5. ASSUME NEW p \in Photo, Promote(p)
      PROVE  DueOK'
  BY <1>5, Ages DEF DueOK, Promote, CleanupTypeOK, HalfwayOK, Deleting, Now,
     HasRow, HasFile, Then, SweepOK
<1>6. ASSUME NEW p \in Photo, SaveRow(p)
      PROVE  DueOK'
  BY <1>6, Ages DEF DueOK, SaveRow, CleanupTypeOK, HalfwayOK, Deleting, Now,
     HasRow, HasFile, Then, Waiting, SweepOK
<1>7. ASSUME NEW p \in Photo, ConfirmUnpromoted(p)
      PROVE  DueOK'
  <2>1. PICK new \in Status \ {"none"} : SavedAgain(p, new)
    BY <1>7, Retouched
  <2>2. /\ UNCHANGED <<file, sweep, due>>
        /\ \A q \in Photo : /\ scanRow'[q].image = scanRow[q].image
                            /\ q # p => scanRow'[q] = scanRow[q]
    BY <2>1 DEF SavedAgain
  <2>3. ~Old(scanRow'[p].age)
    BY <2>1, Ages DEF SavedAgain
  <2>4. \A q \in Photo :
          scanRow'[q].status = "discarded" /\ Old(scanRow'[q].age) =>
            scanRow[q].status = "discarded" /\ Old(scanRow[q].age)
    BY <2>2, <2>3 DEF Old
  <2>5. file' = file /\ sweep' = sweep /\ due' = due
    BY <2>2
  <2>6. sweep.pc \in {"row", "file", "done"} =>
          \A q \in Photo :
            scanRow'[q].status = "discarded" /\ Old(scanRow'[q].age)
              => q \in sweep.rows
    BY <2>4 DEF DueOK
  <2>7. \A q \in due \intersect Photo : scanRow'[q].image = scanRow[q].image
    BY <2>2
  <2>8. due \subseteq Photo
    BY DEF CleanupTypeOK
  <2> QED BY <2>5, <2>6, <2>7, <2>8 DEF DueOK, Deleting, HasFile
<1>8. ASSUME NEW p \in Photo, Dies(p)
      PROVE  DueOK'
  BY <1>8, Ages DEF DueOK, Dies, CleanupTypeOK, HalfwayOK, Deleting, Now,
     HasFile, Then, SweepOK
<1>9. ASSUME NEW p \in Photo, DeleteInAdmin(p)
      PROVE  DueOK'
  BY <1>9, Ages DEF DueOK, DeleteInAdmin, CleanupTypeOK, HalfwayOK, Deleting,
     Now, HasRow, HasFile, NoScanRow, SweepOK
<1>10. ASSUME DayPasses
      PROVE  DueOK'
  BY <1>10, Ages DEF DueOK, DayPasses, CleanupTypeOK, HalfwayOK, Deleting,
     Now, HasRow, HasFile, NoScanRow, SweepOK
<1>11. ASSUME ReadReferenced
      PROVE  DueOK'
  BY <1>11, Ages DEF DueOK, ReadReferenced, CleanupTypeOK, HalfwayOK,
     Deleting, HasRow, HasFile, Proceeds, NotRunning, SweepOK, Reclaimable
<1>12. ASSUME ListDiscarded
      PROVE  DueOK'
  BY <1>12, Ages DEF DueOK, ListDiscarded, CleanupTypeOK, HalfwayOK, Deleting,
     HasFile, Proceeds, SweepOK
<1>13. ASSUME NEW p \in Photo, NEW fails \in BOOLEAN, DeleteStagedFile(p, fails)
      PROVE  DueOK'
  BY <1>13, Ages DEF DueOK, DeleteStagedFile, CleanupTypeOK, HalfwayOK,
     Deleting, HasFile, Proceeds, SweepOK
<1>14. ASSUME NEW p \in Photo, DeleteRow(p)
      PROVE  DueOK'
  BY <1>14, Ages DEF DueOK, DeleteRow, CleanupTypeOK, HalfwayOK, Deleting,
     HasFile, Proceeds, NoScanRow, SweepOK
<1>15. ASSUME WalkStaging
      PROVE  DueOK'
  BY <1>15, Ages DEF DueOK, WalkStaging, CleanupTypeOK, HalfwayOK, Deleting,
     HasFile, Proceeds, SweepOK
<1>16. ASSUME NEW p \in Photo, NEW fails \in BOOLEAN, SweepFile(p, fails)
      PROVE  DueOK'
  BY <1>16, Ages DEF DueOK, SweepFile, CleanupTypeOK, HalfwayOK, Deleting,
     HasFile, Proceeds, SweepOK, Sweepable
<1>17. ASSUME FinishCleanup
      PROVE  DueOK'
  BY <1>17, Ages DEF DueOK, FinishCleanup, CleanupTypeOK, HalfwayOK, Deleting,
     HasFile, Proceeds, SweepOK
<1>18. ASSUME LeaveCleanup
      PROVE  DueOK'
  BY <1>18, Ages DEF DueOK, LeaveCleanup, CleanupTypeOK, HalfwayOK, Deleting,
     HasFile, Proceeds, NotRunning, SweepOK
<1>19. CASE UNCHANGED cleanupVars
  BY <1>19 DEF DueOK, cleanupVars, Deleting, HasFile
<1> QED BY <1>1, <1>2, <1>3, <1>4, <1>5, <1>6, <1>7, <1>8, <1>9, <1>10, <1>11,
           <1>12, <1>13, <1>14, <1>15, <1>16, <1>17, <1>18, <1>19
      DEF CleanupNext

(* What makes it inductive holds at the start and after every step.        *)
LEMMA CleanupInductive ==
  /\ CleanupInit => CleanupOK
  /\ CleanupOK /\ [CleanupNext]_cleanupVars => CleanupOK'
<1>1. CleanupInit => CleanupTypeOK
  BY Ages DEF CleanupInit, CleanupTypeOK, NoScanRow, NotRunning, Status
<1>2. CleanupInit => HalfwayOK /\ SweepOK /\ DueOK
  BY DEF CleanupInit, HalfwayOK, SweepOK, DueOK, Deleting, NoScanRow,
         NotRunning, Now, HasRow
<1> QED BY <1>1, <1>2, CleanupTypeStep, HalfwayStep, SweepStep, DueStep DEF CleanupOK

-----------------------------------------------------------------------------
(* The theorems.                                                           *)

(* The inductive invariant of cleanup_staging holds in every state.        *)
THEOREM CleanupInvariant == CleanupSpec => []CleanupOK
  BY CleanupInductive, PTL DEF CleanupSpec

(* cleanup_staging takes no file of an upload or of a scan that is not     *)
(* discarded, and no row but a discarded one, confirmed since or not.      *)
THEOREM LivingSpared == CleanupSpec => SparesTheLiving
<1>1. ASSUME CleanupOK, CleanupNext, sweep' # sweep, NEW q \in Photo
      PROVE  Spared(q)
  <2>0. CleanupTypeOK /\ HalfwayOK /\ SweepOK
    BY <1>1 DEF CleanupOK
  <2>1. ASSUME NEW p \in Photo, NEW fails \in BOOLEAN,
               DeleteStagedFile(p, fails)
        PROVE  Spared(q)
    BY <2>0, <2>1 DEF Spared, CleanupTypeOK, HalfwayOK, SweepOK,
       DeleteStagedFile, Proceeds, HasFile, HasRow
  <2>2. ASSUME NEW p \in Photo, DeleteRow(p) PROVE Spared(q)
    BY <2>0, <2>2 DEF Spared, CleanupTypeOK, SweepOK, DeleteRow, Deleting, Proceeds,
       HasFile, NoScanRow
  <2>3. ASSUME NEW p \in Photo, NEW fails \in BOOLEAN, SweepFile(p, fails)
        PROVE  Spared(q)
    <3>1. CASE q # p \/ ~Sweepable(p) \/ fails
      BY <2>0, <2>3, <3>1 DEF Spared, CleanupTypeOK, SweepFile, Proceeds, HasFile
    <3>2. CASE q = p /\ Sweepable(p)
      <4>1. file[p] \notin {None, 0} /\ p \notin sweep.referenced
        BY <3>2, Ages DEF Sweepable, HasFile
      <4>2. ~Now(p, "insert") /\ ~scanRow[p].image
        BY <2>0, <2>3, <4>1 DEF HalfwayOK, SweepOK, SweepFile
      <4> QED BY <2>3, <3>2, <4>2 DEF Spared, SweepFile
    <3> QED BY <3>1, <3>2
  <2>4. CASE UNCHANGED <<scanRow, file>>
    BY <2>4 DEF Spared, HasFile
  <2>5. CASE \/ ReadReferenced \/ ListDiscarded \/ WalkStaging
             \/ FinishCleanup \/ LeaveCleanup
    BY <2>4, <2>5 DEF ReadReferenced, ListDiscarded, WalkStaging,
       FinishCleanup, LeaveCleanup
  <2>6. CASE DayPasses \/ \E p \in Photo :
               \/ Stage(p) \/ InsertRow(p) \/ DropFile(p) \/ Promote(p)
               \/ SaveRow(p) \/ \E status \in Status : Touch(p, status)
               \/ ConfirmUnpromoted(p) \/ Dies(p) \/ DeleteInAdmin(p)
    BY <1>1, <2>6 DEF DayPasses, Stage, InsertRow, DropFile, Promote, SaveRow,
       Touch, ConfirmUnpromoted, Dies, DeleteInAdmin
  <2> QED BY <1>1, <2>1, <2>2, <2>3, <2>5, <2>6 DEF CleanupNext
<1>2. CleanupOK /\ [CleanupNext]_cleanupVars =>
        [\A p \in Photo : sweep' # sweep => Spared(p)]_cleanupVars
  BY <1>1
<1> QED BY <1>2, CleanupInvariant, PTL DEF CleanupSpec, SparesTheLiving

(* What a run found to reclaim is reclaimed when it has run to its end     *)
(* without a storage failure, whatever requests did beside it.             *)
THEOREM AllReclaimed == CleanupSpec => []Reclaimed
<1>1. CleanupOK => Reclaimed
  BY DEF CleanupOK, CleanupTypeOK, HalfwayOK, SweepOK, DueOK, Reclaimed,
         Reclaimable, HasRow, HasFile
<1> QED BY <1>1, CleanupInvariant, PTL

(***************************************************************************)
(*                              snapshot_db                                *)
(***************************************************************************)

-----------------------------------------------------------------------------
(* Types.                                                                  *)

LEMMA Stages ==
  /\ SnapshotSteps \subseteq Active /\ CheckSteps \subseteq Active
  /\ {"copy", "upload", "manifest", "month_copy", "month_manifest", "latest",
      "list", "probe", "wait", "restoring", "compare", "ping"} \subseteq Active
  BY DEF Active, SnapshotSteps, CheckSteps

(* What a step makes of a run.                                             *)
LEMMA StageState ==
  ASSUME NEW x \in RunState, NEW stage \in Active
  PROVE  [x EXCEPT !.pc = stage] \in RunState
  BY DEF RunState

LEMMA FreshState ==
  ASSUME NEW x \in RunState, NEW stage \in Active
  PROVE  [x EXCEPT !.pc = stage, !.fresh = FALSE] \in RunState
  BY DEF RunState

LEMMA BeginState ==
  ASSUME NEW x \in RunState, NEW stage \in Active,
         NEW day \in Day, NEW base \in 0 .. MaxWrites
  PROVE  [x EXCEPT !.pc = stage, !.day = day, !.base = base] \in RunState
  BY DEF RunState

LEMMA CountState ==
  ASSUME NEW x \in RunState, NEW stage \in Active, NEW count \in 0 .. MaxWrites
  PROVE  [x EXCEPT !.pc = stage, !.count = count] \in RunState
  BY DEF RunState

LEMMA EndState ==
  ASSUME NEW x \in RunState, NEW stage \in Active,
         NEW errors \in SUBSET {"snapshot", "replication"}
  PROVE  [x EXCEPT !.pc = stage, !.count = 0, !.errors = @ \union errors]
           \in RunState
<1>1. 0 \in 0 .. MaxWrites
  BY SnapshotAssumption
<1> QED BY <1>1 DEF RunState

LEMMA FailState ==
  ASSUME NEW x \in RunState, NEW stage \in Active,
         NEW errors \in SUBSET {"snapshot", "replication"}
  PROVE  [x EXCEPT !.pc = stage, !.fresh = FALSE, !.errors = @ \union errors]
           \in RunState
  BY DEF RunState

LEMMA OverState ==
  /\ [NotRun EXCEPT !.pc = "killed"] \in RunState
  /\ \A ping \in {"success", "fail", "lost"} :
       [NotRun EXCEPT !.pc = "done", !.ping = ping] \in RunState
<1>1. 0 \in 0 .. MaxWrites /\ 1 \in Day
  BY SnapshotAssumption DEF Day
<1>2. NotRun \in RunState
  BY <1>1 DEF NotRun, RunState
<1> QED BY <1>2 DEF RunState

(* A run that moves on stays a run, and the others are left alone.         *)
LEMMA Moved ==
  ASSUME SnapTypeOK, NEW r \in Execution, NEW state \in RunState,
         Becomes(r, state)
  PROVE  /\ run' \in [Execution -> RunState]
         /\ run'[r] = state
         /\ \A q \in Execution \ {r} : run'[q] = run[q]
  BY DEF SnapTypeOK, Becomes

LEMMA RunFields ==
  ASSUME SnapTypeOK, NEW r \in Execution
  PROVE  /\ run[r] \in RunState
         /\ run[r].day \in Day /\ run[r].day \in Prefix
         /\ run[r].count \in 0 .. MaxWrites /\ run[r].count \in Count
         /\ run[r].base \in 0 .. MaxWrites
         /\ run[r].fresh \in BOOLEAN
         /\ bucketed[run[r].day] \in Pair
         /\ bucketed[run[r].day].copy \in Count
         /\ bucketed[run[r].day].manifest \in Count
<1>1. run[r] \in RunState
  BY DEF SnapTypeOK
<1>2. run[r].day \in Prefix /\ bucketed \in [Prefix -> Pair]
  BY <1>1 DEF SnapTypeOK, RunState, Prefix
<1> QED BY <1>1, <1>2 DEF RunState, Pair, Count

(* The two halves of a pair.                                               *)
LEMMA PutTypes ==
  ASSUME SnapTypeOK, NEW p \in Prefix, NEW count \in Count,
         PutCopy(p, count) \/ PutManifest(p, count)
  PROVE  /\ bucketed' \in [Prefix -> Pair] /\ torn' \subseteq Prefix
         /\ latest' \in [day : Day, count : Count]
  BY DEF SnapTypeOK, PutCopy, PutManifest, Pair

LEMMA TypeStep ==
  ASSUME SnapTypeOK, [SnapNext]_snapVars PROVE SnapTypeOK'
<1>1. ASSUME NEW r \in Execution, Begin(r) PROVE SnapTypeOK'
  <2> DEFINE state == [run[r] EXCEPT !.pc = "copy", !.day = today', !.base = db.writes]
  <2>1. state \in RunState
    <3>1. today' \in Day /\ db.writes \in 0 .. MaxWrites
      BY <1>1, SnapshotAssumption DEF SnapTypeOK, Begin, Content, Day
    <3> QED BY <1>1, Stages, RunFields, BeginState, <3>1
  <2>2. Becomes(r, state)
    BY <1>1 DEF Begin
  <2>3. run' \in [Execution -> RunState]
    BY <2>1, <2>2, Moved
  <2> QED BY <1>1, <2>3 DEF Begin, SnapTypeOK, objects, files, Day
<1>2. ASSUME NEW r \in Execution, CopyDatabase(r) PROVE SnapTypeOK'
  <2> DEFINE state == [run[r] EXCEPT !.pc = "upload", !.count = db.writes]
  <2>1. state \in RunState
    BY <1>2, Stages, RunFields, CountState DEF SnapTypeOK, Content
  <2>2. Becomes(r, state)
    BY <1>2 DEF CopyDatabase
  <2>3. run' \in [Execution -> RunState]
    BY <2>1, <2>2, Moved
  <2> QED BY <1>2, <2>3 DEF CopyDatabase, SnapTypeOK, objects, files
<1>3. ASSUME NEW r \in Execution, UploadCopy(r) PROVE SnapTypeOK'
  <2> DEFINE state == [run[r] EXCEPT !.pc = "manifest"]
  <2>1. state \in RunState
    BY <1>3, Stages, RunFields, StageState
  <2>2. Becomes(r, state)
    BY <1>3 DEF UploadCopy, PutCopy, GoTo
  <2>3. run' \in [Execution -> RunState]
    BY <2>1, <2>2, Moved
  <2>4. PutCopy(run[r].day, run[r].count)
    BY <1>3 DEF UploadCopy
  <2>5. run[r].day \in Prefix /\ run[r].count \in Count
    BY RunFields DEF Prefix
  <2> QED BY <1>3, <2>3, <2>4, <2>5, PutTypes DEF UploadCopy, SnapTypeOK, files
<1>4. ASSUME NEW r \in Execution, UploadManifest(r) PROVE SnapTypeOK'
  <2> DEFINE state == [run[r] EXCEPT !.pc = IF run[r].day = 1 THEN "month_copy" ELSE "latest"]
  <2>1. state \in RunState
    BY <1>4, Stages, RunFields, StageState
  <2>2. Becomes(r, state)
    BY <1>4 DEF UploadManifest, PutManifest, GoTo
  <2>3. run' \in [Execution -> RunState]
    BY <2>1, <2>2, Moved
  <2>4. PutManifest(run[r].day, run[r].count)
    BY <1>4 DEF UploadManifest
  <2>5. run[r].day \in Prefix /\ run[r].count \in Count
    BY RunFields DEF Prefix
  <2> QED BY <1>4, <2>3, <2>4, <2>5, PutTypes DEF UploadManifest, SnapTypeOK, files
<1>5. ASSUME NEW r \in Execution, MonthCopy(r) PROVE SnapTypeOK'
  <2> DEFINE state == [run[r] EXCEPT !.pc = "month_manifest"]
  <2>1. state \in RunState
    BY <1>5, Stages, RunFields, StageState
  <2>2. Becomes(r, state)
    BY <1>5 DEF MonthCopy, PutCopy, GoTo
  <2>3. run' \in [Execution -> RunState]
    BY <2>1, <2>2, Moved
  <2>4. PutCopy(Month, bucketed[run[r].day].copy)
    BY <1>5 DEF MonthCopy
  <2>5. Month \in Prefix /\ bucketed[run[r].day].copy \in Count
    BY RunFields DEF Prefix
  <2> QED BY <1>5, <2>3, <2>4, <2>5, PutTypes DEF MonthCopy, SnapTypeOK, files
<1>6. ASSUME NEW r \in Execution, MonthManifest(r) PROVE SnapTypeOK'
  <2> DEFINE state == [run[r] EXCEPT !.pc = "latest"]
  <2>1. state \in RunState
    BY <1>6, Stages, RunFields, StageState
  <2>2. Becomes(r, state)
    BY <1>6 DEF MonthManifest, PutManifest, GoTo
  <2>3. run' \in [Execution -> RunState]
    BY <2>1, <2>2, Moved
  <2>4. PutManifest(Month, bucketed[run[r].day].manifest)
    BY <1>6 DEF MonthManifest
  <2>5. Month \in Prefix /\ bucketed[run[r].day].manifest \in Count
    BY RunFields DEF Prefix
  <2> QED BY <1>6, <2>3, <2>4, <2>5, PutTypes DEF MonthManifest, SnapTypeOK, files
<1>7. ASSUME NEW r \in Execution, PutLatest(r) PROVE SnapTypeOK'
  <2> DEFINE state == [run[r] EXCEPT !.pc = IF Replicating THEN "list" ELSE "ping",
                !.count = 0,
                !.errors = @ \union {}]
  <2>1. state \in RunState
    BY <1>7, Stages, RunFields, EndState
  <2>2. Becomes(r, state)
    BY <1>7 DEF PutLatest, EndSnapshot
  <2>3. run' \in [Execution -> RunState]
    BY <2>1, <2>2, Moved
  <2> QED BY <1>7, <2>3, RunFields DEF PutLatest, EndSnapshot, SnapTypeOK, Content, objects, files
<1>8. ASSUME NEW r \in Execution, SnapshotFails(r) PROVE SnapTypeOK'
  <2> DEFINE state == [run[r] EXCEPT !.pc = IF Replicating THEN "list" ELSE "ping",
                !.count = 0,
                !.errors = @ \union {"snapshot"}]
  <2>1. state \in RunState
    BY <1>8, Stages, RunFields, EndState
  <2>2. Becomes(r, state)
    BY <1>8 DEF SnapshotFails, EndSnapshot
  <2>3. run' \in [Execution -> RunState]
    BY <2>1, <2>2, Moved
  <2> QED BY <1>8, <2>3 DEF SnapshotFails, EndSnapshot, SnapTypeOK, objects, files
<1>9. ASSUME NEW r \in Execution, ListReplica(r) PROVE SnapTypeOK'
  <2> DEFINE state == [run[r] EXCEPT !.pc = "probe", !.fresh = FALSE]
  <2>1. state \in RunState
    BY <1>9, Stages, RunFields, FreshState
  <2>2. Becomes(r, state)
    BY <1>9 DEF ListReplica
  <2>3. run' \in [Execution -> RunState]
    BY <2>1, <2>2, Moved
  <2> QED BY <1>9, <2>3 DEF ListReplica, SnapTypeOK, objects, files
<1>10. ASSUME NEW r \in Execution, WriteProbe(r) PROVE SnapTypeOK'
  <2> DEFINE state == [run[r] EXCEPT !.pc = "wait"]
  <2>1. state \in RunState
    BY <1>10, Stages, RunFields, StageState
  <2>2. Becomes(r, state)
    BY <1>10 DEF WriteProbe, GoTo
  <2>3. run' \in [Execution -> RunState]
    BY <2>1, <2>2, Moved
  <2> QED BY <1>10, <2>3 DEF WriteProbe, GoTo, SnapTypeOK, objects, files, Content
<1>11. ASSUME NEW r \in Execution, StartRestore(r) PROVE SnapTypeOK'
  <2> DEFINE state == [run[r] EXCEPT !.pc = "restoring", !.fresh = FALSE]
  <2>1. state \in RunState
    BY <1>11, Stages, RunFields, FreshState
  <2>2. Becomes(r, state)
    BY <1>11 DEF StartRestore
  <2>3. run' \in [Execution -> RunState]
    BY <2>1, <2>2, Moved
  <2> QED BY <1>11, <2>3 DEF StartRestore, SnapTypeOK, objects, files
<1>12. ASSUME NEW r \in Execution, Restored(r) PROVE SnapTypeOK'
  <2> DEFINE state == [run[r] EXCEPT !.pc = "compare"]
  <2>1. state \in RunState
    BY <1>12, Stages, RunFields, StageState
  <2>2. Becomes(r, state)
    BY <1>12 DEF Restored, GoTo
  <2>3. run' \in [Execution -> RunState]
    BY <2>1, <2>2, Moved
  <2> QED BY <1>12, <2>3 DEF Restored, GoTo, SnapTypeOK, objects, files
<1>13. ASSUME NEW r \in Execution, ProbeFound(r) PROVE SnapTypeOK'
  <2> DEFINE state == [run[r] EXCEPT !.pc = "ping"]
  <2>1. state \in RunState
    BY <1>13, Stages, RunFields, StageState
  <2>2. Becomes(r, state)
    BY <1>13 DEF ProbeFound, GoTo
  <2>3. run' \in [Execution -> RunState]
    BY <2>1, <2>2, Moved
  <2> QED BY <1>13, <2>3 DEF ProbeFound, GoTo, SnapTypeOK, objects, files
<1>14. ASSUME NEW r \in Execution, CheckFails(r) PROVE SnapTypeOK'
  <2> DEFINE state == [run[r] EXCEPT !.pc = "ping", !.fresh = FALSE,
                !.errors = @ \union {"replication"}]
  <2>1. state \in RunState
    BY <1>14, Stages, RunFields, FailState
  <2>2. Becomes(r, state)
    BY <1>14 DEF CheckFails
  <2>3. run' \in [Execution -> RunState]
    BY <2>1, <2>2, Moved
  <2> QED BY <1>14, <2>3 DEF CheckFails, SnapTypeOK, objects, files
<1>15. ASSUME NEW r \in Execution, Kill(r) PROVE SnapTypeOK'
  <2> DEFINE state == [NotRun EXCEPT !.pc = "killed"]
  <2>1. state \in RunState
    BY <1>15, Stages, RunFields, OverState
  <2>2. Becomes(r, state)
    BY <1>15 DEF Kill
  <2>3. run' \in [Execution -> RunState]
    BY <2>1, <2>2, Moved
  <2> QED BY <1>15, <2>3 DEF Kill, SnapTypeOK, objects, files
<1>16. ASSUME NEW r \in Execution, Report(r) PROVE SnapTypeOK'
  <2>1. PICK arrived \in BOOLEAN : Ping(r, arrived)
    BY <1>16 DEF Report
  <2>2. PICK ping \in {"success", "fail", "lost"} :
          Becomes(r, [NotRun EXCEPT !.pc = "done", !.ping = ping])
    BY <2>1 DEF Ping
  <2>3. run' \in [Execution -> RunState]
    BY <2>2, OverState, Moved
  <2> QED BY <2>1, <2>3 DEF Ping, SnapTypeOK, objects, files
<1>17. CASE CatalogWrite
  BY <1>17, SnapshotAssumption DEF CatalogWrite, SnapTypeOK, Content, objects, files
<1>18. ASSUME NewKey PROVE run' \in [Execution -> RunState]
  <2>1. \A x \in RunState : [x EXCEPT !.fresh = TRUE] \in RunState
    BY DEF RunState
  <2> QED BY <1>18, <2>1 DEF NewKey, SnapTypeOK
<1>19. CASE Litestream
  BY <1>18, <1>19 DEF Litestream, Upload, Compact, SnapTypeOK, objects, files
<1>20. CASE UNCHANGED snapVars
  BY <1>20 DEF snapVars, SnapTypeOK, objects, files
<1> QED
  BY <1>1, <1>2, <1>3, <1>4, <1>5, <1>6, <1>7, <1>8, <1>9, <1>10, <1>11,
     <1>12, <1>13, <1>14, <1>15, <1>16, <1>17, <1>19, <1>20
     DEF SnapNext, TakeSnapshot, CheckReplica

-----------------------------------------------------------------------------
(* Nothing is ever deleted from the bucket.                                *)

LEMMA PutEffects ==
  ASSUME SnapTypeOK, NEW p \in Prefix, NEW count
  PROVE  /\ PutCopy(p, count) =>
              /\ bucketed'[p].copy = count
              /\ bucketed'[p].manifest = bucketed[p].manifest
              /\ \A q \in Prefix \ {p} : bucketed'[q] = bucketed[q]
         /\ PutManifest(p, count) =>
              /\ bucketed'[p].manifest = count
              /\ bucketed'[p].copy = bucketed[p].copy
              /\ \A q \in Prefix \ {p} : bucketed'[q] = bucketed[q]
  BY DEF SnapTypeOK, PutCopy, PutManifest, Pair

LEMMA Kept ==
  ASSUME SnapTypeOK, UploadsOK, [SnapNext]_snapVars, NEW p \in Prefix
  PROVE  /\ bucketed[p].copy # NoObject => bucketed'[p].copy # NoObject
         /\ bucketed[p].manifest # NoObject =>
              bucketed'[p].manifest # NoObject
<1> DEFINE Grows == /\ bucketed[p].copy # NoObject =>
                         bucketed'[p].copy # NoObject
                    /\ bucketed[p].manifest # NoObject =>
                         bucketed'[p].manifest # NoObject
<1>1. ASSUME NEW q \in Prefix, NEW count \in Count \ {NoObject},
             PutCopy(q, count) \/ PutManifest(q, count)
      PROVE  Grows
  BY <1>1 DEF SnapTypeOK, PutCopy, PutManifest, Pair
<1>2. \A r \in Execution : run[r].count \in Count \ {NoObject}
  BY RunFields, SnapshotAssumption DEF Count
<1>3. Month \in Prefix
  BY DEF Prefix
<1>4. ASSUME NEW r \in Execution, UploadCopy(r) \/ UploadManifest(r)
      PROVE  Grows
  BY <1>1, <1>2, <1>4, RunFields DEF UploadCopy, UploadManifest
<1>5. ASSUME NEW r \in Execution, MonthCopy(r) PROVE Grows
  <2>1. bucketed[run[r].day].copy \in Count \ {NoObject}
    BY <1>5, RunFields DEF MonthCopy, At, UploadsOK, Uploaded, Held
  <2> QED BY <1>1, <1>3, <1>5, <2>1 DEF MonthCopy
<1>6. ASSUME NEW r \in Execution, MonthManifest(r) PROVE Grows
  <2>1. bucketed[run[r].day].manifest \in Count \ {NoObject}
    BY <1>6, RunFields DEF MonthManifest, At, UploadsOK, Uploaded, Held
  <2> QED BY <1>1, <1>3, <1>6, <2>1 DEF MonthManifest
<1>7. ASSUME bucketed' = bucketed PROVE Grows
  BY <1>7
<1>8. ASSUME NEW r \in Execution,
             \/ Begin(r) \/ CopyDatabase(r) \/ PutLatest(r)
             \/ SnapshotFails(r) \/ CheckReplica(r) \/ Report(r) \/ Kill(r)
      PROVE  bucketed' = bucketed
  BY <1>8 DEF Begin, CopyDatabase, PutLatest, SnapshotFails, CheckReplica,
              Report, Kill, ListReplica, WriteProbe, StartRestore, Restored,
              ProbeFound, CheckFails, Ping, objects
<1>9. ASSUME CatalogWrite \/ Litestream \/ UNCHANGED snapVars
      PROVE  bucketed' = bucketed
  BY <1>9 DEF CatalogWrite, Litestream, Upload, Compact, objects, snapVars
<1> QED
  BY <1>4, <1>5, <1>6, <1>7, <1>8, <1>9 DEF SnapNext, TakeSnapshot

-----------------------------------------------------------------------------
(* Where each step takes its run.                                          *)

(* Only r moves, to the stage given, and is the run it was.                *)
Goes(r, stage) ==
  /\ run'[r].pc = stage
  /\ run'[r].day = run[r].day /\ run'[r].base = run[r].base
  /\ run'[r].ping = run[r].ping
  /\ \A q \in Execution \ {r} : run'[q] = run[q]

Counts(r, count) == run'[r].count = count
Errs(r, errors) == run'[r].errors = run[r].errors \union errors
Ended == IF Replicating THEN "list" ELSE "ping"

LEMMA SnapshotMoves ==
  ASSUME SnapTypeOK, NEW r \in Execution
  PROVE
  /\ Begin(r) =>
       /\ run'[r].pc = "copy" /\ run'[r].base = db.writes
       /\ run'[r].errors = run[r].errors /\ run'[r].ping = run[r].ping
       /\ \A q \in Execution \ {r} : run'[q] = run[q]
  /\ CopyDatabase(r) => Goes(r, "upload") /\ Counts(r, db.writes) /\ Errs(r, {})
  /\ UploadCopy(r) =>
       Goes(r, "manifest") /\ Counts(r, run[r].count) /\ Errs(r, {})
  /\ UploadManifest(r) =>
       /\ Goes(r, IF run[r].day = 1 THEN "month_copy" ELSE "latest")
       /\ Counts(r, run[r].count) /\ Errs(r, {})
  /\ MonthCopy(r) =>
       Goes(r, "month_manifest") /\ Counts(r, run[r].count) /\ Errs(r, {})
  /\ MonthManifest(r) =>
       Goes(r, "latest") /\ Counts(r, run[r].count) /\ Errs(r, {})
  /\ PutLatest(r) => Goes(r, Ended) /\ Errs(r, {})
  /\ SnapshotFails(r) => Goes(r, Ended) /\ Errs(r, {"snapshot"})
<1>1. run \in [Execution -> RunState] /\ run[r] \in RunState
  BY DEF SnapTypeOK
<1> USE <1>1 DEF RunState, Becomes, Goes, Counts, Errs
<1>2. Begin(r) =>
        /\ run'[r].pc = "copy" /\ run'[r].base = db.writes
        /\ run'[r].errors = run[r].errors /\ run'[r].ping = run[r].ping
        /\ \A q \in Execution \ {r} : run'[q] = run[q]
  BY DEF Begin
<1>3. CopyDatabase(r) => Goes(r, "upload") /\ Counts(r, db.writes) /\ Errs(r, {})
  BY DEF CopyDatabase
<1>4. UploadCopy(r) =>
        Goes(r, "manifest") /\ Counts(r, run[r].count) /\ Errs(r, {})
  BY DEF UploadCopy, GoTo
<1>5. UploadManifest(r) =>
        /\ Goes(r, IF run[r].day = 1 THEN "month_copy" ELSE "latest")
        /\ Counts(r, run[r].count) /\ Errs(r, {})
  BY DEF UploadManifest, GoTo
<1>6. MonthCopy(r) =>
        Goes(r, "month_manifest") /\ Counts(r, run[r].count) /\ Errs(r, {})
  BY DEF MonthCopy, GoTo
<1>7. MonthManifest(r) =>
        Goes(r, "latest") /\ Counts(r, run[r].count) /\ Errs(r, {})
  BY DEF MonthManifest, GoTo
<1>8. PutLatest(r) => Goes(r, Ended) /\ Errs(r, {})
  BY DEF PutLatest, EndSnapshot, Ended
<1>9. SnapshotFails(r) => Goes(r, Ended) /\ Errs(r, {"snapshot"})
  BY DEF SnapshotFails, EndSnapshot, Ended
<1> QED BY <1>2, <1>3, <1>4, <1>5, <1>6, <1>7, <1>8, <1>9

LEMMA CheckMoves ==
  ASSUME SnapTypeOK, NEW r \in Execution
  PROVE
  /\ ListReplica(r) => Goes(r, "probe") /\ Errs(r, {})
  /\ WriteProbe(r) => Goes(r, "wait") /\ Errs(r, {})
  /\ StartRestore(r) => Goes(r, "restoring") /\ Errs(r, {})
  /\ Restored(r) => Goes(r, "compare") /\ Errs(r, {})
  /\ ProbeFound(r) => Goes(r, "ping") /\ Errs(r, {})
  /\ CheckFails(r) => Goes(r, "ping") /\ Errs(r, {"replication"})
  /\ Report(r) \/ Kill(r) =>
       /\ run'[r].pc \in {"done", "killed"} /\ run'[r].base = 0
       /\ \A q \in Execution \ {r} : run'[q] = run[q]
<1>1. run \in [Execution -> RunState] /\ run[r] \in RunState
  BY DEF SnapTypeOK
<1> USE <1>1 DEF RunState, Becomes, Goes, Errs
<1>2. ListReplica(r) => Goes(r, "probe") /\ Errs(r, {})
  BY DEF ListReplica
<1>3. WriteProbe(r) => Goes(r, "wait") /\ Errs(r, {})
  BY DEF WriteProbe, GoTo
<1>4. StartRestore(r) => Goes(r, "restoring") /\ Errs(r, {})
  BY DEF StartRestore
<1>5. Restored(r) => Goes(r, "compare") /\ Errs(r, {})
  BY DEF Restored, GoTo
<1>6. ProbeFound(r) => Goes(r, "ping") /\ Errs(r, {})
  BY DEF ProbeFound, GoTo
<1>7. CheckFails(r) => Goes(r, "ping") /\ Errs(r, {"replication"})
  BY DEF CheckFails
<1>8. Report(r) \/ Kill(r) =>
        /\ run'[r].pc \in {"done", "killed"} /\ run'[r].base = 0
        /\ \A q \in Execution \ {r} : run'[q] = run[q]
  <2>1. CASE Kill(r)
    BY <2>1 DEF Kill, NotRun
  <2>2. ASSUME NEW ping,
               Becomes(r, [NotRun EXCEPT !.pc = "done", !.ping = ping])
        PROVE  /\ run'[r].pc = "done" /\ run'[r].base = 0
               /\ \A q \in Execution \ {r} : run'[q] = run[q]
    BY <2>2 DEF NotRun
  <2>3. CASE Report(r)
    BY <2>2, <2>3 DEF Report, Ping
  <2> QED BY <2>1, <2>3
<1> QED BY <1>2, <1>3, <1>4, <1>5, <1>6, <1>7, <1>8

(* The steps of the world move no run.                                     *)
LEMMA WorldMoves ==
  ASSUME SnapTypeOK, CatalogWrite \/ Litestream \/ UNCHANGED snapVars,
         NEW q \in Execution
  PROVE  /\ run'[q].pc = run[q].pc
         /\ run'[q].day = run[q].day /\ run'[q].base = run[q].base
         /\ run'[q].count = run[q].count /\ run'[q].errors = run[q].errors
<1>1. run \in [Execution -> RunState] /\ run[q] \in RunState
  BY DEF SnapTypeOK
<1>2. ASSUME NewKey
      PROVE  run'[q] = run[q] \/ run'[q] = [run[q] EXCEPT !.fresh = TRUE]
  BY <1>1, <1>2 DEF NewKey
<1>3. run'[q] = run[q] \/ run'[q] = [run[q] EXCEPT !.fresh = TRUE]
  BY <1>2 DEF CatalogWrite, Litestream, Upload, Compact, snapVars
<1> QED BY <1>1, <1>3 DEF RunState

-----------------------------------------------------------------------------
(* What runs have put into the bucket.                                     *)

(* A run that is where it was still has what it had.                       *)
LEMMA StillUploaded ==
  ASSUME SnapTypeOK, UploadsOK, [SnapNext]_snapVars, NEW q \in Execution,
         run'[q].pc = run[q].pc, run'[q].day = run[q].day,
         run'[q].errors = run[q].errors
  PROVE  Uploaded(q)'
<1>1. run[q].day \in Prefix /\ Month \in Prefix
  BY RunFields DEF Prefix
<1>2. Uploaded(q)
  BY DEF UploadsOK
<1> QED BY <1>1, <1>2, Kept DEF Uploaded, Held, At

LEMMA UploadsStep ==
  ASSUME SnapTypeOK, UploadsOK, [SnapNext]_snapVars PROVE UploadsOK'
<1> USE Stages
<1>1. ASSUME NEW r \in Execution, Uploaded(r)',
             \A q \in Execution \ {r} : run'[q] = run[q]
      PROVE  UploadsOK'
  BY <1>1, StillUploaded DEF UploadsOK
<1>2. ASSUME NEW r \in Execution, TakeSnapshot(r) PROVE Uploaded(r)'
  <2> DEFINE day == run[r].day
  <2>0. /\ Uploaded(r) /\ day \in Prefix /\ Month \in Prefix
        /\ run[r].count # NoObject
    BY RunFields, SnapshotAssumption DEF UploadsOK, Prefix
  <2> USE <2>0, SnapshotMoves DEF Uploaded, Held, At, Goes, Errs, CheckSteps
  <2>1. CASE Begin(r)
    BY <2>1
  <2>2. CASE CopyDatabase(r)
    BY <2>2
  <2>3. CASE UploadCopy(r)
    <3>1. bucketed'[day].copy = run[r].count
      BY <2>3, PutEffects DEF UploadCopy
    <3> QED BY <2>3, <3>1
  <2>4. CASE UploadManifest(r)
    <3>1. bucketed'[day].manifest = run[r].count
      BY <2>4, PutEffects DEF UploadManifest
    <3>2. bucketed'[day].copy # NoObject
      BY <2>4, Kept DEF UploadManifest
    <3> QED BY <2>4, <3>1, <3>2
  <2>5. CASE MonthCopy(r)
    <3>1. bucketed'[Month].copy = bucketed[day].copy
      BY <2>5, PutEffects DEF MonthCopy
    <3>2. Held(day) /\ Held(day)'
      BY <2>5, Kept DEF MonthCopy
    <3> QED BY <2>5, <3>1, <3>2
  <2>6. CASE MonthManifest(r)
    <3>1. bucketed'[Month].manifest = bucketed[day].manifest
      BY <2>6, PutEffects DEF MonthManifest
    <3>2. Held(day) /\ Held(day)' /\ bucketed'[Month].copy # NoObject
      BY <2>6, Kept DEF MonthManifest
    <3> QED BY <2>6, <3>1, <3>2
  <2>7. CASE PutLatest(r)
    BY <2>7 DEF PutLatest, Ended
  <2>8. CASE SnapshotFails(r)
    BY <2>8 DEF Ended
  <2> QED
    BY <1>2, <2>1, <2>2, <2>3, <2>4, <2>5, <2>6, <2>7, <2>8 DEF TakeSnapshot
<1>3. ASSUME NEW r \in Execution, CheckReplica(r) PROVE Uploaded(r)'
  <2>1. /\ Uploaded(r) /\ run[r].pc \in CheckSteps
        /\ bucketed' = bucketed
    BY <1>3 DEF UploadsOK, At, CheckSteps, CheckReplica, ListReplica, WriteProbe,
                StartRestore, Restored, ProbeFound, CheckFails, objects
  <2>2. run'[r].pc \in CheckSteps \union {"ping"} /\ run'[r].day = run[r].day
        /\ run[r].errors \subseteq run'[r].errors
    BY <1>3, CheckMoves DEF CheckReplica, Goes, Errs, CheckSteps
  <2> QED BY <2>1, <2>2 DEF Uploaded, Held, At, CheckSteps
<1>4. ASSUME NEW r \in Execution, Report(r) \/ Kill(r) PROVE Uploaded(r)'
  BY <1>4, CheckMoves DEF Uploaded, At, CheckSteps
<1>5. ASSUME NEW r \in Execution,
             TakeSnapshot(r) \/ CheckReplica(r) \/ Report(r) \/ Kill(r)
      PROVE  \A q \in Execution \ {r} : run'[q] = run[q]
  BY <1>5, SnapshotMoves, CheckMoves DEF TakeSnapshot, CheckReplica, Goes
<1>6. CASE CatalogWrite \/ Litestream \/ UNCHANGED snapVars
  BY <1>6, WorldMoves, StillUploaded DEF UploadsOK
<1> QED BY <1>1, <1>2, <1>3, <1>4, <1>5, <1>6 DEF SnapNext

-----------------------------------------------------------------------------
(* latest.json.                                                            *)

LEMMA LatestStep ==
  ASSUME SnapTypeOK, UploadsOK, LatestNamesSnapshot, [SnapNext]_snapVars
  PROVE  LatestNamesSnapshot'
<1>1. Month \in Prefix /\ latest.day \in Prefix
  BY DEF SnapTypeOK, Prefix
<1>2. CASE latest' = latest
  BY <1>1, <1>2, Kept DEF LatestNamesSnapshot
<1>3. ASSUME NEW r \in Execution, PutLatest(r)
      PROVE  LatestNamesSnapshot'
  <2>1. Held(run[r].day) /\ (run[r].day = 1 => Held(Month))
    BY <1>3 DEF PutLatest, UploadsOK, Uploaded, At
  <2>2. /\ latest' = [day |-> run[r].day, count |-> run[r].count]
        /\ bucketed' = bucketed
    BY <1>3 DEF PutLatest
  <2> QED BY <2>1, <2>2 DEF LatestNamesSnapshot, Held
<1>4. ASSUME NEW r \in Execution,
             \/ Begin(r) \/ CopyDatabase(r) \/ UploadCopy(r)
             \/ UploadManifest(r) \/ MonthCopy(r) \/ MonthManifest(r)
             \/ SnapshotFails(r) \/ CheckReplica(r) \/ Report(r) \/ Kill(r)
      PROVE  latest' = latest
  BY <1>4 DEF Begin, CopyDatabase, UploadCopy, UploadManifest, MonthCopy,
              MonthManifest, SnapshotFails, CheckReplica, Report, Kill,
              ListReplica, WriteProbe, StartRestore, Restored, ProbeFound,
              CheckFails, Ping, PutCopy, PutManifest, objects
<1>5. ASSUME CatalogWrite \/ Litestream \/ UNCHANGED snapVars
      PROVE  latest' = latest
  BY <1>5 DEF CatalogWrite, Litestream, Upload, Compact, objects, snapVars
<1> QED BY <1>2, <1>3, <1>4, <1>5 DEF SnapNext, TakeSnapshot

-----------------------------------------------------------------------------
(* Probes.                                                                 *)

LEMMA ProbesStep ==
  ASSUME SnapTypeOK, ProbesOK, [SnapNext]_snapVars PROVE ProbesOK'
<1> USE Stages
<1>1. /\ db \in Content /\ up \in Content /\ scratch \in Content \union {NoFile}
      /\ db.writes \in Nat /\ up.writes \in Nat /\ up.writes <= db.writes
    BY SnapshotAssumption DEF SnapTypeOK, Content, ProbesOK
<1>2. \A r \in Execution : /\ ProbeMeans(r) /\ r # Nobody
                           /\ run[r].base \in Nat /\ run[r].count \in Nat
  BY RunFields, SnapshotAssumption DEF ProbesOK
<1>3. ASSUME NEW r \in Execution, TakeSnapshot(r) PROVE ProbesOK'
  <2>1. UNCHANGED <<db, up, scratch>>
    BY <1>3 DEF TakeSnapshot, Begin, CopyDatabase, UploadCopy, UploadManifest,
                MonthCopy, MonthManifest, PutLatest, SnapshotFails, EndSnapshot,
                files
  <2>2. \A q \in Execution \ {r} : run'[q] = run[q]
    BY <1>3, SnapshotMoves DEF TakeSnapshot, Goes
  <2>3. \A q \in Execution \ {r} : ProbeMeans(q)'
    BY <1>2, <2>1, <2>2 DEF ProbeMeans, At
  <2>4. ProbeMeans(r)'
    <3> USE <1>1, <1>2, <2>1, SnapshotMoves
        DEF ProbeMeans, At, Goes, Counts, Errs, SnapshotSteps
    <3>1. CASE Begin(r)
      <4>1. /\ r \notin {db.probe, up.probe}
            /\ scratch # NoFile => scratch.probe # r
        BY <3>1 DEF Begin
      <4>2. run'[r].pc = "copy" /\ run'[r].base = db.writes
        BY <3>1
      <4> QED BY <4>1, <4>2
    <3>2. CASE CopyDatabase(r)
      BY <3>2 DEF CopyDatabase
    <3>3. CASE UploadCopy(r)
      BY <3>3 DEF UploadCopy
    <3>4. CASE UploadManifest(r)
      BY <3>4 DEF UploadManifest
    <3>5. CASE MonthCopy(r)
      BY <3>5 DEF MonthCopy
    <3>6. CASE MonthManifest(r)
      BY <3>6 DEF MonthManifest
    <3>7. CASE PutLatest(r) \/ SnapshotFails(r)
      BY <3>7 DEF Ended
    <3> QED
      BY <1>3, <3>1, <3>2, <3>3, <3>4, <3>5, <3>6, <3>7 DEF TakeSnapshot
  <2> QED BY <1>1, <2>1, <2>3, <2>4 DEF ProbesOK
<1>4. ASSUME NEW r \in Execution, CheckReplica(r) PROVE ProbesOK'
  <2>1. /\ up' = up /\ db'.writes = db.writes /\ db'.probe \in {r, db.probe}
        /\ scratch' \in {NoFile, scratch, up}
    BY <1>1, <1>4 DEF CheckReplica, ListReplica, WriteProbe, StartRestore,
              Restored, ProbeFound, CheckFails, files, Content
  <2>2. /\ \A q \in Execution \ {r} : run'[q] = run[q]
        /\ run'[r].pc \in CheckSteps \union {"ping"}
        /\ run'[r].base = run[r].base
    BY <1>4, CheckMoves DEF CheckReplica, Goes, CheckSteps
  <2>3. ASSUME NEW q \in Execution \ {r} PROVE ProbeMeans(q)'
    BY <1>1, <1>2, <2>1, <2>2 DEF ProbeMeans, At
  <2>4. run'[r].pc = "ping" /\ run'[r].errors = {} => run[r].base <= up.writes
    <3>1. CASE ProbeFound(r)
      BY <1>2, <3>1 DEF ProbeFound, ProbeMeans
    <3> QED BY <1>4, <3>1, CheckMoves DEF CheckReplica, Goes, Errs
  <2>5. ProbeMeans(r)'
    BY <1>1, <1>2, <2>1, <2>2, <2>4
       DEF ProbeMeans, At, SnapshotSteps, CheckSteps
  <2> QED BY <1>1, <2>1, <2>3, <2>5 DEF ProbesOK
<1>5. ASSUME NEW r \in Execution, Report(r) \/ Kill(r) PROVE ProbesOK'
  <2>1. UNCHANGED <<db, up, scratch>>
    BY <1>5 DEF Report, Ping, Kill, files
  <2>2. /\ run'[r].pc \in {"done", "killed"} /\ run'[r].base = 0
        /\ \A q \in Execution \ {r} : run'[q] = run[q]
    BY <1>5, CheckMoves
  <2>3. \A q \in Execution \ {r} : ProbeMeans(q)'
    BY <1>2, <2>1, <2>2 DEF ProbeMeans, At
  <2>4. /\ ProbeMeans(r)'
    BY <1>1, <1>2, <2>1, <2>2, SnapshotAssumption
       DEF ProbeMeans, At, SnapshotSteps, Content
  <2> QED BY <1>1, <2>1, <2>3, <2>4 DEF ProbesOK
<1>6. CASE CatalogWrite \/ Litestream \/ UNCHANGED snapVars
  <2>1. /\ scratch' = scratch /\ up' \in {up, db} /\ db'.probe = db.probe
        /\ db'.writes \in {db.writes, db.writes + 1}
        /\ db' # db => up' = up
    BY <1>1, <1>6 DEF CatalogWrite, Litestream, Upload, Compact, files, snapVars,
                      Content
  <2>2. ASSUME NEW q \in Execution PROVE ProbeMeans(q)'
    BY <1>1, <1>2, <1>6, <2>1, WorldMoves DEF ProbeMeans, At
  <2> QED BY <1>1, <2>1, <2>2 DEF ProbesOK
<1> QED BY <1>3, <1>4, <1>5, <1>6 DEF SnapNext


-----------------------------------------------------------------------------
(* A run that is alone.                                                    *)

(* What a step leaves of the bucket and of the other runs.                 *)
LEMMA Untouched ==
  ASSUME SnapTypeOK
  PROVE
  /\ [SnapNext]_snapVars => overlap' = overlap
  /\ \A r \in Execution :
       TakeSnapshot(r) \/ CheckReplica(r) \/ Report(r) \/ Kill(r) =>
         \A q \in Execution \ {r} : run'[q] = run[q]
  /\ CatalogWrite \/ Litestream \/ UNCHANGED snapVars =>
       bucketed' = bucketed /\ torn' = torn
<1>1. ASSUME NEW r \in Execution,
             TakeSnapshot(r) \/ CheckReplica(r) \/ Report(r) \/ Kill(r)
      PROVE  overlap' = overlap
  BY <1>1 DEF TakeSnapshot, Begin, CopyDatabase, UploadCopy, UploadManifest,
     MonthCopy, MonthManifest, PutLatest, SnapshotFails, EndSnapshot,
     CheckReplica, ListReplica, WriteProbe, StartRestore, Restored,
     ProbeFound, CheckFails, Report, Ping, Kill
<1>2. CatalogWrite \/ Litestream \/ UNCHANGED snapVars =>
        overlap' = overlap /\ bucketed' = bucketed /\ torn' = torn
  BY DEF CatalogWrite, Litestream, Upload, Compact, snapVars, objects
<1>3. ASSUME NEW r \in Execution,
             TakeSnapshot(r) \/ CheckReplica(r) \/ Report(r) \/ Kill(r)
      PROVE  \A q \in Execution \ {r} : run'[q] = run[q]
  BY <1>3, SnapshotMoves, CheckMoves DEF TakeSnapshot, CheckReplica, Goes
<1> QED BY <1>1, <1>2, <1>3 DEF SnapNext

LEMMA BucketUntouched ==
  ASSUME NEW r,
         \/ Begin(r) \/ CopyDatabase(r) \/ PutLatest(r)
         \/ SnapshotFails(r) \/ CheckReplica(r) \/ Report(r) \/ Kill(r)
  PROVE  bucketed' = bucketed /\ torn' = torn
  BY DEF Begin, CopyDatabase, PutLatest, SnapshotFails, CheckReplica, Report,
         Kill, ListReplica, WriteProbe, StartRestore, Restored, ProbeFound,
         CheckFails, Ping, objects

LEMMA IdleOwnsNothing ==
  ASSUME NEW q, ~IsActive(q) PROVE Owned(q)
  BY DEF Owned, At, IsActive, Active, SnapshotSteps, CheckSteps

(* Without overlap every other run is idle, and stays so.                  *)
LEMMA OthersIdle ==
  ASSUME SnapTypeOK, AloneOK, ~overlap, NEW r \in Execution,
         TakeSnapshot(r) \/ CheckReplica(r) \/ Report(r) \/ Kill(r),
         NEW q \in Execution \ {r}
  PROVE  ~IsActive(q) /\ ~IsActive(q)'
<1>1. CASE Begin(r)
  BY <1>1, Untouched DEF Begin, TakeSnapshot, IsActive
<1>2. CASE IsActive(r)
  BY <1>2, Untouched DEF AloneOK, OneRun, IsActive
<1>3. Begin(r) \/ IsActive(r)
  BY DEF TakeSnapshot, CopyDatabase, UploadCopy, UploadManifest, MonthCopy,
         MonthManifest, PutLatest, SnapshotFails, CheckReplica, ListReplica,
         WriteProbe, StartRestore, Restored, ProbeFound, CheckFails, Report,
         Ping, Kill, At, IsActive, Active, SnapshotSteps, CheckSteps
<1> QED BY <1>1, <1>2, <1>3

LEMMA AloneStep ==
  ASSUME SnapTypeOK, UploadsOK, AloneOK, ProbesOK, [SnapNext]_snapVars
  PROVE  AloneOK'
<1> SUFFICES ASSUME ~overlap
             PROVE  OneRun' /\ \A r \in Execution : Owned(r)'
  BY Untouched DEF AloneOK
<1>1. ASSUME NEW r \in Execution, Owned(r)',
             TakeSnapshot(r) \/ CheckReplica(r) \/ Report(r) \/ Kill(r)
      PROVE  OneRun' /\ \A q \in Execution : Owned(q)'
  <2>1. \A q \in Execution \ {r} : ~IsActive(q)'
    BY <1>1, OthersIdle
  <2>2. \A q \in Execution \ {r} : Owned(q)'
    BY <2>1 DEF Owned, At, IsActive, Active, SnapshotSteps, CheckSteps
  <2> QED BY <1>1, <2>1, <2>2 DEF OneRun
<1>2. ASSUME NEW r \in Execution, TakeSnapshot(r) PROVE Owned(r)'
  <2> DEFINE day == run[r].day
  <2>0. /\ Owned(r) /\ day \in Prefix /\ Month \in Prefix /\ day # Month
    BY RunFields DEF AloneOK, Prefix, Day, Month
  <2> USE <2>0, SnapshotMoves DEF Owned, At, Goes, Counts, Errs, CheckSteps
  <2>1. CASE Begin(r)
    BY <2>1
  <2>2. CASE CopyDatabase(r)
    BY <2>2
  <2>3. CASE UploadCopy(r)
    <3>1. bucketed'[day].copy = run[r].count
      BY <2>3, PutEffects, RunFields DEF UploadCopy
    <3>2. run[r].count >= run[r].base
      BY <2>3, RunFields DEF UploadCopy, ProbesOK, ProbeMeans, SnapshotSteps
    <3> QED BY <2>3, <3>1, <3>2
  <2>4. CASE UploadManifest(r)
    <3>1. /\ bucketed'[day].manifest = run[r].count
          /\ bucketed'[day].copy = bucketed[day].copy
      BY <2>4, PutEffects, RunFields DEF UploadManifest
    <3> QED BY <2>4, <3>1 DEF UploadManifest
  <2>5. CASE MonthCopy(r)
    <3>1. /\ bucketed'[Month].copy = bucketed[day].copy
          /\ bucketed'[day] = bucketed[day]
      BY <2>5, PutEffects, RunFields DEF MonthCopy
    <3> QED BY <2>5, <3>1 DEF MonthCopy
  <2>6. CASE MonthManifest(r)
    <3>1. bucketed'[day] = bucketed[day]
      BY <2>6, PutEffects, RunFields DEF MonthManifest
    <3> QED BY <2>6, <3>1 DEF MonthManifest
  <2>7. CASE PutLatest(r)
    BY <2>7 DEF PutLatest, Ended
  <2>8. CASE SnapshotFails(r)
    BY <2>8 DEF Ended
  <2> QED
    BY <1>2, <2>1, <2>2, <2>3, <2>4, <2>5, <2>6, <2>7, <2>8 DEF TakeSnapshot
<1>3. ASSUME NEW r \in Execution, CheckReplica(r) PROVE Owned(r)'
  <2>1. Owned(r) /\ bucketed' = bucketed
    <3>1. Owned(r)
      BY DEF AloneOK
    <3> QED BY <1>3, <3>1, BucketUntouched
  <2>3. run[r].pc \in CheckSteps
    BY <1>3 DEF At, CheckSteps, CheckReplica, ListReplica, WriteProbe,
                StartRestore, Restored, ProbeFound, CheckFails
  <2>2. /\ run'[r].pc \in CheckSteps \union {"ping"}
        /\ run'[r].day = run[r].day /\ run'[r].base = run[r].base
        /\ run[r].errors \subseteq run'[r].errors
    BY <1>3, CheckMoves DEF CheckReplica, Goes, Errs, CheckSteps
  <2> QED BY <2>1, <2>2, <2>3 DEF Owned, At, CheckSteps
<1>4. ASSUME NEW r \in Execution, Report(r) \/ Kill(r) PROVE Owned(r)'
  BY <1>4, CheckMoves DEF Owned, At, CheckSteps
<1>5. CASE CatalogWrite \/ Litestream \/ UNCHANGED snapVars
  BY <1>5, WorldMoves, Untouched DEF AloneOK, OneRun, IsActive, Owned, At
<1> QED BY <1>1, <1>2, <1>3, <1>4, <1>5 DEF SnapNext

-----------------------------------------------------------------------------
(* The copy and its manifest.                                              *)

LEMMA PairsStep ==
  ASSUME SnapTypeOK, AloneOK, PairsAgree, [SnapNext]_snapVars
  PROVE  PairsAgree'
<1> SUFFICES ASSUME ~overlap, NEW p \in Prefix, p \notin torn'
             PROVE  bucketed'[p].copy = bucketed'[p].manifest
  BY Untouched DEF PairsAgree
<1>0. Month \in Prefix
  BY DEF Prefix
<1>1. CASE bucketed' = bucketed /\ torn' = torn
  BY <1>1 DEF PairsAgree
<1>2. ASSUME NEW q \in Prefix, NEW count, PutCopy(q, count)
      PROVE  bucketed'[p].copy = bucketed'[p].manifest
  <2>1. p # q /\ p \notin torn
    BY <1>2 DEF PutCopy
  <2> QED BY <1>2, <2>1, PutEffects DEF PairsAgree
<1>3. ASSUME NEW q \in Prefix, NEW count, PutManifest(q, count),
             bucketed[q].copy = count
      PROVE  bucketed'[p].copy = bucketed'[p].manifest
  <2>1. CASE p = q
    BY <1>3, <2>1, PutEffects
  <2>2. CASE p # q
    <3>1. p \notin torn
      BY <1>3, <2>2 DEF PutManifest
    <3> QED BY <1>3, <2>2, <3>1, PutEffects DEF PairsAgree
  <2> QED BY <2>1, <2>2
<1>4. ASSUME NEW r \in Execution, UploadCopy(r) \/ MonthCopy(r)
      PROVE  bucketed'[p].copy = bucketed'[p].manifest
  BY <1>0, <1>2, <1>4, RunFields DEF UploadCopy, MonthCopy
<1>5. ASSUME NEW r \in Execution, UploadManifest(r) \/ MonthManifest(r)
      PROVE  bucketed'[p].copy = bucketed'[p].manifest
  <2>1. Owned(r) /\ run[r].day \in Prefix
    BY RunFields DEF AloneOK
  <2>2. CASE UploadManifest(r)
    <3>1. /\ PutManifest(run[r].day, run[r].count)
          /\ bucketed[run[r].day].copy = run[r].count
      BY <2>1, <2>2 DEF UploadManifest, Owned
    <3> QED BY <1>3, <2>1, <3>1
  <2>3. CASE MonthManifest(r)
    <3>1. /\ PutManifest(Month, bucketed[run[r].day].manifest)
          /\ bucketed[Month].copy = bucketed[run[r].day].manifest
      BY <2>1, <2>3 DEF MonthManifest, Owned, At
    <3> QED BY <1>0, <1>3, <3>1
  <2> QED BY <1>5, <2>2, <2>3
<1>6. ASSUME NEW r \in Execution,
             \/ Begin(r) \/ CopyDatabase(r) \/ PutLatest(r) \/ SnapshotFails(r)
             \/ CheckReplica(r) \/ Report(r) \/ Kill(r)
      PROVE  bucketed'[p].copy = bucketed'[p].manifest
  BY <1>1, <1>6, BucketUntouched
<1>7. CASE CatalogWrite \/ Litestream \/ UNCHANGED snapVars
  BY <1>1, <1>7, Untouched
<1> QED BY <1>4, <1>5, <1>6, <1>7 DEF SnapNext, TakeSnapshot


-----------------------------------------------------------------------------
(* What is left on the disk.                                               *)

LEMMA LeftStep ==
  ASSUME SnapTypeOK, AloneOK, NothingLeftBehind, [SnapNext]_snapVars
  PROVE  NothingLeftBehind'
<1> USE Stages
<1> DEFINE Mine(q) == q \in copies => run[q].pc \in SnapshotSteps \union {"killed"}
           Keeps(q) == run[q].pc \in {"compare", "killed"}
           Clear == ~overlap =>
                      \A q \in Execution : At(q, "restoring") => scratch = NoFile
<1>0. /\ \A q \in Execution : Mine(q)
      /\ scratch # NoFile => \E q \in Execution : Keeps(q)
      /\ Clear /\ copies \subseteq Execution
  BY DEF NothingLeftBehind, SnapTypeOK
<1>1. ASSUME NEW r \in Execution, TakeSnapshot(r) PROVE NothingLeftBehind'
  <2>1. \A q \in Execution \ {r} : run'[q] = run[q]
    BY <1>1, Untouched
  <2>2. /\ scratch' = scratch /\ overlap' = overlap
        /\ run[r].pc \in SnapshotSteps \union {"new"}
    BY <1>1 DEF TakeSnapshot, Begin, CopyDatabase, UploadCopy, UploadManifest,
       MonthCopy, MonthManifest, PutLatest, SnapshotFails, EndSnapshot, At,
       SnapshotSteps, files
  <2>3. copies' \subseteq copies \union {r}
    BY <1>1 DEF TakeSnapshot, Begin, CopyDatabase, UploadCopy, UploadManifest,
       MonthCopy, MonthManifest, PutLatest, SnapshotFails, EndSnapshot, files
  <2>4. /\ run'[r].pc # "restoring"
        /\ run'[r].pc \in SnapshotSteps \/ r \notin copies'
    <3>1. CASE PutLatest(r) \/ SnapshotFails(r)
      <4>1. r \notin copies'
        BY <3>1 DEF PutLatest, SnapshotFails, EndSnapshot
      <4>2. run'[r].pc = Ended
        BY <3>1, SnapshotMoves DEF Goes
      <4> QED BY <4>1, <4>2 DEF Ended
    <3>2. CASE ~(PutLatest(r) \/ SnapshotFails(r))
      BY <1>1, <3>2, SnapshotMoves DEF TakeSnapshot, Goes, SnapshotSteps
    <3> QED BY <3>1, <3>2
  <2>5. \A q \in copies' : run'[q].pc \in SnapshotSteps \union {"killed"}
    BY <1>0, <2>1, <2>3, <2>4
  <2>6. scratch' # NoFile => \E q \in Execution : Keeps(q)'
    BY <1>0, <2>1, <2>2 DEF SnapshotSteps
  <2>7. Clear'
    BY <1>0, <2>1, <2>2, <2>4 DEF At
  <2> QED BY <2>5, <2>6, <2>7 DEF NothingLeftBehind
<1>2. ASSUME NEW r \in Execution, CheckReplica(r) PROVE NothingLeftBehind'
  <2>1. \A q \in Execution \ {r} : run'[q] = run[q]
    BY <1>2, Untouched
  <2>2. copies' = copies /\ overlap' = overlap
    BY <1>2 DEF CheckReplica, ListReplica, WriteProbe, StartRestore, Restored,
       ProbeFound, CheckFails, files
  <2>3. run[r].pc \in CheckSteps
    BY <1>2 DEF At, CheckSteps, CheckReplica, ListReplica, WriteProbe,
                StartRestore, Restored, ProbeFound, CheckFails
  <2>4. \A q \in copies' : run'[q].pc \in SnapshotSteps \union {"killed"}
    BY <1>0, <2>1, <2>2, <2>3 DEF CheckSteps, SnapshotSteps
  <2>5. scratch' # NoFile => \E q \in Execution : Keeps(q)'
    <3>1. CASE Restored(r)
      BY <3>1, CheckMoves DEF Goes
    <3>2. CASE ~Restored(r)
      <4>1. scratch' # NoFile => scratch' = scratch /\ run[r].pc # "compare"
        BY <1>2, <3>2 DEF CheckReplica, ListReplica, WriteProbe, StartRestore,
           ProbeFound, CheckFails, files, At
      <4> QED BY <1>0, <2>1, <2>3, <4>1 DEF CheckSteps
    <3> QED BY <3>1, <3>2
  <2>6. Clear'
    <3> SUFFICES ASSUME ~overlap, NEW q \in Execution,
                        run'[q].pc = "restoring"
                 PROVE  scratch' = NoFile
      BY <2>2 DEF At
    <3>1. q = r
      <4>1. ASSUME q # r PROVE FALSE
        <5>1. ~IsActive(q)'
          BY <1>2, <4>1, OthersIdle
        <5> QED BY <5>1 DEF IsActive
      <4> QED BY <4>1
    <3>2. StartRestore(r)
      BY <1>2, <3>1, CheckMoves DEF CheckReplica, Goes
    <3> QED BY <3>2 DEF StartRestore
  <2> QED BY <2>4, <2>5, <2>6 DEF NothingLeftBehind
<1>3. ASSUME NEW r \in Execution, Report(r) \/ Kill(r)
      PROVE  NothingLeftBehind'
  <2>1. /\ \A q \in Execution \ {r} : run'[q] = run[q]
        /\ run'[r].pc \in {"done", "killed"}
    BY <1>3, CheckMoves
  <2>2. UNCHANGED <<copies, scratch, overlap>>
    BY <1>3 DEF Report, Ping, Kill, files
  <2>3. Report(r) => run[r].pc = "ping"
    BY DEF Report, Ping, At
  <2>4. Kill(r) => run'[r].pc = "killed"
    BY RunFields DEF Kill, Becomes, NotRun, SnapTypeOK
  <2>5. \A q \in copies' : run'[q].pc \in SnapshotSteps \union {"killed"}
    BY <1>0, <1>3, <2>1, <2>2, <2>3, <2>4 DEF SnapshotSteps
  <2>6. scratch' # NoFile => \E q \in Execution : Keeps(q)'
    BY <1>0, <1>3, <2>1, <2>2, <2>3, <2>4
  <2>7. Clear'
    BY <1>0, <2>1, <2>2 DEF At
  <2> QED BY <2>5, <2>6, <2>7 DEF NothingLeftBehind
<1>4. CASE CatalogWrite \/ Litestream \/ UNCHANGED snapVars
  <2>1. \A q \in Execution : run'[q].pc = run[q].pc
    BY <1>4, WorldMoves
  <2>2. UNCHANGED <<copies, scratch, overlap>>
    BY <1>4 DEF CatalogWrite, Litestream, Upload, Compact, snapVars, files
  <2>3. \A q \in copies' : run'[q].pc \in SnapshotSteps \union {"killed"}
    BY <1>0, <2>1, <2>2
  <2>4. scratch' # NoFile => \E q \in Execution : Keeps(q)'
    BY <1>0, <2>1, <2>2
  <2>5. Clear'
    BY <1>0, <2>1, <2>2 DEF At
  <2> QED BY <2>3, <2>4, <2>5 DEF NothingLeftBehind
<1> QED BY <1>1, <1>2, <1>3, <1>4 DEF SnapNext

-----------------------------------------------------------------------------
LEMMA InitSnapshots == SnapInit => SnapshotsOK
<1> SUFFICES ASSUME SnapInit PROVE SnapshotsOK
  OBVIOUS
<1>1. 0 \in 0 .. MaxWrites /\ 1 \in Day /\ NoObject # 0 /\ Nobody \notin Execution
  BY SnapshotAssumption DEF Day
<1>2. NotRun \in RunState /\ NotRun.pc = "new" /\ NotRun.base = 0
  BY <1>1 DEF NotRun, RunState
<1>3. SnapTypeOK
  BY <1>1, <1>2, SnapshotAssumption
     DEF SnapInit, SnapTypeOK, Content, Pair, Count
<1>4. \A r \in Execution : run[r].pc = "new" /\ run[r].base = 0
  BY <1>2 DEF SnapInit
<1>5. UploadsOK /\ AloneOK
  BY <1>4 DEF UploadsOK, Uploaded, AloneOK, OneRun, Owned, At, IsActive,
              Active, SnapshotSteps, CheckSteps
<1>6. ProbesOK
  BY <1>1, <1>4 DEF SnapInit, ProbesOK, ProbeMeans, At, SnapshotSteps
<1>7. LatestNamesSnapshot /\ PairsAgree /\ NothingLeftBehind
  BY <1>4 DEF SnapInit, LatestNamesSnapshot, PairsAgree, NothingLeftBehind, At
<1> QED BY <1>3, <1>5, <1>6, <1>7 DEF SnapshotsOK

LEMMA SnapshotsStep == SnapshotsOK /\ [SnapNext]_snapVars => SnapshotsOK'
  BY TypeStep, UploadsStep, AloneStep, ProbesStep, LatestStep, PairsStep,
     LeftStep DEF SnapshotsOK

(* What holds of the copies, the runs, the probes and the bucket together, *)
(* whatever fails, dies or overlaps, for any number of runs and writes.    *)
THEOREM SnapshotsInvariant == SnapSpec => []SnapshotsOK
  BY InitSnapshots, SnapshotsStep, PTL DEF SnapSpec

(* latest.json only ever names a snapshot that is there.                   *)
THEOREM LatestIsThere == SnapSpec => []LatestNamesSnapshot
<1>1. SnapshotsOK => LatestNamesSnapshot
  BY DEF SnapshotsOK
<1> QED BY <1>1, SnapshotsInvariant, PTL

(* Runs that follow one another leave no manifest beside another's copy.   *)
THEOREM ManifestsMatch == SnapSpec => []PairsAgree
<1>1. SnapshotsOK => PairsAgree
  BY DEF SnapshotsOK
<1> QED BY <1>1, SnapshotsInvariant, PTL

(* Only a killed run leaves a copy of the database on the disk.            *)
THEOREM DiskIsCleared == SnapSpec => []NothingLeftBehind
<1>1. SnapshotsOK => NothingLeftBehind
  BY DEF SnapshotsOK
<1> QED BY <1>1, SnapshotsInvariant, PTL

(* A success ping is sent only when the replica and the day's copy hold    *)
(* what the catalogue held before the run.                                 *)
THEOREM SuccessIsTrue == SnapSpec => PingHonest
<1> DEFINE Truth(r) ==
      run'[r].ping = "success" /\ run[r].ping # "success" =>
        /\ Replicating => up.writes >= run[r].base
        /\ bucketed[run[r].day].copy # NoObject
        /\ ~overlap => bucketed[run[r].day].copy >= run[r].base
<1>1. ASSUME SnapshotsOK, [SnapNext]_snapVars, NEW r \in Execution
      PROVE  Truth(r)
  <2> SUFFICES ASSUME run'[r].ping = "success", run[r].ping # "success"
               PROVE  /\ Replicating => up.writes >= run[r].base
                      /\ bucketed[run[r].day].copy # NoObject
                      /\ ~overlap => bucketed[run[r].day].copy >= run[r].base
    OBVIOUS
  <2>0. SnapTypeOK /\ run \in [Execution -> RunState]
    BY <1>1 DEF SnapshotsOK, SnapTypeOK
  <2>1. Report(r)
    <3>1. ASSUME NEW q \in Execution, TakeSnapshot(q) \/ CheckReplica(q)
          PROVE  run'[r].ping = run[r].ping
      <4>1. TakeSnapshot(q) => run'[q].ping = run[q].ping
        BY <2>0, SnapshotMoves DEF TakeSnapshot, Goes
      <4>2. CheckReplica(q) => run'[q].ping = run[q].ping
        BY <2>0, CheckMoves DEF CheckReplica, Goes
      <4> QED BY <2>0, <3>1, <4>1, <4>2, Untouched
    <3>2. ASSUME NEW q \in Execution, Kill(q) PROVE run'[r].ping # "success"
      BY <2>0, <3>2 DEF Kill, Becomes, NotRun, RunState
    <3>3. ASSUME NEW q \in Execution \ {r}, Report(q)
          PROVE  run'[r] = run[r]
      BY <2>0, <3>3, Untouched
    <3>4. ASSUME NewKey PROVE run'[r].ping = run[r].ping
      BY <2>0, <3>4 DEF NewKey, RunState
    <3>5. ASSUME CatalogWrite \/ Litestream \/ UNCHANGED snapVars
          PROVE  run'[r].ping = run[r].ping
      BY <3>4, <3>5 DEF CatalogWrite, Litestream, Upload, Compact, snapVars
    <3> QED BY <1>1, <3>1, <3>2, <3>3, <3>5 DEF SnapNext
  <2>2. At(r, "ping") /\ run[r].errors = {}
    <3>1. PICK arrived \in BOOLEAN : Ping(r, arrived)
      BY <2>1 DEF Report
    <3>2. CASE run[r].errors = {}
      BY <3>1, <3>2 DEF Ping
    <3>3. CASE run[r].errors # {}
      BY <2>0, <3>1, <3>3 DEF Ping, Becomes, NotRun
    <3> QED BY <3>2, <3>3
  <2>3. Uploaded(r) /\ ProbeMeans(r) /\ (~overlap => Owned(r))
    BY <1>1 DEF SnapshotsOK, UploadsOK, ProbesOK, AloneOK
  <2>4. up.writes \in Nat /\ run[r].base \in Nat
    BY <2>0, RunFields DEF SnapTypeOK, Content
  <2> QED BY <2>2, <2>3, <2>4 DEF Uploaded, ProbeMeans, Owned, Held, At
<1>2. SnapshotsOK /\ [SnapNext]_snapVars
        => [\A r \in Execution : Truth(r)]_run
  BY <1>1
<1> QED BY <1>2, SnapshotsInvariant, PTL DEF SnapSpec, PingHonest
=============================================================================
