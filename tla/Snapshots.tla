------------------------------ MODULE Snapshots ------------------------------
(***************************************************************************)
(* snapshot_db: the dated copies of the database in the backup bucket and  *)
(* the test restore of the replica.  The host's scheduler runs it once a   *)
(* day and every deploy runs it once more, so two runs may overlap.        *)
(*                                                                         *)
(* The catalogue only grows here, so a state of it is a number of writes   *)
(* and the ReplicationProbe row, whose moment names the run that wrote it. *)
(* Each call to the bucket, to the database and to Litestream is a step.   *)
(***************************************************************************)
EXTENDS Integers, FiniteSets

CONSTANTS
  Execution,   \* runs of snapshot_db, each run once
  LastDay,     \* bound: UTC days; day 1 is the first of its month
  MaxWrites,   \* bound: writes to the catalogue
  Replicating, \* LITESTREAM_MODE is "replicate"
  Overlaps,    \* the values overlap may start with
  NoObject, NoFile, Nobody

ASSUME SnapshotAssumption ==
  /\ LastDay \in Nat \ {0} /\ MaxWrites \in Nat
  /\ Replicating \in BOOLEAN /\ Overlaps \subseteq BOOLEAN
  /\ NoObject \notin Nat
  /\ Nobody \notin Execution
  /\ NoFile \notin [writes : Nat, probe : Execution \union {Nobody}]

VARIABLES
  db,       \* the live database
  bucketed, \* the copy and the manifest under each key prefix
  latest,   \* snapshots/latest.json
  today,    \* the UTC date when a run last began
  run,      \* how far each run of snapshot_db has come
  copies,   \* runs whose copy lies beside the database
  scratch,  \* restore-test.sqlite3 beside the database
  up,       \* what the replica restores to, if it restores
  torn,     \* history: prefixes whose copy is newer than their manifest
  overlap   \* never changes: runs may overlap

objects == <<bucketed, latest, torn>>
files == <<copies, scratch>>
snapVars == <<db, objects, today, run, files, up, overlap>>

Day == 1 .. LastDay
Month == 0
Prefix == Day \union {Month}

Content == [writes : 0 .. MaxWrites, probe : Execution \union {Nobody}]
Count == (0 .. MaxWrites) \union {NoObject}
Pair == [copy : Count, manifest : Count]

SnapshotSteps == {"copy", "upload", "manifest", "month_copy",
                  "month_manifest", "latest"}
CheckSteps == {"list", "probe", "wait", "restoring", "compare"}
Active == SnapshotSteps \union CheckSteps \union {"ping"}

(* fresh: a key has appeared under the replica path since the run listed   *)
(* it.  base is a history variable: the writes when the run began.         *)
RunState == [pc : Active \union {"new", "done", "killed"}, day : Day,
             base : 0 .. MaxWrites, count : 0 .. MaxWrites, fresh : BOOLEAN,
             errors : SUBSET {"snapshot", "replication"},
             ping : {"none", "success", "fail", "lost"}]

NotRun == [pc |-> "new", day |-> 1, base |-> 0, count |-> 0, fresh |-> FALSE,
           errors |-> {}, ping |-> "none"]

SnapTypeOK ==
  /\ db \in Content /\ up \in Content
  /\ scratch \in Content \union {NoFile}
  /\ bucketed \in [Prefix -> Pair]
  /\ latest \in [day : Day, count : Count]
  /\ today \in Day
  /\ run \in [Execution -> RunState]
  /\ copies \subseteq Execution
  /\ torn \subseteq Prefix
  /\ overlap \in BOOLEAN

SnapInit ==
  /\ db = [writes |-> 0, probe |-> Nobody] /\ up = db
  /\ scratch = NoFile
  /\ bucketed = [p \in Prefix |-> [copy |-> NoObject, manifest |-> NoObject]]
  /\ latest = [day |-> 1, count |-> NoObject]
  /\ today = 1
  /\ run = [r \in Execution |-> NotRun]
  /\ copies = {} /\ torn = {}
  /\ overlap \in Overlaps

At(r, step) == run[r].pc = step
IsActive(r) == run[r].pc \in Active
Becomes(r, state) == run' = [run EXCEPT ![r] = state]
GoTo(r, step) == Becomes(r, [run[r] EXCEPT !.pc = step])

-----------------------------------------------------------------------------
(* take_snapshot.                                                          *)

Begin(r) ==
  /\ At(r, "new")
  /\ overlap \/ \A q \in Execution : ~IsActive(q)
  /\ today' \in today .. LastDay
  /\ Becomes(r, [run[r] EXCEPT !.pc = "copy", !.day = today',
                               !.base = db.writes])
  /\ UNCHANGED <<db, objects, files, up, overlap>>

(* copy_database and gzip_file                                             *)
CopyDatabase(r) ==
  /\ At(r, "copy")
  /\ Becomes(r, [run[r] EXCEPT !.pc = "upload", !.count = db.writes])
  /\ copies' = copies \union {r}
  /\ UNCHANGED <<db, objects, today, scratch, up, overlap>>

(* Put one of the pair under a prefix; the pair is torn in between.        *)
PutCopy(p, count) ==
  /\ bucketed' = [bucketed EXCEPT ![p].copy = count]
  /\ torn' = torn \union {p}
  /\ UNCHANGED latest

PutManifest(p, count) ==
  /\ bucketed' = [bucketed EXCEPT ![p].manifest = count]
  /\ torn' = torn \ {p}
  /\ UNCHANGED latest

(* Seeded fault: latest.json written first.                                *)
UploadCopyNamed(r) ==
  /\ At(r, "upload")
  /\ bucketed' = [bucketed EXCEPT ![run[r].day].copy = run[r].count]
  /\ torn' = torn \union {run[r].day}
  /\ latest' = [day |-> run[r].day, count |-> run[r].count]
  /\ GoTo(r, "manifest")
  /\ UNCHANGED <<db, today, files, up, overlap>>

(* client.upload_file                                                      *)
UploadCopy(r) ==
  /\ At(r, "upload")
  /\ PutCopy(run[r].day, run[r].count)
  /\ GoTo(r, "manifest")
  /\ UNCHANGED <<db, today, files, up, overlap>>

(* Seeded fault: the records counted in the live database beforehand.      *)
UploadManifestEarly(r) ==
  /\ At(r, "manifest")
  /\ PutManifest(run[r].day, run[r].base)
  /\ GoTo(r, IF run[r].day = 1 THEN "month_copy" ELSE "latest")
  /\ UNCHANGED <<db, today, files, up, overlap>>

(* client.put_object of the manifest; on the 1st the month's copy follows. *)
UploadManifest(r) ==
  /\ At(r, "manifest")
  /\ PutManifest(run[r].day, run[r].count)
  /\ GoTo(r, IF run[r].day = 1 THEN "month_copy" ELSE "latest")
  /\ UNCHANGED <<db, today, files, up, overlap>>

(* client.copy_object, once for each of the pair                           *)
MonthCopy(r) ==
  /\ At(r, "month_copy")
  /\ PutCopy(Month, bucketed[run[r].day].copy)
  /\ GoTo(r, "month_manifest")
  /\ UNCHANGED <<db, today, files, up, overlap>>

MonthManifest(r) ==
  /\ At(r, "month_manifest")
  /\ PutManifest(Month, bucketed[run[r].day].manifest)
  /\ GoTo(r, "latest")
  /\ UNCHANGED <<db, today, files, up, overlap>>

(* The end of the snapshot, whether or not it failed: the copy is removed  *)
(* and the replica is checked all the same.                                *)
EndSnapshot(r, errors) ==
  /\ Becomes(r, [run[r] EXCEPT !.pc = IF Replicating THEN "list" ELSE "ping",
                               !.count = 0,
                               !.errors = @ \union errors])
  /\ copies' = copies \ {r}
  /\ UNCHANGED <<db, today, scratch, up, overlap>>

PutLatest(r) ==
  /\ At(r, "latest")
  /\ latest' = [day |-> run[r].day, count |-> run[r].count]
  /\ EndSnapshot(r, {})
  /\ UNCHANGED <<bucketed, torn>>

(* The disk is full, or the bucket does not answer.                        *)
SnapshotFails(r) ==
  /\ run[r].pc \in SnapshotSteps
  /\ EndSnapshot(r, {"snapshot"})
  /\ UNCHANGED objects

-----------------------------------------------------------------------------
(* check_replication.                                                      *)

ListReplica(r) ==
  /\ At(r, "list")
  /\ Becomes(r, [run[r] EXCEPT !.pc = "probe", !.fresh = FALSE])
  /\ UNCHANGED <<db, objects, today, files, up, overlap>>

WriteProbe(r) ==
  /\ At(r, "probe")
  /\ db' = [db EXCEPT !.probe = r]
  /\ GoTo(r, "wait")
  /\ UNCHANGED <<objects, today, files, up, overlap>>

-----------------------------------------------------------------------------
(* verify_restore.                                                         *)

(* A new key has appeared, so verify_restore begins: whatever an earlier   *)
(* run left is unlinked first.                                             *)
StartRestore(r) ==
  /\ At(r, "wait")
  /\ run[r].fresh
  /\ scratch' = NoFile
  /\ Becomes(r, [run[r] EXCEPT !.pc = "restoring", !.fresh = FALSE])
  /\ UNCHANGED <<db, objects, today, copies, up, overlap>>

(* litestream restore, which refuses to write over a file.                 *)
Restored(r) ==
  /\ At(r, "restoring")
  /\ scratch = NoFile
  /\ scratch' = up
  /\ GoTo(r, "compare")
  /\ UNCHANGED <<db, objects, today, copies, up, overlap>>

(* Seeded fault: any copy that can be read will do.                        *)
AnyCopyFound(r) ==
  /\ At(r, "compare")
  /\ scratch # NoFile
  /\ scratch' = NoFile
  /\ GoTo(r, "ping")
  /\ UNCHANGED <<db, objects, today, copies, up, overlap>>

(* The copy holds the probe write; the scratch files are removed.          *)
ProbeFound(r) ==
  /\ At(r, "compare")
  /\ scratch # NoFile
  /\ scratch.probe = r
  /\ scratch' = NoFile
  /\ GoTo(r, "ping")
  /\ UNCHANGED <<db, objects, today, copies, up, overlap>>

(* Seeded fault: a failed check leaves its files.                          *)
CheckFailsUncleaned(r) ==
  /\ run[r].pc \in CheckSteps
  /\ Becomes(r, [run[r] EXCEPT !.pc = "ping", !.fresh = FALSE,
                               !.errors = @ \union {"replication"}])
  /\ UNCHANGED <<db, objects, today, files, up, overlap>>

(* No new key in time, a restore refused or too slow, a copy that is gone, *)
(* cannot be read or lacks the probe; the scratch files are removed once   *)
(* verify_restore has begun.                                               *)
CheckFails(r) ==
  /\ run[r].pc \in CheckSteps
  /\ Becomes(r, [run[r] EXCEPT !.pc = "ping", !.fresh = FALSE,
                               !.errors = @ \union {"replication"}])
  /\ scratch' = IF run[r].pc \in {"restoring", "compare"}
                THEN NoFile ELSE scratch
  /\ UNCHANGED <<db, objects, today, copies, up, overlap>>

-----------------------------------------------------------------------------
(* Command._ping: the success URL only after a run without an error.  A    *)
(* ping that is lost is no success.                                        *)
Ping(r, arrived) ==
  /\ At(r, "ping")
  /\ LET ping == CASE ~arrived -> "lost"
                    [] arrived /\ run[r].errors = {} -> "success"
                    [] OTHER -> "fail"
     IN  Becomes(r, [NotRun EXCEPT !.pc = "done", !.ping = ping])
  /\ UNCHANGED <<db, objects, today, files, up, overlap>>

(* The container is stopped under the run, which then removes nothing.     *)
Kill(r) ==
  /\ IsActive(r)
  /\ Becomes(r, [NotRun EXCEPT !.pc = "killed"])
  /\ UNCHANGED <<db, objects, today, files, up, overlap>>

-----------------------------------------------------------------------------
(* The site, the clock and Litestream beside the runs.                     *)

CatalogWrite ==
  /\ db.writes < MaxWrites
  /\ db' = [db EXCEPT !.writes = @ + 1]
  /\ UNCHANGED <<objects, today, run, files, up, overlap>>

NewKey == run' = [r \in Execution |->
                    IF At(r, "probe") \/ At(r, "wait")
                    THEN [run[r] EXCEPT !.fresh = TRUE] ELSE run[r]]

Upload ==
  /\ up # db
  /\ up' = db
  /\ NewKey
  /\ UNCHANGED <<db, objects, today, files, overlap>>

(* Litestream rewrites its files into larger ones, under new keys, or what *)
(* it uploads had been read before the last write.                         *)
Compact ==
  /\ NewKey
  /\ UNCHANGED <<db, objects, today, files, up, overlap>>

-----------------------------------------------------------------------------
TakeSnapshot(r) ==
  \/ Begin(r) \/ CopyDatabase(r) \/ UploadCopy(r) \/ UploadManifest(r)
  \/ MonthCopy(r) \/ MonthManifest(r) \/ PutLatest(r) \/ SnapshotFails(r)

CheckReplica(r) ==
  \/ ListReplica(r) \/ WriteProbe(r) \/ StartRestore(r)
  \/ Restored(r) \/ ProbeFound(r) \/ CheckFails(r)

Report(r) == \E arrived \in BOOLEAN : Ping(r, arrived)

Litestream == Upload \/ Compact

SnapNext ==
  \/ \E r \in Execution :
       TakeSnapshot(r) \/ CheckReplica(r) \/ Report(r) \/ Kill(r)
  \/ CatalogWrite \/ Litestream

SnapSpec == SnapInit /\ [][SnapNext]_snapVars
-----------------------------------------------------------------------------
(* latest.json never names a snapshot that is missing: its copy and its    *)
(* manifest are there, and on the 1st those of the month, whichever run    *)
(* has failed, died or overlapped (take_snapshot writes latest.json last). *)
LatestNamesSnapshot ==
  latest.count # NoObject =>
    \A p \in {latest.day} \union (IF latest.day = 1 THEN {Month} ELSE {}) :
      bucketed[p].copy # NoObject /\ bucketed[p].manifest # NoObject

(* When runs do not overlap, a manifest describes the copy beside it,      *)
(* unless a run stopped between the two; the month's pair too, although it *)
(* is copied from the day's objects and not from the run's own files.      *)
PairsAgree ==
  ~overlap =>
    \A p \in Prefix \ torn : bucketed[p].copy = bucketed[p].manifest

(* A success ping is the truth.  At that moment the replica restores to a  *)
(* state with every write made before the run began, whatever else ran,    *)
(* and without overlap so does the day's copy.                             *)
PingHonest ==
  [][\A r \in Execution :
       run'[r].ping = "success" /\ run[r].ping # "success" =>
         /\ Replicating => up.writes >= run[r].base
         /\ bucketed[run[r].day].copy # NoObject
         /\ ~overlap => bucketed[run[r].day].copy >= run[r].base]_run

(* A run that ends by itself leaves no copy of the database on the disk:   *)
(* only a killed one does, and what it left of a test restore does not     *)
(* make the next run's fail.                                               *)
NothingLeftBehind ==
  /\ \A r \in copies : run[r].pc \in SnapshotSteps \union {"killed"}
  /\ scratch # NoFile => \E r \in Execution : run[r].pc \in {"compare", "killed"}
  /\ ~overlap => \A r \in Execution : At(r, "restoring") => scratch = NoFile

-----------------------------------------------------------------------------
(* What makes them inductive.                                              *)

Held(p) == bucketed[p].copy # NoObject /\ bucketed[p].manifest # NoObject

(* What a run has put into the bucket by the step it is at.                *)
Uploaded(r) ==
  /\ At(r, "manifest") => bucketed[run[r].day].copy # NoObject
  /\ run[r].pc \in {"month_copy", "month_manifest", "latest"} =>
       Held(run[r].day)
  /\ At(r, "month_manifest") => bucketed[Month].copy # NoObject
  /\ run[r].day = 1 /\ At(r, "latest") => Held(Month)
  /\ run[r].pc \in CheckSteps \union {"ping"}
       /\ "snapshot" \notin run[r].errors => Held(run[r].day)

UploadsOK == \A r \in Execution : Uploaded(r)

(* What a run that is alone has put there is still its own.                *)
Owned(r) ==
  LET pair == bucketed[run[r].day] IN
  /\ At(r, "manifest") => pair.copy = run[r].count
  /\ run[r].pc \in {"month_copy", "month_manifest"} =>
       pair.copy = pair.manifest
  /\ At(r, "month_manifest") => bucketed[Month].copy = pair.copy
  /\ run[r].pc \in {"manifest", "month_copy", "month_manifest", "latest"}
       => pair.copy >= run[r].base
  /\ run[r].pc \in CheckSteps \union {"ping"}
       /\ "snapshot" \notin run[r].errors => pair.copy >= run[r].base

OneRun == \A q, r \in Execution : IsActive(q) /\ IsActive(r) => q = r

AloneOK == ~overlap => OneRun /\ \A r \in Execution : Owned(r)

(* A state that holds a run's probe holds every write before the run.      *)
ProbeMeans(r) ==
  /\ At(r, "new") =>
       /\ r \notin {db.probe, up.probe}
       /\ scratch # NoFile => scratch.probe # r
  /\ run[r].base <= db.writes
  /\ run[r].pc \in SnapshotSteps \ {"copy"} => run[r].base <= run[r].count
  /\ up.probe = r => run[r].base <= up.writes
  /\ scratch # NoFile /\ scratch.probe = r => run[r].base <= up.writes
  /\ At(r, "ping") /\ run[r].errors = {} /\ Replicating =>
       run[r].base <= up.writes

ProbesOK == up.writes <= db.writes /\ \A r \in Execution : ProbeMeans(r)

(* The inductive invariant.                                                *)
SnapshotsOK ==
  /\ SnapTypeOK /\ UploadsOK /\ AloneOK /\ ProbesOK
  /\ LatestNamesSnapshot /\ PairsAgree /\ NothingLeftBehind

-----------------------------------------------------------------------------
(* What the docstring says and the code does not do.                       *)

(* verify_restore: the copy has to hold the probe write that               *)
(* check_replication saw uploaded.  What it saw is a new key.              *)
ProbeSeenUploaded ==
  ~overlap => \A r \in Execution : At(r, "restoring") => up.probe = r
=============================================================================
