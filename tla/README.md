# A TLA+ verification project for otzar

otzar catalogues a private library. A phone photographs title pages and scans
barcodes; a Django site reads the photographs with a vision model, searches
library catalogues, and turns a chosen candidate into a record with authors,
series and a title-page photograph. One SQLite database in WAL mode holds
everything, served by gunicorn (2 workers of 4 threads, `entrypoint.sh`) and
replicated to a bucket by Litestream.

Two facts shape every model here.

* The database is in autocommit mode and no view opens a transaction, so a
  request is a sequence of statements, and the statements of eight threads and
  of the management commands interleave.
* A Django model instance is a copy of its row. `save()` writes back every
  column as it was read; `save(update_fields=...)` and `update()` write only
  what they name. Which of these a handler uses decides what a race can undo.

## Inventory

| Component | State it keeps | Operations | Hard behaviour | Status |
|---|---|---|---|---|
| Scans (`ingest/views.py`, `ingest/models.py`, `ingest/ocr.py`) | `ScanResult` rows, staged files, the OCR lease, `APIUsageLog` | upload, run OCR, search again, confirm, discard (two of them) | a vision call of seconds between reading a row and writing it; a lease with a timeout; a cap checked before it is counted; a photograph moved between two stores | modelled but for deletions by hand |
| Candidate session (`select_candidate`, `confirm_candidate`, `manual_entry`) | the session's candidate and its scan | pick, confirm, edit by hand | the whole session is loaded and saved by each request; a list searched again under an index | modelled |
| Site gate and accounts (`otzar/`, `phone_scan_auth`) | session rows, the cookie | enter the site password, sign in and out, sign in by the phone's link | the session changes hands and keys while requests hold it | as the session sees it; throttling and settings not modelled |
| Staging cleanup (`cleanup_staging.py`) | none of its own | delete old discarded rows, delete orphan files | names are read once and used while requests run | modelled |
| Series placement (`ingest/series_workflow.py`) | `Series`, `SeriesVolume` | find or create, place, fill gaps | find then create without a lock; unique (series, number); admin forms that post what they were rendered with | modelled but for parsing, retitling and typing over positions |
| Author authority (`ingest/authority.py`, `enrich_authors.py`) | `Author` and its forms | find or create by name, enrich from VIAF | rows listed once and saved later, in two saves | enrichment modelled; filing as the index sees it |
| Records (`catalog/models.py`) | `Record` with its public identifier | save, delete | the identifier needs the primary key, so saving takes two statements | modelled |
| Search index (`catalog/search.py`) | an FTS table beside the records | index, remove, rebuild | two statements per record, rebuilding while records change | modelled but for ranking |
| Replication guard (`check_replica.py`, `entrypoint.sh`, `deploy/rebuild.sh`) | the database, its local Litestream state, the replica path, the bucket | start, restore, replicate, rebuild | a rebuild stopped half way, a host started from an old copy | modelled but for configuration |
| Snapshots (`catalog/backups.py`, `snapshot_db.py`) | objects in the bucket, a manifest, scratch files | take, check the replica by a test restore, ping | objects written one after the other, overlapping and killed runs | modelled |
| Sources (`sources/`) | a response cache | SRU cascades, ISBN lookup, VIAF | cache lifetimes, partial answers of a cascade | cascades, cache and cluster choice modelled; parsing and scoring not |
| Deploy scripts, templates, studies, tests | - | - | - | not modelled |

How they interact: the ingest views write scans, records, authors, series and
the search index in one request, in that order; `cleanup_staging` and
`enrich_authors` work on the same rows from another process; the replication
guard decides at start-up which database all of them see.

## Modules

| Module | What it is |
|---|---|
| `ScanLifecycle` | the life of a scan: rows, photographs, lease, usage log and the requests on them |
| `PhotoCustody` | what the application promises of a photograph, as an abstract specification |
| `ScanLifecycleProofs` | the inductive invariant of `ScanLifecycle`, its consequences, the refinement of `PhotoCustody`, the bound on the day's spend and the exclusion the lease gives |
| `MCScanLifecycle`, `MCScans` | the symmetry the runs use; every endpoint in one small instance |
| `ReplicaGuard` | which database a start may serve and replicate: `check_replica`, `entrypoint.sh`, `rebuild.sh` |
| `ReplicaHistory` | what the bucket promises of the replica paths, as an abstract specification |
| `ReplicaGuardProofs` | the guard's inductive invariant, its consequences, and the refinement of `ReplicaHistory` |
| `Snapshots` | `snapshot_db`: the dated copies, `latest.json`, the test restore of the replica, the ping |
| `StagingCleanup` | `cleanup_staging` beside the requests that stage, discard and confirm |
| `BucketsProofs` | the inductive invariants of `Snapshots` and of `StagingCleanup`, and their consequences |
| `MCBuckets` | small instances of `ReplicaGuard` with mishaps, `Snapshots` and `StagingCleanup` |
| `SeriesPlacement` | series, membership and volume positions: `link_record_to_series`, the series page, the admin's forms of a series and of a record |
| `SeriesPlacementProofs` | its inductive invariant and consequences |
| `MCSeriesPlacement` | the symmetry the runs use, and which of the admin's forms a behaviour uses |
| `RecordIndex` | records, authors and the full-text index: filing, editing, deleting, the admin, the repairing commands, reindexing |
| `RecordIndexProofs` | its inductive invariant: that records stay findable, and that one operation at a time the entries follow them |
| `MCRecordIndex` | the symmetry the runs use |
| `CatalogSearch` | the search cascades, the ISBN lookup and the response cache |
| `CatalogSearchProofs` | its inductive invariant and consequences |
| `AuthorEnrichment` | `enrich_authors`: the VIAF strategies, the choice of a cluster, the two saves |
| `AuthorEnrichmentProofs` | induction along lists, what the functions on names return, its inductive invariant and consequences |
| `CandidateSession` | the browser session from a chosen candidate to a record, the site gate, signing in and out |
| `CandidateSessionProofs` | its inductive invariant and consequences |
| `MCLookups` | small instances of the three modules above |

`MCBuckets` and `MCLookups` put components that share no state into one
instance: a variable `part` says at the start which of them a behaviour runs, so
their states add up and do not multiply.

### Scans

Each query, storage call and vision call is a step; a thread (`Request`) is a
record with the step it is at (`pc`), the scan it serves, and what it still
uses of the row it has read (`seen`). What a handler never uses again is not
kept in `seen`, so that the state does not grow with data no later step reads.

| Code | In the model |
|---|---|
| `ScanResult` row | `row[s]`: `status`, `image` (the row names a file), `reading` (`ocr_output` set), `lease` (age of `ocr_started_at`), `cands` (list not empty), `record` |
| files under `staging/` | `staged` |
| `TitlePageImage` | `titlePage`, pairs of record and scan |
| `APIUsageLog.calls_today()` | `logged`; `lost` is a history variable for the calls it never heard of |
| session keys | `session[d]`: whether a candidate is stored, and `scan`, the id stored beside it, which need not be the scan that listed it |
| `title_page_upload` | `Upload` stores the file, `InsertScan` the row; the search phase is `Search` |
| `isbn_lookup_view` | `IsbnLookup`, `Search` |
| `run_ocr` | `RunOcr`, `CheckCap`, `TakeLease`, `OpenPhoto` or `OpenFails`, `CallAnswered` or `CallFailed` (both run the `finally`), `LogUsage` or `LogFails`, `Refresh`, `WriteResult` |
| `discard_title_scan` | `DiscardTitleScan`, `DeletePhoto`, `MarkDiscarded` |
| `discard_scan` | `DiscardScan`, `SaveDiscard` (whole row) |
| `select_candidate` | `SelectCandidate`: an index past the present list keeps the candidate that was there and stores the scan all the same |
| `manual_entry` | `ManualEntry`; a statement that raises after the INSERT leaves the record and the candidate (`fails`) |
| `confirm_candidate` | `ConfirmCandidate`, `Reread`, promotion, `MarkConfirmed` (named fields), `PopSession` |
| `confirm_scan` | `ConfirmScan`, `CreateFromScan`, promotion, `MarkConfirmed` (whole row) |
| `_attach_title_page_image` | `ReadPhoto`, `SaveCopy`, `DeleteStaged`, or `StorageFails` at any of them |
| `save()` without `update_fields` | `SaveWhole`, which notes in the history variable `stripped` the runs whose lease it writes over |
| a killed worker, a raising statement | `Die`; `DieCharged` when the provider has charged the call |
| time | `Tick` ages every lease; `Midnight` empties the day's log |

Abstractions. `_create_record_from_candidate` is one step: the authors, series
and covers it writes belong to other components, and a death among them is
`Die` after `CreateFromScan` or `ConfirmCandidate`: the record is there, the session
and the scan are as they were, and the candidate can be confirmed again. `ManualEntry`
is one step, because nothing it does after creating the record reads or writes a scan. A record is
created at most once, and `origin` keeps the scan its confirmation was to close
(`ByHand` for `manual_entry`), so the set `Record` bounds the confirmations. Whose
candidate a record was made of is the subject of `CandidateSession`.
Deleting a record (`created_record` becomes null), deleting rows in the admin
and `cleanup_staging` are not in this module: `PhotoKept` and
`ConfirmedHasRecord` say what the ingest requests do to each other.

#### What the runs check

Small instances: one photograph and one barcode scan, two threads (three where
a third is needed), one session, one or two records. Each hazard needs one scan
and two actors, every race in the model is on one row, and rows interact only
through the cap, so one photograph loses nothing; the barcode scan is there for
the paths that depend on the scan's type. `Endpoints` names the views in play,
so that `ocr`, the run about the cap and the lease, does not also interleave
confirmations: it has `run_ocr`, both ways to discard, and two threads. `discard_scan` is there for
saving the whole row, as `confirm_scan` does.
In `scans` (`OneKind` of `MCScans`) a behaviour in which no ISBN is looked up has
OCR runs and searches beside the review queue, on the photograph alone and with one
record; one in which an ISBN is looked up first has every way to confirm and to
discard, with two records and no OCR, or one record made by hand while no other
request is served. What that leaves out is an OCR run racing a
confirmation from the session, which moves the photograph by the same steps as one from the queue.

| Run | Properties | What it shows |
|---|---|---|
| `scans` | `NoStrandedFile`, `PhotoKept`, `ConfirmedHasRecord`, `PromiseKept` | every endpoint, with failing storage and dying requests: no orphaned photograph, none missing but by a discard, a confirmed scan points at the record of a confirmation that was to close it, and `PhotoCustody` is implemented |
| `ocr` | `SpendBounded`, `LeaseHolds`, `LeaseComesBack` | the cap and the lease under concurrency, deaths, lost log rows, midnight, calls slower than the lease and whole-row saves: two runs are at the model with one photograph only where one has outlived its lease or had it written over; a lease left by a killed run expires |
| `stale_save` | `OneCallPerPhoto`, violated | `confirm_scan` writes back an empty lease over a live one |
| `resurrect` | `DiscardedStaysDiscarded`, violated | a discard while the photograph is promoted is overwritten by `confirmed` |

The same steps give other behaviours that the code's comments rule out. They
are not runs of their own; each is a short trace of the model.

* A call slower than the lease (`MaxCall > LeaseTimeout`): the `finally` of
  `run_ocr` (`views.py:839`) clears the lease by primary key, whoever holds it by
  then, and a third run starts beside the second. `extract_metadata_from_image`
  sets no timeout on its client.
* A discard between `refresh_from_db` and the save of the result
  (`views.py:864-911`) is overwritten: the scan is `awaiting_ocr` with no image.
* A failed run that refreshed before a successful one saved erases the reading
  (`views.py:898-900`), which the comment at 879-881 says only a success does.
* `discard_scan` leaves the photograph in place, as `docs/user-guide.md:170-171`
  says and the docstring at `models.py:60` denies.
* Two runs pass the cap check before either has logged its call, so the cap is
  not a ceiling; `SpendBounded` is the bound that does hold.

Bounds. `MaxCall` is the longest a run holds its lease and `LeaseTimeout` the
lease, both in ticks; `MaxLost` bounds the charged calls a day loses; `Record`
bounds the confirmations. `LeaseTimeout + 1` stands for every age past the timeout.
In `ocr` a call may take a tick longer than its lease (`MaxCall` 2, `LeaseTimeout` 1). In
`scans` no time passes during a call (both are 0): what that run asks does not depend on who holds a lease.

Fairness (`FairSpec`, used by `ocr` only): `WF_vars(Tick)`, because time
passes, and `WF_vars(Proceed(w))`, because gunicorn runs the threads it has
started. No user action and no death is fair.

#### What is proved

`ScanLifecycleProofs` proves for all finite sets of threads and arbitrary sets
of scans, sessions and records, and all bounds:

* `ScansInvariant`: `Spec => []ScansOK`. `PhotoKept` is not inductive: a
  request about to delete the staged file must be known to have written the
  copy (`CopyFirst`), a file waiting for its row must be known to be staged
  (`UploadsOK`), and a stale copy about to be saved must name every file that
  is still staged (`ImagesOK`). `ConfirmedHasRecord` needs to know what each
  request holds (`HandsOK`).
* `TypeCorrect`, `PhotosKept`, `NothingStranded` and `ConfirmationsSound`, its
  consequences. The last says that a confirmed scan has a record, and that it is the record
  of a confirmation that was to close this scan; not that the record is of the
  scan's own candidates, which `select_candidate` does not see to (`ClosedWithItsOwn`, below).
* `CustodyRefined`: `Spec => PromiseKept`; every step maps to a step of
  `PhotoCustody` or a stutter.

* `SpendIsBounded`, from `SpendOK`: whoever has passed the cap check counts
  before the call is logged, and the last to pass saw a log below the cap;
* `LeaseExcludes`, `Spec => []LeaseHolds`, with no assumption about how long a call
  takes or which views are in play. `LeaseHolds` names instead the two ways out the code
  leaves: a run that has outlived its lease (the client has no timeout) and
  a run whose lease was written over (`stripped`), by a whole-row save or by the
  `finally` of a run that was itself no longer covered. The invariant (`LeaseOK`) is that the
  age of a lease is the time its run has taken, for as long as the lease covers it.

Only model-checked: `LeaseComesBack` (liveness) and the two counterexamples.

### Replication guard

One host and one bucket. A state of the catalogue is the set of writes it
contains, so "older" is "a subset of".

| Code | In the model |
|---|---|
| `DATA_DIR`: the database, and `local_txid()` of Litestream's directory | `disk.db`, `disk.txid` (`NoTxid` when nothing is recorded) |
| `LITESTREAM_REPLICA_PATH` in `.env` | `env`; path 0 is `litestream/db`, path n the stamp of the nth rebuild |
| `replica_paths()`, `replica_txid()`, what a path can be restored to | `Held`, `replica[p].txid`, `replica[p].state`, `replica[p].past` |
| `check_replica` | `Refused`: `OlderPath`, `NothingToRestore`, `BehindReplica` |
| `entrypoint.sh` | `Start`, `Restore` (with `migrate`), `StartOff` |
| `litestream replicate` (external) | `Sync`, with or without the upload arriving |
| `snapshot_db` | `TakeSnapshot` |
| `rebuild.sh` | `BeginRebuild`, `MoveAside`, `RestoreCopy`, `SetEnv`; `RebuildFails` between any two; `PutBack` is what the failed script tells the operator to do |
| the machine | `Halt`, `LoseMachine`, `TakeImage` and `UseImage`, `Repoint` (following the refusal's advice) |

Abstractions. The database and Litestream's directory are moved aside in one
step, as the script's loop does while the app is stopped. `aside` is what a failed script can put
back; once a start has succeeded the operator has no reason to. Paths are
ordered as the host's clock stamps them. A path can be restored to every state
uploaded there: the seven days of retention are left out, which only gives
`rebuild.sh` more to choose from.

`Mishaps` names what the code's safety rests on not happening. With none:

* the bucket can be listed at every start (`blind_start`; `check_replica.py:20-24` accepts this one knowingly);
* `rebuild.sh` is not stopped between the restore and `.env` (`rebuild_dies`);
* the path is changed by hand only on a machine without a database (`repoint_with_db`);
* a disk image is taken with Litestream level with its replica (`unsynced_image`);
* `LITESTREAM_MODE=off` is used only on a host that has its database (`off_without_db`): without one it serves an empty catalogue by design, whatever the bucket holds.

#### What the runs check

| Run | Properties | What it shows |
|---|---|---|
| `guard` | `GuardOK`, `ReplicatesCurrent`, `PromiseKept`, `NeverServesEmpty` | two writes, three paths: no path is written over, only the newest is replicated into, an empty catalogue is served only over an empty bucket; the inductive invariant holds |
| `buckets`, part `replicas` | `OldPathsFrozen` | all mishaps but `blind_start`: a path that was moved on from keeps its history |
| `killed_rebuild` | `NeverWrittenOver`, violated | the script stops before `.env` is changed, and the restored, older state is replicated into the old path |

With `repoint_with_db` alone the same property fails another way: a machine
brought back from an image older than a rebuild is refused for its path, the
operator sets the path the message names (`check_replica.py:90`), and the positions
of two different histories are compared.

Bounds. Two writes are enough for one state to be older than another, two
rebuilds for a path to be neither the first nor the newest (in `buckets` one rebuild and one
write tells a full catalogue from an empty one). `MaxTxid` lets the disk fall
behind its replica by one.

#### What is proved

`ReplicaGuardProofs`, for every number of writes, rebuilds and transactions:

* `GuardInvariant`: with no mishap, `Spec => []GuardOK`. `ReplicatesCurrent` needs
  to know that a disk whose position is not behind its replica lacks none of
  its writes (`Trusted`, for the disk, what was moved aside and the image),
  and that a new stamp names an empty path (`StampOK`).
* `CurrentReplicated`, `HistoryKept` (`Spec => PromiseKept`) and
  `ServesReplica` follow from it.
* `OldPathsKept` holds with every mishap but `blind_start`, and in every mode.

### Snapshots

`snapshot_db` runs once a day and once more with every deploy, so two runs can
overlap. A run copies the database, puts the copy and its manifest under the
day's prefix and, on the 1st, under the month's, then writes `latest.json`; then it
checks the replica by writing a probe row, waiting for a new key in the bucket,
restoring the replica beside the database and looking for the probe; then it
pings a monitor. Each call to the database, the bucket, Litestream or the monitor is a step.

| Code | In the model |
|---|---|
| the catalogue | `db`: the number of writes it holds, and whose probe its `ReplicationProbe` row is |
| the bucket | `bucketed[prefix]`: the copy and the manifest, each by the number of writes it was made from; `latest` |
| the local copy, `restore-test.sqlite3` | `copies`, `scratch` |
| what the replica restores to | `up` |
| `take_snapshot` | `Begin`, `CopyDatabase`, `UploadCopy`, `UploadManifest`, `MonthCopy`, `MonthManifest`, `PutLatest`; `SnapshotFails` at any of them |
| `check_replication`, `verify_restore` | `ListReplica`, `WriteProbe`, `StartRestore`, `Restored`, `ProbeFound`; `CheckFails` |
| `Command.handle`, `_ping` | `EndSnapshot` (a failed snapshot does not stop the check of the replica), `Ping` |
| a stopped container | `Kill`, which cleans nothing up |
| Litestream (external) | `Upload`, `Compact`; both make keys appear |

`overlap` is a regime, fixed at the start: where it is false a run begins only
when none is under way. `base`, the writes when a run began, and `torn`, the prefixes
whose copy is newer than their manifest, are history. Abstractions: the copy
and its compression are one step (both write a file that is removed whatever
happens); bucket versioning and the lifecycle rules that expire old days are left out.

### Staging cleanup

`cleanup_staging --apply` reads the names that rows hold, then the discarded
rows past the retention, deletes each row's file and then the row by its key,
and then walks the staging directory and deletes old files that no row named when it
began. Requests run all the while.

| Code | In the model |
|---|---|
| `ScanResult` | `scanRow[p]`: status, whether it names its file, days since `updated_at` |
| `staging/`, `TitlePageImage` | `file[p]`, days since written; `copied` |
| `referenced_image_names`, the discarded rows | `ReadReferenced`, `ListDiscarded` |
| `_delete_rows` | `DeleteStagedFile`, which may fail, then `DeleteRow` |
| `staging_files`, `_delete_orphans` | `WalkStaging`, `SweepFile` |
| the end of a run, or its death | `FinishCleanup`, `LeaveCleanup` |
| the requests | `Stage`, `InsertRow`, `Touch`, `DropFile`, `Promote`, `SaveRow`, `ConfirmUnpromoted`, `Dies`, `DeleteInAdmin` |

The requests are here by the step between what they do to the file and what
they do to the row; the steps in between are the subject of `ScanLifecycle`. Their late
saves are here too: `run_ocr` saves over a status that came after its refresh, `confirmed` and a
discard of the same day included (`OcrMaySave`), and both ways to discard take a confirmed scan. A
staged name is a random one, so a new photograph is never one a run has read of.
A day ends only between requests and runs, which are shorter than a day; with
`--days 0`, left out by `RetentionAssumption`, an upload under way would be an
orphan past the retention.

#### What the run checks

`buckets` has four parts: `replicas` (the guard with mishaps, above), `snapshots`, and
`StagingCleanup` twice, as `one photo` and `photos`.

| Properties | What they show |
|---|---|
| `LatestNamesSnapshot` | whichever run failed, died or overlapped, `latest.json` names a copy and a manifest that are there |
| `PairsAgree` | without overlap, a manifest describes the copy beside it unless a run stopped between the two; the month's pair too, although it is copied from the day's objects |
| `PingHonest` | when a success ping arrives the replica holds every write made before the run, whatever overlapped, and without overlap so does the day's copy |
| `NothingLeftBehind` | only a killed run leaves a copy on the disk, and what it left of a test restore does not make a later one fail |
| `SparesTheLiving` | the clean-up takes neither the file of an upload whose row is still to come, nor the file or the row of a scan that is not discarded, but for one discarded long ago and confirmed during the run |
| `Reclaimed` | what could be reclaimed when a run started is gone when it ends, if no storage call failed |

Bounds: two runs of `snapshot_db`, since every overlap is of two; two days, of
which one is the first of its month; one write, which tells old from new. One
day of retention: ages past it are one age. One photograph goes through everything the
module has. Two are there so that a run has one listed while it works on another; with two, a
scan closes once and stays closed (but for a discarded one that is confirmed) and waits in one way
(`ClosedOnce`), since the run tells waiting rows apart from nothing.

More behaviours of the model.

* With overlap, two runs of one day can leave the copy of one beside the
  manifest of the other, and `latest.json` names the day whichever it is: `PairsAgree` speaks of
  runs that do not overlap.
* `ProbeSeenUploaded` does not hold. `verify_restore` says that the copy has to hold
  "the probe write that `check_replication` saw uploaded" (`backups.py:261-262`).
  What it saw is a new key, which a compaction or an earlier write gives as well; the
  restore can then lack the probe and the run reports a failure. It never
  reports a success that is not one, which is `PingHonest`.
* `confirm_scan` takes a discarded scan. One that is confirmed after the
  clean-up has listed it loses its row, and its file if the confirmation
  could not move it; `restored` is the set of these.

#### What is proved

`BucketsProofs`, for any set of runs, number of days and writes:
`SnapshotsInvariant`, `SnapSpec => []SnapshotsOK`. The invariant says what a run has put
into the bucket by each step (`UploadsOK`, for `LatestNamesSnapshot`), that what a
lone run has put there is still its own (`AloneOK`, for `PairsAgree`), and that a
state with a run's probe has every write before the run (`ProbesOK`, for
`PingHonest`). `LatestIsThere`, `ManifestsMatch`, `DiskIsCleared` and `SuccessIsTrue` follow.

`BucketsProofs`, for any photographs and retention: `CleanupInvariant`,
`CleanupSpec => []CleanupOK`. It needs that a file without its row is new and
unknown to the run (`HalfwayOK`), that a listed row is still discarded or was
confirmed since, and that a file a row names is one the run has read of or a new one
(`SweepOK`), and that what was due is gone or still to be come to (`DueOK`). `LivingSpared` and
`AllReclaimed` follow.

### Series placement

Every confirmation that finds a series statement runs `link_record_to_series`:
it finds a series by its title, exact and then normalised, or creates one, makes the
record a member, and in a work-set gives it a position. Each query is a step.

| Code | In the model |
|---|---|
| `Series` row | `series[s]`: `title` (`NoTitle` when there is no row), `kind`, `source` (`kind_source`) |
| `Record.series` | `members` |
| `SeriesVolume` rows | `position[s][d]`: `Absent`, a `Gap`, or the record it holds; `held` is written together with `record` everywhere |
| a title | a work and its spelling; `normalize_for_comparison` keeps the work |
| a volume designation | a number and its form; `normalize_volume_number` (`Arabic`) keeps the number |
| `_create_record_from_candidate`, as far as the series goes | `Confirm` |
| `link_record_to_series` | `FindExact`, `FindNormalized`, `CreateSeries` or `RaiseKind`, `AddMember`, `FindExisting`, `FindOccupant`, `FillGap` or `InsertPosition` (which raises on a duplicate: `ServerError`) |
| `series_manage` | `SetKind`, or `AddVolumes` and one `AddVolume` per `get_or_create` |
| `SeriesAdmin` | `OpenForm`, `SaveForm`: what was rendered is posted, rows marked for deletion go, whatever has happened since; a row shown that somebody else has deleted makes the post fail (`LeaveForm`) |
| `RecordAdmin` | `OpenRecord`, `SaveRecord`: `Record.series` becomes what was rendered, one added or one taken out; what the record has joined since is dropped, and its positions stay. `parted` is the history of memberships it took away |

Filling a gap whose row has been deleted since it was read raises; a row deleted and
made anew meanwhile counts as the row it was.

`serial` never changes. Where it is true, confirmations come one at a time and
the admin's forms are not used, which is how the library is mostly used and is all
that some of the code's promises rest on; `Regimes` says which values a run starts from.

Not modelled: retitling, merging or deleting a series, deleting a record, and in the admin adding a position,
renumbering one or typing another record into it; the parsing of titles and designations.

#### What the runs check

| Run | Properties | What it shows |
|---|---|---|
| `placement` | `PlacementOK`, `PlacedAreMembers`, `OneHolderPerNumber`, `NeverLowered` | under every interleaving a record with a position is a member of the series unless the admin's form of the record took the membership away, a volume number is held once, and no record's evidence lowers a kind |
| | `OneSeriesPerWork`, `PlacesKept` | with confirmations one at a time a set is one series however its title is spelled, and a record keeps its position while the series page adds volumes |
| `displaced` | `NeverDisplaced`, violated | two confirmations read the same gap and both fill it; the first record loses its position with no log line |

Bounds: two threads and one person, because every race is between two actors;
two records, so that one can displace the other; two series rows of one work
with two spellings, so that a set can be split; one number in two forms. A
behaviour uses one of the admin's two forms or neither (`adminForm`), and with a
form the titles are all spelled one way: a form is rendered from one series or one record, and does
not read how a title is spelled. With a record's form the series are
work-sets nobody has set by hand, since the form does not touch a kind, and one save takes
memberships away (`RecordFormBound`).

More behaviours of the model are worth knowing.

* Two threads can each create a series for one title.
* `RaiseKind` overwrites a kind a person set after the row was read.
* The admin's form of a series puts back a gap that a confirmation has filled since it was rendered.
* The admin's form of a record, rendered before a confirmation put the record
  in a series and saved after it, takes the record out of the series and leaves it in
  its position: the series page shows a volume, and the record's page does not name the set.

#### What is proved

`SeriesPlacementProofs`, for all sets of threads, people, records, series,
titles and volumes: `PlacementInvariant`, `Spec => []PlacementOK`. `PlacedAreMembers` says that what has a position has joined (`Joined`, the members
and those `parted` from the set by a form); it needs to know that a thread
looking for a place has made its record join (`LinksOK`), that an open form of a series shows only
what has joined (`PlacesOK`), and that no step takes a pair out of `Joined`, which
`SaveRecord` keeps by noting what it takes away;
`OneSeriesPerWork` needs to know that what a lone thread has read is still so
(`SerialOK`). `PlacedMembers`, `SetsNotSplit`, `NumbersHeldOnce`, `KindsNotLowered`
and `PlacesKeptAlone` follow. Only model-checked: the counterexample.

### Records and the search index

The index is an FTS5 table that no key, trigger or migration ties to the
records. It holds each record's text together with the names of its authors,
subjects and publishers, so every write to any of them has to bring it up to
date by hand.

| Code | In the model |
|---|---|
| `catalog_record` | `record[r]`: `stage` (`blank` between the two saves of a new row, then `named`), `text` for the nine indexed columns |
| `catalog_author`, and the many-to-many table | `author[a]`: `name`, `romanized`; `link` |
| `catalog_fts` | `table` (current, of an older shape, or absent) and `index`, pairs of identifier and entry |
| `_row_values`, `index_record` | `EntryOf`; `ClearEntry`, `ReadValues`, `PutEntry` |
| `ensure_fts_table`, `reindex_all` | `Ensured`, `Search`, `ReindexAll` |
| `_create_record_from_candidate`, `manual_entry`, `edit_record` | `InsertRow`, `Identify` or `ReadForEdit`, `SaveEdit`; then `LookUpAuthor`, `ChooseAuthor`, `CreateAuthor`, `RecordForms`, `LinkAuthor`; then the index |
| `delete_record`, `delete_orphans` | `ReadForDelete`, `RemoveEntry`, `DeleteRow`; `CountLinks`, `DeleteOrphan` |
| `IndexedAdmin`: add, change and delete pages | `Admin...`, one transaction each, with `ReindexAfter` |
| `IndexedAdmin.delete_queryset`, `reindex_records` | `SelectForDelete`, `DeleteSelected`, `BulkEnsure`, `Fetch`, `EachOut`, `EachIn` |
| `clean_control_characters` | `ListAffected`, `MendRecord` or `FindFed` and `RenameAuthor`, then `BulkEnsure`, `FetchFed`, `EachOut`, `EachIn` |
| `enrich_authors` | `ListForEnrichment`, `EnrichAuthor` |
| a raising statement, a killed worker | `Abandon`, which notes in `lapsed` what the task leaves unindexed |

Abstractions. An identifier is the primary key it is made from. A row's
`text` is one value, and so is a stage of a filing's data. Subjects and publishers are
linked and indexed as authors are, so `author` stands for all three. Equal rows
of the index count once. A filing attaches at most one author, and a run of a
command changes one row. Records that FTS refuses, which `reindex_all` skips,
are left out, and so is everything a query does after `ensure_fts_table`.

`serial` is a regime, as in the series module: where it is true an operation
starts only when no other runs. Some of what a cataloguer expects holds only
there. Two people may edit a record at once, and the entry that is left is then
that of whoever wrote it last, not of whoever saved last; nothing in the code
promises otherwise.

#### What the runs check

| Run | Properties | What it shows |
|---|---|---|
| `index` | `IndexOK`, `EveryRecordFound` | under every interleaving, once the table is current, an identified record has an entry, unless a task is between taking it out and putting it back, was cut short there (`lapsed`), or an edit wrote the record back after its deletion (`revived`) |
| | `IndexFollows` | one operation at a time, each record has exactly one entry, with its present text and the present names of its authors, and a deleted record has none; romanizations may lag |
| `romanized` | `RomanizedFormsFound`, violated | `record_author_forms` gives an author a romanization, from `enrich_authors` or from a candidate filed under it, and the author's other records are not reindexed |

Bounds: two operations, because every race here is between two tasks, and a
task that is left unfinished does not count against them twice; two workers to
hold the tasks, two records and two authors, names and texts, so that a change
can be told from none. An operation that is one transaction interleaves with both.

Also in the model. A process that dies between the two saves of a new record
leaves a row with an empty identifier, the column is unique, and no record can
be created until somebody saves or deletes that row in the admin (`NoBlankRow`). Two
filings that both find no author of a name create two, and `get_or_create`
raises for that name from then on, after the record is stored and before it is
indexed. And outside the model, `docs/user-guide.md:16-17` gives author variant names
as searchable, which `_row_values` does not index.

#### What is proved

`RecordIndexProofs`, for all sets of records, authors, names, texts and workers
and any number of operations: `IndexInvariant`, `Spec => []IndexOK`. The invariant has
two halves, each inductive beside the other.

* `FoundOK`, for every interleaving. `EveryRecordFound` is not inductive: a bulk reindex
  takes out what it did not find, so whatever it did not find must not come
  to be there while it runs (`TaskOK`). That rests on how rows change at all: a record
  once identified is identified or deleted for good, unless an edit writes it back
  (`Onward`), so each step shows that it moves the rows onward, and a task in
  order stays in order under every step of that kind. `RecordsStayFindable` follows.
* `SerialOK`, for one operation at a time. `IndexFollows` speaks of a catalogue at rest, and says
  nothing of the states an operation goes through. What carries it there is that a
  task that is alone may rely on what it has read (`StillSo`: the row is as it was saved,
  the entry it took out is not there, the values it read for an entry are those the entry is due,
  the ids it will reindex cover every record the deletion touches), and that every record the task has not written to
  is `Settled`. `Answers`, the records a task has written and not reindexed, is what ties the
  two: a step that shrinks it must settle what it lets go, which is one obligation
  for each action (`SerialStep`). An author that gains a romanization is the one change
  that reaches entries nobody reindexes, so `Settled` allows an entry to lag by that
  (`MoreRomanized`) and by nothing else. Authors that were never written have no links, without which a
  new author could have records already filed under it. `EntriesFollow` is the consequence.

`BlankAssumption` is used where it matters: the entry of a row not yet identified is
under no record's identifier, so nothing done to another record's entry reaches it. Only model-checked: the counterexample.

### Searching the catalogues

A book is searched for with what was read off its page. Each catalogue has a
cascade of ever broader queries; a query that needs a field the page lacks is
skipped, one that returns records ends the cascade, and one that fails is passed over.
Every answered query is kept in a cache shared by all threads and processes,
for a month, or for a day if the reply counts zero records. A reply without a record
need not count zero: diagnostics have no count, and records that are all skipped have a positive one.

| Code | In the model |
|---|---|
| `NLI_CASCADE`, `LC_CASCADE`, `isbn_lookup` | `NLI_CASCADE`, `LC_CASCADE`, `ISBN_QUERY`, by step and by the fields a step needs; `Places` |
| `run_cascade`, `search_nli`, `search_lc` | `StartSearch`, `GoOn`, `Read`; `Show` |
| `SRUClient.search` | `LookInCache`, `Answer` or `CallFailed`, `StoreReply` |
| `ttl_for_response`, `ResponseCache` | `Ttl`, `cached[q]` with the days it has left; the cull of Django's file cache deletes any entries |
| the catalogues (external) | `held[q]`, the days a query has had a matching record; `Gain`; a reply has `records`, a count of zero (`none`), neither (`hollow`: a miss to the cascade, an answer to the cache), or it is `garbled`, a page of HTML in the place of XML |

Days are relative and saturate. `quiet` is a regime: one search at a time and
nothing culled. `answered` is history, kept where `quiet` holds.

### Author enrichment

`enrich_authors` lists rows, works on the copies for as long as the lookups
take, and saves the VIAF id and then the forms.

| Code | In the model |
|---|---|
| `name_tokens`, birth years | a name is `[words, year]`; `SameName` |
| `match_cluster`, `choose_cluster` | `HeadingHits`, `VariantHits`, `FirstTracing`, `Chosen` |
| `storable_forms`, `_alternate_scripts` | `Storable`, `AlternateScripts`, `UniqueWords` |
| `record_author_forms`, `author_forms` | `WithForms`, `Forms`; `NewForms` with `VIAF_FORM_LIMIT` |
| `_build_author_queries`, `search_author_clusters` | `Queries`; `NotAnswered`, `Answered`, `NextStrategy` |
| `enrich_author_from_viaf`, `apply_author_enrichment` | `Decide`; `Link` and `KeepForms`, one save each; a row deleted meanwhile ends the pass, and a pass may be `Killed` anywhere |
| cataloguers | `SetId`, `ConfirmForm`, `DeleteAuthor` |

What a strategy is answered is any of `Results`. `alone` is a regime: no other pass
and no cataloguer while a pass runs.

### The browser session

A session is one row with one dictionary. A request loads all of it when it
arrives and saves all of it when it ends, so requests of one browser that overlap undo each
other's changes; signing in and out moves to another row.

| Code | In the model |
|---|---|
| `django_session`, the cookie | `sessions`, `cookie`; `Load`, `SaveSession`, `Replace` (`flush`, `cycle_key`), a request whose row is gone saves nothing |
| `SitePasswordMiddleware` | `EnterSitePassword`, `MayPass` |
| `auth.login`, `LogoutView`, `phone_scan_auth` | `LogIn`, `SignIn`, `LogOut`, `PhoneScanAuth` |
| `select_candidate` | `SelectCandidate`, for an index of any list the scan has had |
| `confirm_candidate`, `manual_entry` | `ConfirmCandidate`, `ManualEntry`; `CloseScan` |
| either of them raising after the record's INSERT | `MakeFails`: the record is there, the scan closed or not, and a server error saves no session, so the candidate is still in it |
| other requests | `Relist`, `DiscardScan`, `ShowPage` |

`single` is a regime: requests of the browser do not overlap. A candidate
carries which pick it is and whose, which only the properties read. The browser is one;
other browsers act on the scans (`Relist`, `DiscardScan`).

#### What the run checks

`lookups` has three parts, one for each module.

| Properties | What they show |
|---|---|
| `MissIsRecent` | however late replies are stored, a stored count of zero hides a record its catalogue has gained for the short lifetime and the length of one call, no longer |
| `ShownAgain` | in quiet times, what a catalogue gave in the last month is shown again by every search that can form the query, from it or a narrower one, whatever fails meanwhile, unless that catalogue's own reply does not parse |
| `OnlyUnreadLost` | whatever runs beside a pass and wherever passes were killed, what it overwrites is what came to the row after it read it: an id or a romanization where it read none, variants it had not read |
| `PassOnlyAdds` | in a pass that is alone no id is replaced and no form dropped |
| `OneRecordEach` | without overlap one pick makes a second record, by whichever view, only if every request that made one before failed after making it |
| `OwnPick` | a record is made from what the same account picked, whoever signed in between and however requests overlapped |
| `GateByPassword` | the gate's flag is in no session of a browser in which the password was never entered, whatever phone links, sign-ins and sign-outs there were |
| `ClosedWithListed` | while no list is replaced, a scan is closed with a record of a candidate it listed |

Bounds: two threads everywhere, since every race is of two; an empty answer that
lasts one day and a full one that lasts two, with calls that straddle one day's end, so that
a late miss meets a hit that is still fresh. Three kinds of page: two steps of one cascade, those
and a step of another catalogue's, and an ISBN in three catalogues; overlapping
searches use the first. One record is gained. One pass over one author,
answered with every pair of clusters that differ by whose file heads, traces
or contributes to them; the second pass that `PassOnlyAdds` excludes needs no instance. Two accounts,
two scans of different books, two picks and two records; with overlap, one record
is enough to make it in the wrong name. Requests fail after making a record only in behaviours
that replace no list (`SessionNow` of `MCLookups`).

Behaviours of these models that comments rule out or a reader may not expect:

* `OutageRetried` does not hold: "a transient outage is retried on the next search"
  (`sru.py:148-151`), but an HTML error page sent with status 200 begins with `<`, is
  stored for a month, and until then raises out of the cascade of that catalogue at every search.
* `RivalsBlock` does not hold: "No other cluster carries a tracing, asserted by one of those same
  files" (`viaf.py:598-599`), but of each rival only the first tracing that matches is
  looked at, and one by another file hides one of ours behind it.
* `IdKept` does not hold: `apply_author_enrichment` "sets `viaf_id` when the row has none"
  (`authority.py:387`); it is the copy that has none, and an id that a cataloguer or another pass
  saved since is replaced. In the same way a form kept by a confirmation during the pass is overwritten.
* A hollow reply is stored like records: "Anything whose shape is not recognized is treated as a real answer"
  (`cache.py:46`, `tests/test_cache.py:122-125`), so for a month it sends the cascade on to
  broader queries and hides what the narrow one would find. `MissIsRecent` is about counts of zero for that reason.
* A pass that is killed between its two saves leaves a row with an id and without
  its forms, and a later pass over unlinked rows does not list it.
* `ClosedWithItsOwn` does not hold once lists are replaced: `select_candidate` stores the
  scan's id before it knows that the index is in range (comment at `views.py:393`), so the
  candidate of one scan confirms another.
* A request that raises after `record.save()` (indexing, covers, a series clash) answers 500 and leaves
  the candidate in the session; confirming again makes a second record. With overlap a second click does, and `manual_entry` never closes the scan.
* `select_candidate` falls back to a candidate posted as JSON when there is no scan; nothing in the
  application posts one (`views.py:186-188`), and the model leaves it out.

#### What is proved

`CatalogSearchProofs`, for any threads, pages, lifetimes and length of call: `SearchInvariant`,
`SearchSpec => []SearchOK`. A miss in the cache or on its way was true when it was sent
(`MissOK`); what a quiet search can rely on is in the cache, found, or still ahead in
its cascades (`QuietOK`), which uses that a place of a page is known by its query and
that the first place of a set comes before the rest (`QueryNamesPlace`, `FirstIsFirst`).
`MissesAreRecent` and `FoundAgain` follow.

`CandidateSessionProofs`, for any threads, accounts, scans, books, lists and bounds: `SessionInvariant`,
`SessionSpec => []SessionOK`. Every dictionary, in a row or held by a request, has a candidate only of
its own account (`DictionariesOK`), and a lone browser has one row, which the request
being served has loaded as it is (`SingleOK`). `RecordsAreOwn`, `GateIsEntered`,
`OneRecordOfEach` and `ScansClosedWithTheirOwn` follow.

`AuthorEnrichmentProofs`, for any passes, rows, names, years and answers: `EnrichInvariant`,
`EnrichSpec => []EnrichOK`. Beside types, it says that the rows on a pass's list and in its hand are
copies of rows there were (`InHand`), and, where nothing else writes, that each copy is still
the row, but for the id the pass has itself put there (`CopiesCurrent`). `PassAdds` needs
the second: a save writes back a whole copied row, and only a copy that is current can
add to what the row holds. `UnreadLost`, for `OnlyUnreadLost`, needs of the
invariant only that a pass about to link read no id, and that adding forms one after
the other loses none; it holds beside any other writer.
What they assume of the constants is `EnrichAssumption`: rows are rows, and an answer is a list of
clusters with lists of entered names.

The operators of this module work along lists, so these proofs need induction along lists. They take it from
the well-foundedness of the natural numbers: a claim that fails for some length fails for a
least one (`LeastNumber`), which gives the step-by-step rule for a property written out in place
(`StepByStep`) and the existence of the recursive functions (`IterationExists`). On it rest what
`Only`, `UniqueWords`, `AlternateScripts` and `Storable` return (`UniqueTyped` to `NewFormsTyped`) and that
adding forms one after the other loses none (`FormsAdded`).

## Plan

Done: scans, replication guard, series placement, records and the search
index, snapshots, staging cleanup, the catalogue searches, author
enrichment, the browser session. Left, in this order:

1. Deletions by hand in the scan model: a deleted record empties `created_record`, a deleted scan leaves its file.
   In the series model too: a deleted record takes its positions along; and the rest of the admin's inline
   form, which adds positions and types records into them.
2. `find_author_matches`, the order it ranks what it finds in; scoring and volume numbers as functions.
3. What the functions on names choose, beyond what kind of thing they return: that `UniqueWords` keeps one form
   for the same words, that `AlternateScripts` keeps each of its names once.

The questions asked of the system stay few: a new component joins the instance
of its neighbours, and the narrower of two runs goes.

## Assumptions and limits

TLC explores the instances above exhaustively; the theorems hold for every value
of the constants under the assumptions each module names. All runs are about safety but `ocr`, whose
`LeaseComesBack` is the one liveness property; it is model-checked only, as proofs about fairness are out
of the prover's reach. Every safety property that a passing run checks is also the subject of a theorem, at every
value of the constants; `OldPathsKept` is one under a condition, that no start is blind. The recursive functions of
`AuthorEnrichment` are proved about through the natural numbers' well-foundedness. No theorem says that a violated property is violated:
those are counterexamples, and a run shows them.

## Not modelled

* Parsing and text: MARC and XML, normalisation of titles and names, volume designations, what
  an FTS query matches and how results rank. The models take what these yield: a work and its spelling,
  a number and its form, a name's words.
* Scores, covers and their downloads: they order and decorate what is shown and change no state another component reads.
* The login throttle (django-axes), settings and start-up checks.
* Scripts that provision machines; of the deployment, `rebuild.sh`'s replica path and `entrypoint.sh` are modelled.
* Read-only pages, the commands that tidy punctuation, fetch covers or load test data, templates, static files, studies and tests.
* Crashes that lose committed transactions: SQLite's durability is taken as given, and Litestream as an external
  that uploads a prefix of the writes.
