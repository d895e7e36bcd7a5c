---------------------------- MODULE ReplicaGuard -----------------------------
(***************************************************************************)
(* Which database a start may serve and replicate: entrypoint.sh with      *)
(* check_replica, and rebuild.sh, on one host with one backup bucket.      *)
(*                                                                         *)
(* A state of the catalogue is the set of writes it contains.  A replica   *)
(* path holds the newest state Litestream uploaded there, its transaction  *)
(* number, and the states it can be restored to.  On the disk are          *)
(* the database and the newest transaction in Litestream's directory       *)
(* beside it.  Paths are numbered in the order of their stamps; path 0 is  *)
(* litestream/db, which a fresh .env names.                                *)
(*                                                                         *)
(* Litestream itself is external.  As check_replica's documentation has    *)
(* it, it replicates the database it finds on disk over whatever the       *)
(* replica held.                                                           *)
(***************************************************************************)
EXTENDS Integers

CONSTANTS
  MaxWrite,  \* bound: writes to the catalogue
  MaxPath,   \* bound: rebuilds
  MaxTxid,   \* bound: transactions Litestream numbers
  Modes,     \* the values LITESTREAM_MODE takes
  Mishaps,   \* what may go wrong beyond crashes and a lost machine
  NoDb       \* no database file

AllModes == {"replicate", "restore-only", "off"}

(* blind_start: the bucket cannot be listed at a start.  rebuild_dies: the *)
(* script stops between the restore and the change to .env.                *)
(* repoint_with_db: the refusal's advice to change LITESTREAM_REPLICA_PATH *)
(* is followed with a database on disk.  unsynced_image: a disk image is   *)
(* taken while Litestream is not level with its replica.  off_without_db:  *)
(* LITESTREAM_MODE=off is used on a host that has no database.             *)
AllMishaps == {"blind_start", "rebuild_dies", "repoint_with_db",
               "unsynced_image", "off_without_db"}

ASSUME GuardBounds ==
  MaxWrite \in Nat /\ MaxPath \in Nat /\ MaxTxid \in Nat
ASSUME GuardModes == Modes \subseteq AllModes /\ Mishaps \subseteq AllMishaps
ASSUME NoDbAssumption == \A state \in SUBSET (1 .. MaxWrite) : NoDb # state

VARIABLES
  disk,       \* DATA_DIR: the database and Litestream's position
  env,        \* LITESTREAM_REPLICA_PATH in .env
  replica,    \* what the bucket holds under each path
  snapshots,  \* states under snapshots/ and monthly/
  app,        \* how far the container has come
  rebuild,    \* how far rebuild.sh has come
  aside,      \* what a failed rebuild.sh can put back from pre-rebuild/
  stamp,      \* the path of the newest rebuild
  written,    \* writes made so far
  image       \* a copy of the machine's disk, .env included

host == <<disk, env, aside, stamp>>
bucket == <<replica, snapshots>>
vars == <<disk, env, replica, snapshots, app, rebuild, aside, stamp,
          written, image>>

Path == 0 .. MaxPath
Writes == 1 .. MaxWrite
State == SUBSET Writes
NoTxid == -1

Disk == [db: State \union {NoDb}, txid: NoTxid .. MaxTxid]
Replica == [txid: 0 .. MaxTxid, state: State, past: SUBSET State]

Bare == [db |-> NoDb, txid |-> NoTxid]
Empty == [txid |-> 0, state |-> {}, past |-> {}]
NoImage == [disk |-> Bare, env |-> 0]

TypeOK ==
  /\ disk \in Disk
  /\ aside \in Disk
  /\ env \in Path
  /\ stamp \in Path
  /\ replica \in [Path -> Replica]
  /\ snapshots \subseteq State
  /\ app \in {"stopped", "restoring", "restoring_only", "serving",
              "replicating"}
  /\ rebuild \in {"no", "stopped", "moved", "restored", "failed"}
  /\ written \in 0 .. MaxWrite
  /\ image \in [disk: Disk, env: Path]

Init ==
  /\ disk = Bare /\ aside = Bare
  /\ env = 0 /\ stamp = 0
  /\ replica = [p \in Path |-> Empty]
  /\ snapshots = {}
  /\ app = "stopped" /\ rebuild = "no"
  /\ written = 0
  /\ image = NoImage

-----------------------------------------------------------------------------
(* check_replica.                                                          *)

(* replica_paths                                                           *)
Held == {p \in Path : replica[p].txid > 0}

OnDisk == disk.db # NoDb

(* The configured path is older than the newest in the bucket.             *)
OlderPath == \E p \in Held : env < p

(* The bucket holds replicas, and none under the configured path.          *)
NothingToRestore == ~OnDisk /\ env \notin Held /\ Held # {}

(* local_txid and replica_txid compared; an unknown one is let through.    *)
BehindReplica ==
  /\ OnDisk /\ env \in Held
  /\ disk.txid # NoTxid
  /\ disk.txid < replica[env].txid

(* Seeded fault: positions compared off by one.                            *)
RefusedTooLate(mode) ==
  \/ OlderPath
  \/ NothingToRestore
  \/ mode = "replicate" /\ BehindReplica /\ disk.txid + 1 < replica[env].txid

(* Seeded fault: an empty path taken for the first start.                  *)
RefusedUnlessFirst(mode) ==
  \/ OlderPath
  \/ mode = "replicate" /\ BehindReplica

(* Seeded fault: the paths not compared.                                   *)
RefusedAnyPath(mode) ==
  \/ NothingToRestore
  \/ mode = "replicate" /\ BehindReplica

Refused(mode) ==
  \/ OlderPath
  \/ NothingToRestore
  \/ mode = "replicate" /\ BehindReplica

-----------------------------------------------------------------------------
(* entrypoint.sh.                                                          *)

Start(mode) ==
  /\ app = "stopped" /\ rebuild \in {"no", "failed"}
  /\ mode \in Modes \ {"off"}
  /\ \/ ~Refused(mode)
     \/ "blind_start" \in Mishaps /\ OnDisk
  /\ app' = IF mode = "replicate" THEN "restoring" ELSE "restoring_only"
  /\ rebuild' = "no"
  /\ aside' = Bare
  /\ UNCHANGED <<disk, env, stamp, bucket, written, image>>

(* litestream restore with -if-db-not-exists and -if-replica-exists, then  *)
(* migrate, which creates a database where there is none.                  *)
Restore ==
  /\ app \in {"restoring", "restoring_only"}
  /\ disk' = IF OnDisk
             THEN disk
             ELSE [Bare EXCEPT !.db = IF env \in Held
                                      THEN replica[env].state ELSE {}]
  /\ app' = IF app = "restoring" THEN "replicating" ELSE "serving"
  /\ UNCHANGED <<env, bucket, rebuild, aside, stamp, written, image>>

(* LITESTREAM_MODE=off serves directly: no check and no restore.           *)
StartOff ==
  /\ app = "stopped" /\ rebuild \in {"no", "failed"}
  /\ "off" \in Modes
  /\ OnDisk \/ "off_without_db" \in Mishaps
  /\ disk' = IF OnDisk THEN disk ELSE [Bare EXCEPT !.db = {}]
  /\ app' = "serving"
  /\ rebuild' = "no"
  /\ aside' = Bare
  /\ UNCHANGED <<env, stamp, bucket, written, image>>

(* The container stops or is killed.                                       *)
Halt ==
  /\ app # "stopped"
  /\ app' = "stopped"
  /\ UNCHANGED <<host, bucket, rebuild, written, image>>

-----------------------------------------------------------------------------
(* The running site.                                                       *)

Write ==
  /\ app \in {"serving", "replicating"}
  /\ written < MaxWrite
  /\ written' = written + 1
  /\ disk' = [disk EXCEPT !.db = @ \union {written + 1}]
  /\ UNCHANGED <<env, bucket, app, rebuild, aside, stamp, image>>

NextTxid ==
  IF disk.txid < replica[env].txid
  THEN replica[env].txid + 1 ELSE disk.txid + 1

Unsynced ==
  \/ disk.txid # replica[env].txid
  \/ disk.db # replica[env].state

(* Litestream numbers the changes in its directory and uploads them, or    *)
(* does not get as far as the upload.                                      *)
Sync(uploaded) ==
  /\ app = "replicating"
  /\ Unsynced
  /\ NextTxid <= MaxTxid
  /\ disk' = [disk EXCEPT !.txid = NextTxid]
  /\ replica' = IF uploaded
                THEN [replica EXCEPT ![env] =
                        [txid |-> NextTxid,
                         state |-> disk.db,
                         past |-> @.past \union {disk.db}]]
                ELSE replica
  /\ UNCHANGED <<env, snapshots, app, rebuild, aside, stamp, written, image>>

(* snapshot_db                                                             *)
TakeSnapshot ==
  /\ app \in {"serving", "replicating"}
  /\ snapshots' = snapshots \union {disk.db}
  /\ UNCHANGED <<host, replica, app, rebuild, written, image>>

-----------------------------------------------------------------------------
(* rebuild.sh.                                                             *)

BeginRebuild ==
  /\ rebuild \in {"no", "failed"}
  /\ stamp < MaxPath
  /\ stamp' = stamp + 1
  /\ app' = "stopped"
  /\ rebuild' = "stopped"
  /\ aside' = Bare
  /\ UNCHANGED <<disk, env, bucket, written, image>>

MoveAside ==
  /\ rebuild = "stopped"
  /\ aside' = disk
  /\ disk' = Bare
  /\ rebuild' = "moved"
  /\ UNCHANGED <<env, stamp, bucket, app, written, image>>

(* --latest and --at, of the current path or of another with --from.       *)
FromReplica(p) ==
  /\ p \in Held
  /\ \E state \in replica[p].past : disk' = [Bare EXCEPT !.db = state]

(* --snapshot                                                              *)
FromSnapshot ==
  \E state \in snapshots : disk' = [Bare EXCEPT !.db = state]

RestoreCopy ==
  /\ rebuild = "moved"
  /\ FromSnapshot \/ \E p \in Path : FromReplica(p)
  /\ rebuild' = "restored"
  /\ UNCHANGED <<env, aside, stamp, bucket, app, written, image>>

(* Seeded fault: replication resumes into the path in use before.          *)
SetEnvUnchanged ==
  /\ rebuild = "restored"
  /\ rebuild' = "no"
  /\ UNCHANGED <<host, bucket, app, written, image>>

(* set_env_value LITESTREAM_REPLICA_PATH; docker compose up then starts.   *)
SetEnv ==
  /\ rebuild = "restored"
  /\ env' = stamp
  /\ rebuild' = "no"
  /\ aside' = Bare
  /\ UNCHANGED <<disk, stamp, bucket, app, written, image>>

(* The script fails or is killed: the app is left stopped and .env as it   *)
(* was.                                                                    *)
RebuildFails ==
  /\ \/ rebuild \in {"stopped", "moved"}
     \/ rebuild = "restored" /\ "rebuild_dies" \in Mishaps
  /\ rebuild' = "failed"
  /\ UNCHANGED <<host, bucket, app, written, image>>

(* As the failed script says, to go back to the previous database.         *)
PutBack ==
  /\ rebuild = "failed"
  /\ aside.db # NoDb
  /\ disk' = aside
  /\ aside' = Bare
  /\ rebuild' = "no"
  /\ UNCHANGED <<env, stamp, bucket, app, written, image>>

-----------------------------------------------------------------------------
(* The machine and its operator.                                           *)

Machine(newDisk, newEnv) ==
  /\ disk' = newDisk
  /\ env' = newEnv
  /\ aside' = Bare
  /\ app' = "stopped" /\ rebuild' = "no"
  /\ UNCHANGED <<stamp, bucket, written, image>>

(* A new machine has an empty disk and a fresh .env.                       *)
LoseMachine == Machine(Bare, 0)

TakeImage ==
  /\ rebuild = "no" /\ OnDisk
  /\ \/ disk.txid > 0 /\ disk.txid = replica[env].txid
     \/ "unsynced_image" \in Mishaps
  /\ image' = [disk |-> disk, env |-> env]
  /\ UNCHANGED <<host, bucket, app, rebuild, written>>

UseImage ==
  /\ image # NoImage
  /\ Machine(image.disk, image.env)

(* A start refused for its path names the newest one; the operator sets it.*)
Repoint ==
  /\ app = "stopped" /\ rebuild = "no"
  /\ OlderPath
  /\ ~OnDisk \/ "repoint_with_db" \in Mishaps
  /\ env' \in Held
  /\ \A p \in Held : p <= env'
  /\ UNCHANGED <<disk, aside, stamp, bucket, app, rebuild, written, image>>

-----------------------------------------------------------------------------
Entrypoint == StartOff \/ Restore \/ \E mode \in AllModes : Start(mode)

Site == Write \/ TakeSnapshot \/ \E uploaded \in BOOLEAN : Sync(uploaded)

Rebuild ==
  \/ BeginRebuild \/ MoveAside \/ RestoreCopy \/ SetEnv
  \/ RebuildFails \/ PutBack

Operator == Halt \/ LoseMachine \/ TakeImage \/ UseImage \/ Repoint

Next == Entrypoint \/ Site \/ Rebuild \/ Operator

Spec == Init /\ [][Next]_vars
-----------------------------------------------------------------------------
(* Safety.                                                                 *)

(* Whatever crashes, machines and rebuilds there are, no replica path is   *)
(* ever written over: the starts that check_replica lets through only add  *)
(* to the newest path.                                                     *)
Promise == INSTANCE ReplicaHistory
  WITH held <- Held, content <- [p \in Path |-> replica[p].state]

PromiseKept == Promise!Spec

(* A database is replicated only into the newest path, and only one that   *)
(* contains everything that path holds.                                    *)
ReplicatesCurrent ==
  app = "replicating" =>
    /\ ~OlderPath
    /\ replica[env].state \subseteq disk.db

(* An empty catalogue is served only when the bucket has never held one:   *)
(* where there was no database, a start serves the newest replica.         *)
NeverServesEmpty ==
  [][~OnDisk /\ app' \in {"serving", "replicating"} =>
       \/ Held = {}
       \/ env \in Held /\ ~OlderPath /\ disk'.db = replica[env].state]_vars

(* Even when positions are unknown, the script dies or the bucket is not   *)
(* compared at all (LITESTREAM_MODE=off), a path that a rebuild has moved  *)
(* on from keeps its history: it is what --from goes back to.              *)
OldPathsFrozen ==
  [][\A p, q \in Path :
       p < q /\ q \in Held => replica'[p] = replica[p]]_replica

-----------------------------------------------------------------------------
(* What makes them inductive.                                              *)

(* A disk that a start would let replicate into path p lacks nothing that  *)
(* p holds.                                                                *)
Trusted(d, p) ==
  d.db # NoDb /\ (d.txid = NoTxid \/ d.txid >= replica[p].txid) =>
    replica[p].state \subseteq d.db

(* The copy that the script restores is not trusted before .env is         *)
(* changed; until then the database moved aside may be put back.           *)
DisksOK ==
  /\ rebuild # "restored" => Trusted(disk, env)
  /\ Trusted(aside, env)
  /\ aside # Bare => rebuild \in {"moved", "restored", "failed"}
  /\ ~OnDisk => disk.txid = NoTxid
  /\ app \in {"serving", "replicating"} => OnDisk
  /\ rebuild # "no" => app = "stopped"
  /\ app = "restoring" => ~OlderPath /\ ~BehindReplica
  /\ app = "restoring_only" => ~OlderPath
  /\ app \in {"restoring", "restoring_only"} => ~NothingToRestore

(* A new stamp names a path that holds nothing.                            *)
StampOK ==
  /\ env <= stamp /\ image.env <= stamp
  /\ \A p \in Held : p <= stamp
  /\ rebuild # "no" => env < stamp /\ stamp \notin Held
  /\ \A p \in Path : p \notin Held => replica[p].state = {}

(* An image is no further than the replica it was level with.              *)
ImageOK ==
  image # NoImage =>
    /\ image.disk.db # NoDb
    /\ image.disk.txid # NoTxid
    /\ image.disk.txid <= replica[image.env].txid
    /\ Trusted(image.disk, image.env)

GuardOK == TypeOK /\ DisksOK /\ StampOK /\ ImageOK /\ ReplicatesCurrent

-----------------------------------------------------------------------------
(* What the documentation says and the code does not do.                   *)

(* rebuild.sh: the history under a path is never written over.             *)
(* check_replica: an older copy of the disk is not replicated over the     *)
(* newer state.                                                            *)
NeverWrittenOver ==
  [][\A p \in Path : replica[p].state \subseteq replica'[p].state]_replica
=============================================================================
