------------------------- MODULE ReplicaGuardProofs --------------------------
(***************************************************************************)
(* Proofs about the replication guard: for any number of writes, rebuilds  *)
(* and transactions, a start that check_replica lets through only adds to  *)
(* the newest replica path.                                                *)
(***************************************************************************)
EXTENDS ReplicaGuard, TLAPS

LEMMA InitGuard == ASSUME Init PROVE GuardOK
  BY GuardBounds, NoDbAssumption
     DEF Init, GuardOK, TypeOK, DisksOK, StampOK, ImageOK, ReplicatesCurrent,
         Trusted, OnDisk, OlderPath, BehindReplica, NothingToRestore, Held,
         Bare, Empty, NoImage, Disk, Replica, Path, State, Writes, NoTxid

(* A running site has a database.                                          *)
LEMMA SiteHasDb ==
  ASSUME TypeOK, DisksOK, app \in {"serving", "replicating"}
  PROVE  disk.db \in State
  BY DEF TypeOK, DisksOK, OnDisk, Disk

LEMMA TypeStep ==
  ASSUME TypeOK, DisksOK, [Next]_vars PROVE TypeOK'
<1> USE GuardBounds DEF TypeOK
<1>1. ASSUME NEW mode \in AllModes, Start(mode) PROVE TypeOK'
  BY <1>1 DEF Start, Bare, Disk, NoTxid, bucket
<1>2. CASE Restore
  BY <1>2 DEF Restore, Bare, Disk, NoTxid, bucket, Held, Replica, State
<1>3. CASE StartOff
  BY <1>3 DEF StartOff, Bare, Disk, NoTxid, bucket, State
<1>4. CASE Halt
  BY <1>4 DEF Halt, host, bucket
<1>5. CASE Write
  <2>1. disk'.db \in State
    BY <1>5, SiteHasDb DEF Write, Disk, State, Writes
  <2>2. disk' \in Disk
    BY <1>5, <2>1 DEF Write, Disk
  <2> QED BY <1>5, <2>2 DEF Write, bucket
<1>6. ASSUME NEW uploaded \in BOOLEAN, Sync(uploaded) PROVE TypeOK'
  <2>1. disk.db \in State
    BY <1>6, SiteHasDb DEF Sync
  <2>2. /\ replica[env] \in Replica
        /\ NextTxid \in 0 .. MaxTxid
    BY <1>6 DEF Sync, Disk, Replica, NextTxid, NoTxid
  <2>3. disk' \in Disk
    BY <1>6, <2>2 DEF Sync, Disk, NoTxid
  <2>4. replica[env].past \union {disk.db} \in SUBSET State
    BY <2>1, <2>2 DEF Replica
  <2>5. replica' \in [Path -> Replica]
    BY <1>6, <2>1, <2>2, <2>4 DEF Sync, Replica
  <2> QED BY <1>6, <2>3, <2>5 DEF Sync
<1>7. CASE TakeSnapshot
  BY <1>7, SiteHasDb DEF TakeSnapshot, host
<1>8. CASE BeginRebuild
  BY <1>8 DEF BeginRebuild, bucket, Path, Bare, Disk, NoTxid
<1>9. CASE MoveAside
  BY <1>9 DEF MoveAside, bucket, Bare, Disk, NoTxid
<1>10. CASE RestoreCopy
  BY <1>10 DEF RestoreCopy, FromReplica, FromSnapshot, bucket, Bare, Disk,
              NoTxid, Replica
<1>11. CASE SetEnv
  BY <1>11 DEF SetEnv, Bare, Disk, NoTxid, bucket
<1>12. CASE RebuildFails
  BY <1>12 DEF RebuildFails, host, bucket
<1>13. CASE PutBack
  BY <1>13 DEF PutBack, bucket, Bare, Disk, NoTxid
<1>14. CASE LoseMachine
  BY <1>14 DEF LoseMachine, Machine, bucket, Bare, Disk, NoTxid, Path
<1>15. CASE TakeImage
  BY <1>15 DEF TakeImage, host, bucket
<1>16. CASE UseImage
  BY <1>16 DEF UseImage, Machine, bucket, Bare, Disk, NoTxid
<1>17. CASE Repoint
  BY <1>17 DEF Repoint, bucket, Held
<1>18. CASE UNCHANGED vars
  BY <1>18 DEF vars
<1> QED
  BY <1>1, <1>2, <1>3, <1>4, <1>5, <1>6, <1>7, <1>8, <1>9, <1>10, <1>11,
     <1>12, <1>13, <1>14, <1>15, <1>16, <1>17, <1>18
     DEF Next, Entrypoint, Site, Rebuild, Operator
LEMMA GuardStep ==
  ASSUME Mishaps = {}, GuardOK, [Next]_vars
  PROVE  GuardOK'
<1> DEFINE Goal == DisksOK' /\ StampOK' /\ ImageOK' /\ ReplicatesCurrent'
<1> USE GuardBounds
    DEF GuardOK, TypeOK, DisksOK, StampOK, ImageOK, ReplicatesCurrent, Trusted,
        OnDisk, OlderPath, BehindReplica, NothingToRestore, Held,
        Disk, Replica, Path, NoTxid, Bare, host, bucket, Machine
<1>1. ASSUME NEW mode \in AllModes, Start(mode) PROVE Goal
  BY <1>1 DEF Start, Refused
<1>2. ASSUME Restore PROVE Goal
  <2>1. Trusted(disk', env)
    BY <1>2 DEF Restore
  <2>2. /\ app = "restoring" \/ app = "restoring_only"
        /\ rebuild = "no" /\ ~OlderPath
        /\ app = "restoring" => ~BehindReplica
    BY <1>2 DEF Restore
  <2>3. disk'.db # NoDb
    BY <1>2, NoDbAssumption DEF Restore, State, Writes
  <2>4. app = "restoring" => replica[env].state \subseteq disk'.db
    BY <1>2, <2>1, <2>2 DEF Restore
  <2> QED BY <1>2, <2>1, <2>2, <2>3, <2>4 DEF Restore
<1>3. ASSUME Halt PROVE Goal
  BY <1>3 DEF Halt
<1>4. ASSUME Write PROVE Goal
  <2>1. /\ disk.db \in State
        /\ rebuild = "no"
    BY <1>4, SiteHasDb DEF Write
  <2>2. /\ disk'.db = disk.db \union {written + 1}
        /\ disk'.txid = disk.txid
    BY <1>4 DEF Write
  <2>3. disk'.db # NoDb
    BY <1>4, <2>1, <2>2, NoDbAssumption DEF Write, State, Writes
  <2>4. Trusted(disk', env)
    BY <1>4, <2>1, <2>2 DEF Write, State
  <2> QED BY <1>4, <2>1, <2>2, <2>3, <2>4 DEF Write
<1>5. ASSUME NEW uploaded \in BOOLEAN, Sync(uploaded) PROVE Goal
  <2>1. /\ app = "replicating" /\ rebuild = "no" /\ aside = Bare
        /\ OnDisk /\ disk.db \in State
    BY <1>5, SiteHasDb DEF Sync
  <2>2. /\ NextTxid \in 1 .. MaxTxid
        /\ NextTxid > replica[env].txid
    <3>1. /\ replica[env].txid \in 0 .. MaxTxid
          /\ disk.txid \in -1 .. MaxTxid
      OBVIOUS
    <3>2. NextTxid <= MaxTxid
      BY <1>5 DEF Sync
    <3>3. NextTxid >= replica[env].txid + 1
      <4> HIDE DEF TypeOK, GuardOK
      <4> QED BY <3>1 DEF NextTxid
    <3>4. NextTxid \in Int
      <4> HIDE DEF TypeOK, GuardOK
      <4> QED BY <3>1 DEF NextTxid
    <3> QED BY SMTT(30), <3>1, <3>2, <3>3, <3>4
  <2>3. disk' = [disk EXCEPT !.txid = NextTxid]
    BY <1>5 DEF Sync
  <2>4. CASE uploaded
    <3>1. /\ replica'[env].txid = NextTxid
          /\ replica'[env].state = disk.db
          /\ \A p \in Path : p # env => replica'[p] = replica[p]
      BY <1>5, <2>4 DEF Sync
    <3>2. \A p \in Path : replica'[p].txid > 0 <=> p = env \/ p \in Held
      BY <2>2, <3>1
    <3>3. ImageOK'
      BY SMTT(30), <1>5, <2>2, <3>1 DEF Sync
    <3>4. DisksOK' /\ ReplicatesCurrent'
      BY <1>5, <2>1, <2>2, <2>3, <3>1, <3>2 DEF Sync
    <3>5. StampOK'
      BY <1>5, <2>1, <2>2, <3>1, <3>2 DEF Sync
    <3> QED BY <3>3, <3>4, <3>5
  <2>5. CASE ~uploaded
    <3>1. replica' = replica
      BY <1>5, <2>5 DEF Sync
    <3> QED BY <1>5, <2>1, <2>2, <2>3, <3>1 DEF Sync
  <2> QED BY <2>4, <2>5
<1>6. ASSUME TakeSnapshot PROVE Goal
  BY <1>6 DEF TakeSnapshot
<1>7. ASSUME BeginRebuild PROVE Goal
  <2>1. /\ stamp' = stamp + 1 /\ app' = "stopped"
        /\ aside' = Bare
        /\ UNCHANGED <<disk, env, replica, image>>
    BY <1>7 DEF BeginRebuild
  <2>2. env < stamp' /\ image.env <= stamp'
    BY <2>1
  <2>3. \A p \in Held : p < stamp'
    BY <2>1
  <2>4. StampOK'
    BY <2>1, <2>2, <2>3
  <2>5. DisksOK'
    BY <1>7, <2>1 DEF BeginRebuild
  <2> QED BY <2>1, <2>4, <2>5
<1>8. ASSUME MoveAside PROVE Goal
  BY <1>8 DEF MoveAside
<1>9. ASSUME RestoreCopy PROVE Goal
  BY <1>9 DEF RestoreCopy, FromReplica, FromSnapshot
<1>10. ASSUME SetEnv PROVE Goal
  BY <1>10 DEF SetEnv
<1>11. ASSUME RebuildFails PROVE Goal
  BY <1>11 DEF RebuildFails
<1>12. ASSUME PutBack PROVE Goal
  BY <1>12 DEF PutBack
<1>13. ASSUME LoseMachine PROVE Goal
  BY <1>13 DEF LoseMachine
<1>14. ASSUME TakeImage PROVE Goal
  BY <1>14 DEF TakeImage, NoImage
<1>15. ASSUME UseImage PROVE Goal
  <2>1. Trusted(image.disk, image.env)
    BY <1>15 DEF UseImage
  <2>2. disk' = image.disk /\ env' = image.env
    BY <1>15 DEF UseImage
  <2> QED BY <1>15, <2>1, <2>2 DEF UseImage, NoImage
<1>16. ASSUME Repoint PROVE Goal
  <2>1. /\ ~OnDisk /\ aside = Bare
        /\ env' \in Held
        /\ \A p \in Held : p <= env'
    BY <1>16 DEF Repoint
  <2>2. env' <= stamp
    BY <2>1
  <2> QED BY <1>16, <2>1, <2>2 DEF Repoint
<1>17. ASSUME UNCHANGED vars PROVE Goal
  BY <1>17 DEF vars
<1>18. ASSUME StartOff PROVE Goal
  <2>1. disk.db # NoDb /\ disk' = disk
    BY <1>18 DEF StartOff
  <2> QED BY <1>18, <2>1 DEF StartOff
<1> HIDE DEF Goal, GuardOK, TypeOK, DisksOK, StampOK, ImageOK, ReplicatesCurrent
<1>19. Goal
  BY <1>1, <1>2, <1>3, <1>4, <1>5, <1>6, <1>7, <1>8, <1>9, <1>10, <1>11, <1>12, <1>13, <1>14, <1>15, <1>16, <1>17, <1>18
     DEF Next, Entrypoint, Site, Rebuild, Operator
<1> QED
  BY <1>19, TypeStep DEF Goal, GuardOK

-----------------------------------------------------------------------------
(* The inductive invariant: whatever a start would let replicate lacks     *)
(* nothing of the path it goes to.                                         *)
THEOREM GuardInvariant ==
  ASSUME Mishaps = {} PROVE Spec => []GuardOK
<1>1. Init => GuardOK
  BY InitGuard
<1>2. GuardOK /\ [Next]_vars => GuardOK'
  BY GuardStep
<1> QED BY <1>1, <1>2, PTL DEF Spec

(* entrypoint.sh replicates only into the newest path, and only a database *)
(* that contains everything that path holds.                               *)
THEOREM CurrentReplicated ==
  ASSUME Mishaps = {} PROVE Spec => []ReplicatesCurrent
<1>1. GuardOK => ReplicatesCurrent
  BY DEF GuardOK
<1> QED BY <1>1, GuardInvariant, PTL

(* What the bucket holds changes by an upload and nothing else.            *)
LEMMA OnlySyncUploads ==
  ASSUME [Next]_vars
  PROVE  \/ replica' = replica
         \/ Sync(TRUE)
<1>1. ASSUME NEW uploaded \in BOOLEAN, Sync(uploaded)
      PROVE  replica' = replica \/ Sync(TRUE)
  BY <1>1 DEF Sync
<1>2. ASSUME Entrypoint \/ Rebuild \/ Operator \/ Write \/ TakeSnapshot
      PROVE  replica' = replica
  BY <1>2
     DEF Entrypoint, Start, Restore, StartOff, Rebuild, BeginRebuild,
         MoveAside, RestoreCopy, SetEnv, RebuildFails, PutBack, Operator,
         Halt, LoseMachine, TakeImage, UseImage, Machine, Repoint, Write,
         TakeSnapshot, bucket
<1> QED BY <1>1, <1>2 DEF Next, Site, vars

(* The bucket implements ReplicaHistory: no path is written over, and a    *)
(* path that replication has moved on from stays as it is.                 *)
THEOREM HistoryKept ==
  ASSUME Mishaps = {} PROVE Spec => PromiseKept
<1>1. Init => Promise!Init
  BY DEF Init, Promise!Init, Held, Empty, Path
<1>2. ASSUME GuardOK, [Next]_vars
      PROVE  [Promise!Next]_<<Held, [p \in Path |-> replica[p].state]>>
  <2>1. CASE replica' = replica
    BY <2>1 DEF Held
  <2>2. CASE Sync(TRUE)
    <3>1. /\ env \in Path
          /\ disk.db \in SUBSET Writes
          /\ replica[env].state \subseteq disk.db
          /\ \A q \in Held : q <= env
      BY <1>2, <2>2, SiteHasDb
         DEF GuardOK, TypeOK, Sync, ReplicatesCurrent, OlderPath, Path, State,
             Held
    <3>2. NextTxid > 0
      BY <1>2 DEF GuardOK, TypeOK, NextTxid, Disk, Replica, NoTxid
    <3>3. replica' = [replica EXCEPT ![env] =
                        [txid |-> NextTxid, state |-> disk.db,
                         past |-> replica[env].past \union {disk.db}]]
      BY <2>2 DEF Sync
    <3>4. Held' = Held \union {env}
      BY <1>2, <3>1, <3>2, <3>3 DEF Held, GuardOK, TypeOK
    <3>5. [p \in Path |-> replica[p].state]' =
            [[p \in Path |-> replica[p].state] EXCEPT ![env] = disk.db]
      BY <1>2, <3>1, <3>3 DEF GuardOK, TypeOK
    <3>6. Promise!Extend(env, disk.db)
      BY <3>1, <3>4, <3>5 DEF Promise!Extend
    <3>7. Promise!Next
      BY <3>1, <3>6 DEF Promise!Next, Promise!Extend
    <3> QED BY <3>7
  <2> QED BY <1>2, <2>1, <2>2, OnlySyncUploads
<1> QED BY <1>1, <1>2, GuardInvariant, PTL DEF Spec, PromiseKept, Promise!Spec

(* Where there was no database, a start serves the newest replica, unless  *)
(* the bucket has never held one.                                          *)
THEOREM ServesReplica ==
  ASSUME Mishaps = {} PROVE Spec => NeverServesEmpty
<1> DEFINE Serves ==
      ~OnDisk /\ app' \in {"serving", "replicating"} =>
        \/ Held = {}
        \/ env \in Held /\ ~OlderPath /\ disk'.db = replica[env].state
<1>1. ASSUME GuardOK, Next PROVE Serves
  <2>1. CASE Restore
    BY <1>1, <2>1
       DEF GuardOK, DisksOK, Restore, OnDisk, NothingToRestore, Bare
  <2>2. ASSUME ~Restore, ~OnDisk PROVE app' \notin {"serving", "replicating"}
    <3>1. app \notin {"serving", "replicating"}
      BY <1>1, <2>2 DEF GuardOK, DisksOK
    <3> QED
      BY <1>1, <2>2, <3>1
         DEF Next, Entrypoint, Start, StartOff, Rebuild, BeginRebuild,
             MoveAside, RestoreCopy, SetEnv, RebuildFails, PutBack, Operator,
             Halt, LoseMachine, TakeImage, UseImage, Machine, Repoint, Site,
             Write, Sync, TakeSnapshot
  <2> QED BY <2>1, <2>2
<1>2. GuardOK /\ [Next]_vars => [Serves]_vars
  BY <1>1
<1> QED BY <1>2, GuardInvariant, PTL DEF Spec, NeverServesEmpty

-----------------------------------------------------------------------------
(* A container that may replicate was started against the newest path.     *)
Aimed ==
  /\ env \in Path /\ stamp \in Path /\ image.env \in Path
  /\ DOMAIN replica = Path
  /\ rebuild \in {"stopped", "moved", "restored"} => app = "stopped"
  /\ app \in {"restoring", "replicating"} => ~OlderPath

LEMMA AimedStep ==
  ASSUME "blind_start" \notin Mishaps, Aimed, [Next]_vars PROVE Aimed'
<1> USE GuardBounds DEF Aimed, Path
<1>1. ASSUME replica' = replica PROVE Held' = Held /\ DOMAIN replica' = Path
  BY <1>1 DEF Held
<1>2. ASSUME NEW mode \in AllModes, Start(mode) PROVE Aimed'
  BY <1>1, <1>2 DEF Start, Refused, OlderPath, bucket
<1>3. ASSUME Restore \/ StartOff PROVE Aimed'
  BY <1>1, <1>3 DEF Restore, StartOff, OlderPath, bucket
<1>4. ASSUME Write \/ TakeSnapshot PROVE Aimed'
  BY <1>1, <1>4 DEF Write, TakeSnapshot, OlderPath, bucket, host
<1>5. ASSUME NEW uploaded \in BOOLEAN, Sync(uploaded) PROVE Aimed'
  <2>1. app = "replicating" /\ ~OlderPath
    BY <1>5 DEF Sync
  <2>2. /\ DOMAIN replica' = Path
        /\ \A p \in Path : p # env => replica'[p] = replica[p]
    BY <1>5 DEF Sync
  <2>3. Held' \subseteq Held \union {env}
    BY <2>2 DEF Held
  <2>4. ~OlderPath'
    BY <1>5, <2>1, <2>3 DEF Sync, OlderPath, Held
  <2> QED BY <1>5, <2>1, <2>2, <2>4 DEF Sync
<1>6. ASSUME BeginRebuild \/ MoveAside \/ RestoreCopy PROVE Aimed'
  BY <1>1, <1>6 DEF BeginRebuild, MoveAside, RestoreCopy, OlderPath, bucket
<1>7. ASSUME SetEnv \/ RebuildFails \/ PutBack PROVE Aimed'
  BY <1>1, <1>7
     DEF SetEnv, RebuildFails, PutBack, OlderPath, bucket, host
<1>8. ASSUME Halt \/ TakeImage \/ Repoint PROVE Aimed'
  BY <1>1, <1>8 DEF Halt, TakeImage, Repoint, OlderPath, Held, bucket, host
<1>9. ASSUME LoseMachine \/ UseImage PROVE Aimed'
  BY <1>1, <1>9 DEF LoseMachine, UseImage, Machine, bucket
<1>10. ASSUME UNCHANGED vars PROVE Aimed'
  BY <1>1, <1>10 DEF vars, OlderPath
<1> QED
  BY <1>2, <1>3, <1>4, <1>5, <1>6, <1>7, <1>8, <1>9, <1>10
     DEF Next, Entrypoint, Site, Rebuild, Operator

(* A path that a rebuild has moved on from keeps its history, whatever the *)
(* mishap, as long as every start could list the bucket.                   *)
THEOREM OldPathsKept ==
  ASSUME "blind_start" \notin Mishaps PROVE Spec => OldPathsFrozen
<1> DEFINE Frozen ==
      \A p, q \in Path : p < q /\ q \in Held => replica'[p] = replica[p]
<1>1. Init => Aimed
  BY GuardBounds DEF Init, Aimed, Path, NoImage
<1>2. Aimed /\ [Next]_vars => Aimed'
  BY AimedStep
<1>3. ASSUME Aimed, [Next]_vars PROVE [Frozen]_replica
  <2>1. CASE Sync(TRUE)
    BY <1>3, <2>1 DEF Sync, Aimed, OlderPath, Path
  <2> QED BY <1>3, <2>1, OnlySyncUploads
<1> HIDE DEF Frozen
<1>4. Spec => [][Frozen]_replica
  BY <1>1, <1>2, <1>3, PTL DEF Spec
<1> QED BY <1>4 DEF OldPathsFrozen, Frozen
=============================================================================
