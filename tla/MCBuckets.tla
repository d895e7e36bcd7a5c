------------------------------ MODULE MCBuckets -------------------------------
(***************************************************************************)
(* What is written to the buckets and deleted from them, in small          *)
(* instances: the replica paths when things go wrong beyond crashes        *)
(* (ReplicaGuard with mishaps), the dated snapshots and the test restore   *)
(* (Snapshots) and the staged photographs (StagingCleanup).  The three     *)
(* share no state: a behaviour runs one of them, which part says.          *)
(* StagingCleanup runs with one photograph, and with two.                  *)
(***************************************************************************)
EXTENDS Snapshots, StagingCleanup, TLC

CONSTANTS MaxWrite, MaxPath, MaxTxid, Modes, Mishaps, NoDb

VARIABLES
  part,
  disk, env, replica, snapshots, app, rebuild, aside, stamp, written, image

Guard == INSTANCE ReplicaGuard

guardVars == <<disk, env, replica, snapshots, app, rebuild, aside, stamp,
               written, image>>
bucketsVars == <<part, guardVars, snapVars, cleanupVars>>

BucketsInit ==
  /\ part \in {"replicas", "snapshots", "one photo", "photos"}
  /\ Guard!Init /\ SnapInit /\ CleanupInit
  /\ part # "snapshots" => overlap = TRUE

(* Photographs there has been anything of.                                 *)
Photos ==
  {p \in Photo : HasRow(p) \/ HasFile(p) \/ p \in copied \/ ~Now(p, "none")}

(* With two photographs a scan closes once and stays closed, unless a      *)
(* discarded one is confirmed, and waits in one way.                       *)
ClosedOnce(p) ==
  /\ scanRow'[p].status # "pending"
  /\ scanRow[p].status = "confirmed" =>
       /\ scanRow'[p].status \in {"confirmed", "none"}
       /\ ~Now(p, "discard")'
  /\ scanRow[p].status = "discarded" => scanRow'[p].status # "awaiting_ocr"

BucketsNext ==
  /\ UNCHANGED part
  /\ \/ /\ part = "replicas"
        /\ Guard!Next
        /\ UNCHANGED <<snapVars, cleanupVars>>
     \/ /\ part = "snapshots"
        /\ SnapNext
        /\ UNCHANGED <<guardVars, cleanupVars>>
     \/ /\ part \in {"one photo", "photos"}
        /\ CleanupNext
        /\ IF part = "photos" THEN \A p \in Photo : ClosedOnce(p)
                             ELSE Cardinality(Photos') <= 1
        /\ UNCHANGED <<guardVars, snapVars>>

BucketsSpec == BucketsInit /\ [][BucketsNext]_bucketsVars

(* A path that a rebuild has moved on from keeps its history.              *)
OldPathsFrozen == Guard!OldPathsFrozen

Symmetry == Permutations(Execution) \union Permutations(Photo)
=============================================================================
