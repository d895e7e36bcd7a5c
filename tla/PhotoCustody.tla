---------------------------- MODULE PhotoCustody -----------------------------
(***************************************************************************)
(* What the application promises of an uploaded photograph, with nothing   *)
(* said of rows, requests or storage calls.  A photograph is taken into    *)
(* staging; from there it is kept for good with a record, or dropped       *)
(* because somebody discarded it.  A kept photograph stays kept, and no    *)
(* photograph goes missing in any other way.  One whose confirmation had   *)
(* already read it may still be kept after it was dropped.                 *)
(***************************************************************************)
CONSTANT Photo

VARIABLE custody

Custody == {"none", "staged", "kept", "dropped"}

Init == custody = [p \in Photo |-> "none"]

Move(p, from, to) ==
  /\ custody[p] \in from
  /\ custody' = [custody EXCEPT ![p] = to]

Take(p) == Move(p, {"none"}, "staged")

Keep(p) == Move(p, {"staged", "dropped"}, "kept")

Drop(p) == Move(p, {"staged"}, "dropped")

Next == \E p \in Photo : Take(p) \/ Keep(p) \/ Drop(p)

Spec == Init /\ [][Next]_custody
=============================================================================
