--------------------------- MODULE ReplicaHistory ----------------------------
(***************************************************************************)
(* What the backup bucket promises, with nothing said of hosts, disks or   *)
(* scripts: the history under a replica path is never written over.  A     *)
(* path only gains writes, and once a newer path holds anything the older  *)
(* ones stay as they are.                                                  *)
(***************************************************************************)
EXTENDS Integers

CONSTANTS
  Path,    \* replica paths, in the order of their stamps
  Writes   \* writes to the catalogue

VARIABLES
  held,    \* the paths that hold a replica
  content  \* the newest state under each path

Init ==
  /\ held = {}
  /\ content = [p \in Path |-> {}]

Extend(p, state) ==
  /\ \A q \in held : q <= p
  /\ content[p] \subseteq state
  /\ held' = held \union {p}
  /\ content' = [content EXCEPT ![p] = state]

Next == \E p \in Path, state \in SUBSET Writes : Extend(p, state)

Spec == Init /\ [][Next]_<<held, content>>
=============================================================================
