-------------------------- MODULE MCSeriesPlacement --------------------------
(***************************************************************************)
(* Small instances of SeriesPlacement.  A behaviour has at most one of the *)
(* admin's two forms, adminForm says which, and then one spelling.  With a *)
(* record's form, every series is a work-set nobody has set by hand, and   *)
(* no form of a record is opened after one has taken a membership away.    *)
(***************************************************************************)
EXTENDS SeriesPlacement, TLC

VARIABLE adminForm

(* Threads, records, series rows and works are interchangeable.            *)
Symmetry ==
  Permutations(Request) \union Permutations(Record)
    \union Permutations(SeriesId) \union Permutations(Work)

TitlesInUse ==
  ({series[s].title : s \in Stored}
     \union {link[w].title : w \in Request}) \ {NoTitle}

PlacementInit ==
  /\ Init
  /\ adminForm \in {"form", "record", "none"}
  /\ serial \/ "admin" \notin Endpoints => adminForm = "none"

(* What a behaviour with a record's form leaves out.                       *)
RecordFormBound ==
  /\ \A s \in Stored : series[s].kind = "work" /\ series[s].source = "imported"
  /\ parted # {} => \A p \in Person : page[p].pc # "record"

PlacementNext ==
  /\ Next
  /\ \A p \in Person : page'[p].pc \in {"closed", "adding", adminForm}
  /\ adminForm # "none" => \A t \in TitlesInUse' : t[2] = "a"
  /\ adminForm = "record" => RecordFormBound'
  /\ UNCHANGED adminForm

PlacementSpec == PlacementInit /\ [][PlacementNext]_<<vars, adminForm>>
=============================================================================
