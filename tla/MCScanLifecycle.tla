--------------------------- MODULE MCScanLifecycle ---------------------------
(***************************************************************************)
(* Small instances of ScanLifecycle.                                       *)
(***************************************************************************)
EXTENDS ScanLifecycle, TLC

(* Threads and records are interchangeable in the safety runs.             *)
Symmetry == Permutations(Request) \union Permutations(Record)
=============================================================================
