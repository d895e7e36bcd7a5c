---------------------------- MODULE MCRecordIndex ----------------------------
(* RecordIndex on a small catalogue, with the symmetry that is sound for    *)
(* it: nothing tells one worker, or one name, from another, except the     *)
(* CHOOSE that fills rows nobody reads, so names and texts are left alone.  *)
EXTENDS RecordIndex, TLC

Symmetry == Permutations(Worker) \cup Permutations(Author)
                \cup Permutations(Record)
=============================================================================
