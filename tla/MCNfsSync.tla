------------------------------ MODULE MCNfsSync ------------------------------
(***************************************************************************)
(* Instance of NfsSync for TLC: two directories, an image and an export.   *)
(***************************************************************************)
EXTENDS NfsSync

CONSTANTS d1, d2, i1, e1, r1, r2

(* Both directories and the image, or the export and one of the others.    *)
MCTogether == SUBSET {d1, d2, i1} \cup SUBSET {d1, e1} \cup SUBSET {i1, e1}
=============================================================================
