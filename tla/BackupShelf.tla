----------------------------- MODULE BackupShelf -----------------------------
(***************************************************************************)
(* What the nightly scripts promise about physical backups: a backup that  *)
(* is finished can be restored until there is a reason to give it up, and  *)
(* one that cannot be restored does not come back.  What counts as a       *)
(* reason is up to the implementation, BackupRotation.                     *)
(***************************************************************************)
EXTENDS Naturals

VARIABLES
    points,   \* the backups that can be restored
    gone,     \* those that are finished and cannot
    excused   \* the backups there was a reason to give up

vars == <<points, gone, excused>>

Init == points = {} /\ gone = {} /\ excused = {}

Next ==
    /\ excused \subseteq excused'
    /\ gone \subseteq gone' /\ gone' \ gone \subseteq excused'
    /\ points \subseteq points' \cup gone' /\ points' \cap gone' = {}

Spec == Init /\ [][Next]_vars
=============================================================================
