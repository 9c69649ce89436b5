------------------------------- MODULE ShareLock -------------------------------
(***************************************************************************)
(* What the mount on NfsBackup is to the runs of SyncDBxBak.sh: a lock on  *)
(* the share that one of them takes, under which alone the share changes,  *)
(* and which is given back or lost for ever.  Nothing is ever removed from *)
(* the share.  NfsSync implements it.                                      *)
(***************************************************************************)
CONSTANTS
    Run,   \* the runs
    Item   \* what may be copied

VARIABLES
    holders,  \* the runs that believe they have the share
    lost,     \* the share is taken and nobody has it
    copies    \* what of each item is on the share

vars == <<holders, lost, copies>>

Init ==
    /\ holders = {}
    /\ lost = FALSE
    /\ copies = [i \in Item |-> "absent"]

Take(r) ==
    /\ holders = {} /\ ~lost
    /\ holders' = {r}
    /\ UNCHANGED <<lost, copies>>

Change(i) ==
    /\ holders # {}
    /\ \E what \in {"part", "whole"} : copies' = [copies EXCEPT ![i] = what]
    /\ UNCHANGED <<holders, lost>>

(* A run that ends without an umount leaves the lock behind.               *)
Release(r) ==
    /\ holders = {r}
    /\ holders' = {}
    /\ lost' \in BOOLEAN
    /\ UNCHANGED copies

Next ==
    \/ \E r \in Run : Take(r) \/ Release(r)
    \/ \E i \in Item : Change(i)

Spec == Init /\ [][Next]_vars
================================================================================
