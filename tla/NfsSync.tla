------------------------------- MODULE NfsSync -------------------------------
(***************************************************************************)
(* SyncDBxBak.sh copies the backups to an NFS share that it mounts for the *)
(* purpose with NfsMount.sh and unmounts when it is done.  A mount request *)
(* to a server that is away waits for ever, so NfsMount leaves a watchdog  *)
(* behind that, 15 seconds later, kills every mount.nfs of the machine.    *)
(* Nothing keeps two runs of the script apart but the kernel, which does   *)
(* not mount a share twice on one directory.                               *)
(*                                                                         *)
(* All of it runs under set -e: where a command fails the script ends.  In *)
(* particular NfsMount.sh:45-51, which try umount again, are never reached.*)
(***************************************************************************)
EXTENDS Naturals, FiniteSets

CONSTANTS
    Item,       \* what appears below PhysicalBackup and LogicalBackup
    Directory,  \* the backups innobackupex makes in PhysicalBackup
    Logical,    \* what LogicalBackup.sh makes in LogicalBackup
    Together,   \* the sets of items of which all may appear: a bound of
                \*   the model, SUBSET Item for none
    Run,        \* the runs of SyncDBxBak.sh that may be at work at once
    Faults,     \* what may go wrong: a subset of {"busy", "kill"}
    MaxFaults   \* how often something does: a bound of the model

ASSUME ItemAssumption  == Directory \subseteq Item /\ Logical \subseteq Item
ASSUME BoundAssumption == Together \subseteq SUBSET Item
ASSUME KindAssumption  == Directory \cap Logical = {}
ASSUME FaultAssumption == Faults \subseteq {"busy", "kill"} /\ MaxFaults \in Nat

VARIABLES
    local,      \* each item on the disk: it is being written ("part"), it is
                \*   "whole", it has been removed ("gone"); a directory
                \*   counts as being written until it is removed
    remote,     \* what of it is on the share
    up,         \* the NFS server answers
    mounted,    \* the share is mounted on NfsBackup
    pc,         \* where each run of SyncDBxBak.sh is
    bdir,       \* BDIR, the name the run's rsync will exclude
    todo,       \* what its rsync has still to copy
    missed,     \* something on rsync's list was gone when its turn came
    watchdog,   \* the watchdogs that have not yet looked for mount.nfs
    faults,     \* how often something went wrong
    exposed     \* history: directories that were not alone on the disk, or
                \*   appeared after a run had looked for the one to exclude

disk  == <<local, exposed>>
share == <<remote, mounted>>
vars  == <<disk, share, up, pc, bdir, todo, missed, watchdog, faults>>

Present == {i \in Item : local[i] \in {"part", "whole"}}

(* The run has the share for itself (or believes so).                      *)
InSync(r) == pc[r] \in {"find", "list", "physical", "logical", "umount"}

(* mount.nfs exists for this run: it waits for the server, or the kernel   *)
(* has attached the share and mount.nfs has still to return.               *)
HasMountNfs(r) == pc[r] \in {"mounting", "attached"}

(* The share is mounted and nobody is left who will unmount it.            *)
LeftMounted == mounted /\ \A r \in Run : ~InSync(r) /\ pc[r] # "attached"

MayFail(what) == what \in Faults /\ faults < MaxFaults
Fault(what)   == MayFail(what) /\ faults' = faults + 1

Goto(r, label) == pc' = [pc EXCEPT ![r] = label]

-----------------------------------------------------------------------------
(* NfsMount 1: the watchdog is put into the background, then mount.        *)

Mount(r) ==
    /\ pc[r] = "idle"
    /\ r \notin watchdog        \* 15 seconds are less than a night
    /\ watchdog' = watchdog \cup {r}
    /\ Goto(r, "mounting")
    /\ UNCHANGED <<disk, share, up, bdir, todo, missed, faults>>

Attach(r) ==
    /\ pc[r] = "mounting"
    /\ up
    /\ ~mounted
    /\ mounted' = TRUE
    /\ Goto(r, "attached")
    /\ UNCHANGED <<disk, remote, up, bdir, todo, missed, watchdog, faults>>

(* Defect: `mount` on a directory that is in use is not refused.           *)
IgnoreBusy(r) ==
    /\ pc[r] = "mounting"
    /\ up
    /\ mounted
    /\ Goto(r, "attached")
    /\ UNCHANGED <<disk, share, up, bdir, todo, missed, watchdog, faults>>

(* Defect: what is in the way is unmounted.                                *)
UnmountBusy(r) ==
    /\ pc[r] = "mounting"
    /\ up
    /\ mounted
    /\ mounted' = FALSE
    /\ Goto(r, "idle")
    /\ UNCHANGED <<disk, remote, up, bdir, todo, missed, watchdog, faults>>

(* Defect: a run whose mount failed cleans up on its way out.              *)
UnmountOnTheWayOut(r) ==
    /\ pc[r] = "mounting"
    /\ up
    /\ mounted
    /\ Goto(r, "umount")
    /\ UNCHANGED <<disk, share, up, bdir, todo, missed, watchdog, faults>>

(* "busy or already mounted"                                               *)
AlreadyMounted(r) ==
    /\ pc[r] = "mounting"
    /\ up
    /\ mounted
    /\ Goto(r, "idle")
    /\ UNCHANGED <<disk, share, up, bdir, todo, missed, watchdog, faults>>

MountReturns(r) ==
    /\ pc[r] = "attached"
    /\ Goto(r, "find")
    /\ UNCHANGED <<disk, share, up, bdir, todo, missed, watchdog, faults>>

(* Defect: the watchdog looks for the mount of its own run and misses it.  *)
WatchdogBlind(r) ==
    /\ r \in watchdog
    /\ watchdog' = watchdog \ {r}
    /\ UNCHANGED <<disk, share, up, pc, bdir, todo, missed, faults>>

(* is_mount_alive, killall -9 mount.nfs.  mount then fails, and the script *)
(* with it, whether or not the kernel has attached the share.              *)
Watchdog(r) ==
    /\ r \in watchdog
    /\ watchdog' = watchdog \ {r}
    /\ pc' = [q \in Run |-> IF HasMountNfs(q) THEN "idle" ELSE pc[q]]
    /\ UNCHANGED <<disk, share, up, bdir, todo, missed, faults>>

-----------------------------------------------------------------------------
(* SyncDBxBak.                                                             *)

(* Defect: nothing is excluded.                                            *)
FindNothing(r) ==
    /\ pc[r] = "find"
    /\ bdir' = [bdir EXCEPT ![r] = {}]
    /\ Goto(r, "list")
    /\ UNCHANGED <<disk, share, up, todo, missed, watchdog, faults>>

(* find -type d | head -n1: one directory, whichever comes first.          *)
Find(r) ==
    /\ pc[r] = "find"
    /\ \/ \E d \in Directory \cap Present : bdir' = [bdir EXCEPT ![r] = {d}]
       \/ Directory \cap Present = {} /\ bdir' = [bdir EXCEPT ![r] = {}]
    /\ Goto(r, "list")
    /\ UNCHANGED <<disk, share, up, todo, missed, watchdog, faults>>

(* rsync goes through PhysicalBackup.                                      *)
List(r) ==
    /\ pc[r] = "list"
    /\ todo' = [todo EXCEPT ![r] = (Present \ Logical) \ bdir[r]]
    /\ bdir' = [bdir EXCEPT ![r] = {}]
    /\ Goto(r, "physical")
    /\ UNCHANGED <<disk, share, up, missed, watchdog, faults>>

(* Defect: what is on the share already is not copied again.               *)
CopyNew(r, i) ==
    /\ pc[r] \in {"physical", "logical"}
    /\ i \in todo[r]
    /\ up
    /\ todo' = [todo EXCEPT ![r] = @ \ {i}]
    /\ remote' = IF remote[i] = "absent" /\ i \in Present
                 THEN [remote EXCEPT ![i] = local[i]] ELSE remote
    /\ missed' = [missed EXCEPT ![r] = @ \/ i \notin Present]
    /\ UNCHANGED <<disk, mounted, up, pc, bdir, watchdog, faults>>

(* One item of the list.  An rsync whose file has vanished goes on, and    *)
(* fails in the end.                                                       *)
Copy(r, i) ==
    /\ pc[r] \in {"physical", "logical"}
    /\ i \in todo[r]
    /\ up
    /\ todo' = [todo EXCEPT ![r] = @ \ {i}]
    /\ remote' = IF i \in Present THEN [remote EXCEPT ![i] = local[i]] ELSE remote
    /\ missed' = [missed EXCEPT ![r] = @ \/ i \notin Present]
    /\ UNCHANGED <<disk, mounted, up, pc, bdir, watchdog, faults>>

(* Defect: the status of the failed rsync is kept for the next one.        *)
RsyncFailsAgain(r) ==
    /\ pc[r] \in {"physical", "logical"}
    /\ todo' = [todo EXCEPT ![r] = {}]
    /\ Goto(r, "idle")
    /\ UNCHANGED <<disk, share, up, bdir, missed, watchdog, faults>>

(* After the list, if something was missed; and at any time, when the      *)
(* share is full, the source is not there (RemoveDbxBak.sh:21 may have     *)
(* removed all of LogicalBackup) or rsync is not installed.                *)
RsyncFails(r) ==
    /\ pc[r] \in {"physical", "logical"}
    /\ todo' = [todo EXCEPT ![r] = {}]
    /\ missed' = [missed EXCEPT ![r] = FALSE]
    /\ Goto(r, "idle")
    /\ UNCHANGED <<disk, share, up, bdir, watchdog, faults>>

PhysicalDone(r) ==
    /\ pc[r] = "physical"
    /\ todo[r] = {} /\ ~missed[r]
    /\ todo' = [todo EXCEPT ![r] = Present \cap Logical]
    /\ Goto(r, "logical")
    /\ UNCHANGED <<disk, share, up, bdir, missed, watchdog, faults>>

LogicalDone(r) ==
    /\ pc[r] = "logical"
    /\ todo[r] = {} /\ ~missed[r]
    /\ Goto(r, "umount")
    /\ UNCHANGED <<disk, share, up, bdir, todo, missed, watchdog, faults>>

(* NfsMount 0.                                                             *)
Unmount(r) ==
    /\ pc[r] = "umount"
    /\ mounted' = FALSE
    /\ Goto(r, "idle")
    /\ UNCHANGED <<disk, remote, up, bdir, todo, missed, watchdog, faults>>

UnmountFails(r) ==
    /\ pc[r] = "umount"
    /\ Fault("busy")
    /\ Goto(r, "idle")
    /\ UNCHANGED <<disk, share, up, bdir, todo, missed, watchdog>>

-----------------------------------------------------------------------------
(* The machine and the other scripts.                                      *)

Kill(r) ==
    /\ pc[r] # "idle"
    /\ Fault("kill")
    /\ Goto(r, "idle")
    /\ bdir' = [bdir EXCEPT ![r] = {}]
    /\ todo' = [todo EXCEPT ![r] = {}]
    /\ missed' = [missed EXCEPT ![r] = FALSE]
    /\ UNCHANGED <<disk, share, up, watchdog>>

ServerGoes  == /\ up /\ up' = FALSE
               /\ UNCHANGED <<disk, share, pc, bdir, todo, missed, watchdog, faults>>
ServerComes == /\ ~up /\ up' = TRUE
               /\ UNCHANGED <<disk, share, pc, bdir, todo, missed, watchdog, faults>>

(* Names carry the time, a second item has another name.                   *)
Create(i) ==
    /\ local[i] = "absent"
    /\ {j \in Item : j = i \/ local[j] # "absent"} \in Together
    /\ local' = [local EXCEPT ![i] = "part"]
    /\ exposed' = LET others == Directory \cap Present IN
                  IF i \notin Directory THEN exposed
                  ELSE IF others # {} THEN exposed \cup others \cup {i}
                  ELSE IF \E r \in Run : pc[r] = "list" THEN exposed \cup {i}
                  ELSE exposed
    /\ UNCHANGED <<share, up, pc, bdir, todo, missed, watchdog, faults>>

Complete(i) ==
    /\ i \notin Directory
    /\ local[i] = "part"
    /\ local' = [local EXCEPT ![i] = "whole"]
    /\ UNCHANGED <<exposed, share, up, pc, bdir, todo, missed, watchdog, faults>>

(* CompressDbxBak.sh removes directories, RemoveDbxBak.sh everything.      *)
Remove(i) ==
    /\ local[i] = IF i \in Directory THEN "part" ELSE "whole"
    /\ local' = [local EXCEPT ![i] = "gone"]
    /\ UNCHANGED <<exposed, share, up, pc, bdir, todo, missed, watchdog, faults>>

-----------------------------------------------------------------------------
Init ==
    /\ local = [i \in Item |-> "absent"]
    /\ remote = [i \in Item |-> "absent"]
    /\ up = TRUE
    /\ mounted = FALSE
    /\ pc = [r \in Run |-> "idle"]
    /\ bdir = [r \in Run |-> {}]
    /\ todo = [r \in Run |-> {}]
    /\ missed = [r \in Run |-> FALSE]
    /\ watchdog = {}
    /\ faults = 0
    /\ exposed = {}

Proceed(r) ==
    \/ Mount(r) \/ Attach(r) \/ AlreadyMounted(r) \/ MountReturns(r)
    \/ Find(r) \/ List(r) \/ PhysicalDone(r) \/ LogicalDone(r) \/ Unmount(r)
    \/ RsyncFails(r)
    \/ \E i \in Item : Copy(r, i)

Environment ==
    \/ ServerGoes \/ ServerComes
    \/ \E i \in Item : Create(i) \/ Complete(i) \/ Remove(i)

Next ==
    \/ \E r \in Run : Proceed(r) \/ Watchdog(r) \/ UnmountFails(r) \/ Kill(r)
    \/ Environment

(* cron starts the script every night, and what has been started goes on   *)
(* when it can; the watchdog's 15 seconds end.  A server that stays up     *)
(* will once answer a mount request before a watchdog fires.  Nothing is   *)
(* assumed of the server, the operator and the other scripts.              *)
Fairness ==
    \A r \in Run : /\ WF_vars(Proceed(r))
                   /\ WF_vars(Watchdog(r))
                   /\ SF_vars(Attach(r))

Spec == Init /\ [][Next]_vars /\ Fairness

-----------------------------------------------------------------------------
(* Properties.                                                             *)

(* The types; and a list of things to copy exists only inside an rsync.    *)
TypeOK ==
    /\ local \in [Item -> {"absent", "part", "whole", "gone"}]
    /\ remote \in [Item -> {"absent", "part", "whole"}]
    /\ up \in BOOLEAN
    /\ mounted \in BOOLEAN
    /\ pc \in [Run -> {"idle", "mounting", "attached", "find", "list",
                       "physical", "logical", "umount"}]
    /\ bdir \in [Run -> SUBSET Directory]
    /\ todo \in [Run -> SUBSET Item]
    /\ missed \in [Run -> BOOLEAN]
    /\ watchdog \subseteq Run
    /\ faults \in 0 .. MaxFaults
    /\ exposed \subseteq Directory
    /\ \A r \in Run : /\ todo[r] # {} => pc[r] \in {"physical", "logical"}
                      /\ missed[r] => pc[r] \in {"physical", "logical"}
                      /\ bdir[r] # {} => pc[r] = "list"

(* The only lock of the script is the mount: while a run copies, the share *)
(* is mounted (its rsync does not fill the local disk below the mount      *)
(* point instead) and no other run is past its own mount, whatever         *)
(* watchdogs, kills and busy unmounts leave behind.                        *)
OneRunHoldsTheMount ==
    \A r \in Run : (InSync(r) \/ pc[r] = "attached") =>
        /\ mounted
        /\ \A q \in Run \ {r} : ~InSync(q) /\ pc[q] # "attached"

(* The directory innobackupex is writing to does not get onto the share    *)
(* as long as it is the only one and was there when `find` looked: only    *)
(* one directory is excluded (SyncDBxBak.sh:16, 21), and nothing ever      *)
(* removes a torn copy from the share.                                     *)
OnlyExposedDirectoriesAreCopied ==
    \A d \in Directory : remote[d] # "absent" => d \in exposed

(* The mount as the lock on what is on the share: taken by one run at a    *)
(* time and only when it is free, the share changed by its holder only,    *)
(* and given back or, when its holder ends without an umount, taken for    *)
(* ever.                                                                   *)
Lock == INSTANCE ShareLock WITH
            holders <- {r \in Run : InSync(r) \/ pc[r] = "attached"},
            lost    <- LeftMounted,
            copies  <- remote
ShareLockSpec == Lock!Spec

(* No mount.nfs waits for ever, even when the server never answers: the    *)
(* watchdog sees to it.  (In rsync a run may wait for the server as long   *)
(* as it likes.)                                                           *)
MountRequestsEnd == \A r \in Run : HasMountNfs(r) ~> ~HasMountNfs(r)

(* An image or an export that is whole gets onto the share, if the server  *)
(* stays up from some time on, unless it is removed first or the share is  *)
(* left mounted: a run that ends between mount and unmount (a failing      *)
(* rsync, a busy unmount, a watchdog that kills mount.nfs after the kernel *)
(* has attached the share) leaves a mount that every later run fails on.   *)
WholeFilesArrive ==
    (<>[]up) => \A i \in Item \ Directory :
        local[i] = "whole" ~> remote[i] = "whole" \/ local[i] = "gone" \/ LeftMounted

(* ... and that is for ever: no step of the scripts ends such a state.     *)
LeftMountedStays == [][LeftMounted => LeftMounted' /\ remote' = remote]_vars
=============================================================================
