---------------------------- MODULE NfsSyncProofs ----------------------------
(***************************************************************************)
(* Theorems about NfsSync, for every set of items and runs, whatever may   *)
(* go wrong and however often.                                             *)
(***************************************************************************)
EXTENDS NfsSync, TLAPS

(* Type correctness: in particular what a run has still to copy exists     *)
(* only inside an rsync, whoever ended the run.                            *)
THEOREM NfsTypes == Spec => []TypeOK
<1>1. Init => TypeOK
  <2> SUFFICES ASSUME Init PROVE TypeOK
    OBVIOUS
  <2>1. /\ local \in [Item -> {"absent", "part", "whole", "gone"}]
        /\ remote \in [Item -> {"absent", "part", "whole"}]
        /\ pc \in [Run -> {"idle", "mounting", "attached", "find", "list",
                           "physical", "logical", "umount"}]
        /\ missed \in [Run -> BOOLEAN]
    BY DEF Init
  <2>2. bdir \in [Run -> SUBSET Directory] /\ todo \in [Run -> SUBSET Item]
    BY DEF Init
  <2>3. faults \in 0 .. MaxFaults
    BY FaultAssumption DEF Init
  <2> QED
    BY <2>1, <2>2, <2>3 DEF Init, TypeOK
<1>2. TypeOK /\ [Next]_vars => TypeOK'
  <2> SUFFICES ASSUME TypeOK, [Next]_vars PROVE TypeOK'
    OBVIOUS
  <2> USE FaultAssumption
  <2>1. ASSUME NEW r \in Run, Mount(r) PROVE TypeOK'
    BY <2>1 DEF Mount, TypeOK, vars, disk, share, Goto, Fault, MayFail, Present
  <2>2. ASSUME NEW r \in Run, Attach(r) PROVE TypeOK'
    BY <2>2 DEF Attach, TypeOK, vars, disk, share, Goto, Fault, MayFail, Present
  <2>3. ASSUME NEW r \in Run, AlreadyMounted(r) PROVE TypeOK'
    BY <2>3 DEF AlreadyMounted, TypeOK, vars, disk, share, Goto, Fault, MayFail, Present
  <2>4. ASSUME NEW r \in Run, MountReturns(r) PROVE TypeOK'
    BY <2>4 DEF MountReturns, TypeOK, vars, disk, share, Goto, Fault, MayFail, Present
  <2>5. ASSUME NEW r \in Run, Watchdog(r) PROVE TypeOK'
    BY <2>5 DEF Watchdog, HasMountNfs, TypeOK, disk, share
  <2>6. ASSUME NEW r \in Run, Find(r) PROVE TypeOK'
    BY <2>6 DEF Find, TypeOK, vars, disk, share, Goto, Fault, MayFail, Present
  <2>7. ASSUME NEW r \in Run, List(r) PROVE TypeOK'
    BY <2>7 DEF List, TypeOK, vars, disk, share, Goto, Fault, MayFail, Present
  <2>8. ASSUME NEW r \in Run, NEW i \in Item, Copy(r, i) PROVE TypeOK'
    BY <2>8 DEF Copy, TypeOK, vars, disk, share, Goto, Fault, MayFail, Present
  <2>9. ASSUME NEW r \in Run, RsyncFails(r) PROVE TypeOK'
    BY <2>9 DEF RsyncFails, TypeOK, vars, disk, share, Goto, Fault, MayFail, Present
  <2>10. ASSUME NEW r \in Run, PhysicalDone(r) PROVE TypeOK'
    BY <2>10 DEF PhysicalDone, TypeOK, vars, disk, share, Goto, Fault, MayFail, Present
  <2>11. ASSUME NEW r \in Run, LogicalDone(r) PROVE TypeOK'
    BY <2>11 DEF LogicalDone, TypeOK, vars, disk, share, Goto, Fault, MayFail, Present
  <2>12. ASSUME NEW r \in Run, Unmount(r) PROVE TypeOK'
    BY <2>12 DEF Unmount, TypeOK, vars, disk, share, Goto, Fault, MayFail, Present
  <2>13. ASSUME NEW r \in Run, UnmountFails(r) PROVE TypeOK'
    BY <2>13 DEF UnmountFails, TypeOK, vars, disk, share, Goto, Fault, MayFail, Present
  <2>14. ASSUME NEW r \in Run, Kill(r) PROVE TypeOK'
    BY <2>14 DEF Kill, TypeOK, vars, disk, share, Goto, Fault, MayFail
  <2>15. CASE ServerGoes
    BY <2>15 DEF ServerGoes, TypeOK, vars, disk, share, Goto, Fault, MayFail, Present
  <2>16. CASE ServerComes
    BY <2>16 DEF ServerComes, TypeOK, vars, disk, share, Goto, Fault, MayFail, Present
  <2>17. ASSUME NEW i \in Item, Create(i) PROVE TypeOK'
    BY <2>17 DEF Create, TypeOK, vars, disk, share, Goto, Fault, MayFail, Present
  <2>18. ASSUME NEW i \in Item, Complete(i) PROVE TypeOK'
    BY <2>18 DEF Complete, TypeOK, vars, disk, share, Goto, Fault, MayFail, Present
  <2>19. ASSUME NEW i \in Item, Remove(i) PROVE TypeOK'
    BY <2>19 DEF Remove, TypeOK, vars, disk, share, Goto, Fault, MayFail, Present
  <2>20. CASE UNCHANGED vars
    BY <2>20 DEF TypeOK, vars, disk, share, Goto, Fault, MayFail, Present
  <2> QED
    BY <2>1, <2>2, <2>3, <2>4, <2>5, <2>6, <2>7, <2>8, <2>9, <2>10, <2>11, <2>12, <2>13, <2>14, <2>15, <2>16, <2>17, <2>18, <2>19, <2>20
    DEF Next, Proceed, Environment
<1> QED
  BY <1>1, <1>2, PTL DEF Spec

-----------------------------------------------------------------------------
(* The mount is a lock: a run between its mount and its umount has the     *)
(* share mounted and is the only one.  The invariant is inductive: a mount *)
(* needs an unmounted share, of which nobody is the holder, and only the   *)
(* holder unmounts.                                                        *)
THEOREM MountIsALock == Spec => []OneRunHoldsTheMount
<1>1. Init => OneRunHoldsTheMount
  BY DEF Init, OneRunHoldsTheMount, InSync
<1>2. TypeOK /\ OneRunHoldsTheMount /\ [Next]_vars => OneRunHoldsTheMount'
  <2> SUFFICES ASSUME TypeOK, OneRunHoldsTheMount, [Next]_vars
               PROVE  OneRunHoldsTheMount'
    OBVIOUS
  <2>1. ASSUME NEW r \in Run, Mount(r) PROVE OneRunHoldsTheMount'
    BY <2>1 DEF Mount, OneRunHoldsTheMount, InSync, TypeOK, vars, disk, share, Goto
  <2>2. ASSUME NEW r \in Run, Attach(r) PROVE OneRunHoldsTheMount'
    BY <2>2 DEF Attach, OneRunHoldsTheMount, InSync, TypeOK, vars, disk, share, Goto
  <2>3. ASSUME NEW r \in Run, AlreadyMounted(r) PROVE OneRunHoldsTheMount'
    BY <2>3 DEF AlreadyMounted, OneRunHoldsTheMount, InSync, TypeOK, vars, disk, share, Goto
  <2>4. ASSUME NEW r \in Run, MountReturns(r) PROVE OneRunHoldsTheMount'
    BY <2>4 DEF MountReturns, OneRunHoldsTheMount, InSync, TypeOK, vars, disk, share, Goto
  <2>5. ASSUME NEW r \in Run, Watchdog(r) PROVE OneRunHoldsTheMount'
    BY <2>5 DEF Watchdog, HasMountNfs, OneRunHoldsTheMount, InSync, TypeOK, disk, share
  <2>6. ASSUME NEW r \in Run, Find(r) PROVE OneRunHoldsTheMount'
    BY <2>6 DEF Find, OneRunHoldsTheMount, InSync, TypeOK, vars, disk, share, Goto
  <2>7. ASSUME NEW r \in Run, List(r) PROVE OneRunHoldsTheMount'
    BY <2>7 DEF List, OneRunHoldsTheMount, InSync, TypeOK, vars, disk, share, Goto
  <2>8. ASSUME NEW r \in Run, NEW i \in Item, Copy(r, i) PROVE OneRunHoldsTheMount'
    BY <2>8 DEF Copy, OneRunHoldsTheMount, InSync, TypeOK, vars, disk, share, Goto
  <2>9. ASSUME NEW r \in Run, RsyncFails(r) PROVE OneRunHoldsTheMount'
    BY <2>9 DEF RsyncFails, OneRunHoldsTheMount, InSync, TypeOK, vars, disk, share, Goto
  <2>10. ASSUME NEW r \in Run, PhysicalDone(r) PROVE OneRunHoldsTheMount'
    BY <2>10 DEF PhysicalDone, OneRunHoldsTheMount, InSync, TypeOK, vars, disk, share, Goto
  <2>11. ASSUME NEW r \in Run, LogicalDone(r) PROVE OneRunHoldsTheMount'
    BY <2>11 DEF LogicalDone, OneRunHoldsTheMount, InSync, TypeOK, vars, disk, share, Goto
  <2>12. ASSUME NEW r \in Run, Unmount(r) PROVE OneRunHoldsTheMount'
    BY <2>12 DEF Unmount, OneRunHoldsTheMount, InSync, TypeOK, vars, disk, share, Goto
  <2>13. ASSUME NEW r \in Run, UnmountFails(r) PROVE OneRunHoldsTheMount'
    BY <2>13 DEF UnmountFails, OneRunHoldsTheMount, InSync, TypeOK, vars, disk, share, Goto
  <2>14. ASSUME NEW r \in Run, Kill(r) PROVE OneRunHoldsTheMount'
    BY <2>14 DEF Kill, OneRunHoldsTheMount, InSync, TypeOK, vars, disk, share, Goto
  <2>15. CASE ServerGoes
    BY <2>15 DEF ServerGoes, OneRunHoldsTheMount, InSync, TypeOK, vars, disk, share, Goto
  <2>16. CASE ServerComes
    BY <2>16 DEF ServerComes, OneRunHoldsTheMount, InSync, TypeOK, vars, disk, share, Goto
  <2>17. ASSUME NEW i \in Item, Create(i) PROVE OneRunHoldsTheMount'
    BY <2>17 DEF Create, OneRunHoldsTheMount, InSync, TypeOK, vars, disk, share, Goto
  <2>18. ASSUME NEW i \in Item, Complete(i) PROVE OneRunHoldsTheMount'
    BY <2>18 DEF Complete, OneRunHoldsTheMount, InSync, TypeOK, vars, disk, share, Goto
  <2>19. ASSUME NEW i \in Item, Remove(i) PROVE OneRunHoldsTheMount'
    BY <2>19 DEF Remove, OneRunHoldsTheMount, InSync, TypeOK, vars, disk, share, Goto
  <2>20. CASE UNCHANGED vars
    BY <2>20 DEF OneRunHoldsTheMount, InSync, TypeOK, vars, disk, share, Goto
  <2> QED
    BY <2>1, <2>2, <2>3, <2>4, <2>5, <2>6, <2>7, <2>8, <2>9, <2>10, <2>11, <2>12, <2>13, <2>14, <2>15, <2>16, <2>17, <2>18, <2>19, <2>20
    DEF Next, Proceed, Environment
<1> QED
  BY <1>1, <1>2, NfsTypes, PTL DEF Spec

-----------------------------------------------------------------------------
(* Directories that are on the disk together are exposed; so is one that   *)
(* is there, and not the excluded one, when rsync is about to look; and    *)
(* what a run has still to copy, and what is on the share, of them.        *)
ExposedInv ==
    /\ \A d, e \in Directory \cap Present : d # e => d \in exposed
    /\ \A r \in Run : pc[r] = "list" =>
            \A d \in Directory \cap Present : d \in bdir[r] \cup exposed
    /\ \A r \in Run : todo[r] \cap Directory \subseteq exposed
    /\ OnlyExposedDirectoriesAreCopied

(* A directory that is alone, and there when find looks for it, stays off  *)
(* the share as long as it is being written.                               *)
THEOREM TornDirectoriesStayLocal == Spec => []OnlyExposedDirectoriesAreCopied
<1>1. Init => ExposedInv
  BY ItemAssumption DEF Init, ExposedInv, Present, OnlyExposedDirectoriesAreCopied
<1>2. TypeOK /\ ExposedInv /\ [Next]_vars => ExposedInv'
  <2> SUFFICES ASSUME TypeOK, ExposedInv, [Next]_vars PROVE ExposedInv'
    OBVIOUS
  <2> USE ItemAssumption DEF OnlyExposedDirectoriesAreCopied
  <2>1. ASSUME NEW r \in Run, Mount(r) PROVE ExposedInv'
    BY <2>1, KindAssumption DEF Mount, ExposedInv, TypeOK, Present, vars, disk, share, Goto
  <2>2. ASSUME NEW r \in Run, Attach(r) PROVE ExposedInv'
    BY <2>2, KindAssumption DEF Attach, ExposedInv, TypeOK, Present, vars, disk, share, Goto
  <2>3. ASSUME NEW r \in Run, AlreadyMounted(r) PROVE ExposedInv'
    BY <2>3, KindAssumption DEF AlreadyMounted, ExposedInv, TypeOK, Present, vars, disk, share, Goto
  <2>4. ASSUME NEW r \in Run, MountReturns(r) PROVE ExposedInv'
    BY <2>4, KindAssumption DEF MountReturns, ExposedInv, TypeOK, Present, vars, disk, share, Goto
  <2>5. ASSUME NEW r \in Run, Watchdog(r) PROVE ExposedInv'
    BY <2>5, KindAssumption DEF Watchdog, ExposedInv, TypeOK, Present, vars, disk, share, Goto
  <2>6. ASSUME NEW r \in Run, Find(r) PROVE ExposedInv'
    BY <2>6, KindAssumption DEF Find, ExposedInv, TypeOK, Present, vars, disk, share, Goto
  <2>7. ASSUME NEW r \in Run, List(r) PROVE ExposedInv'
    BY <2>7, KindAssumption DEF List, ExposedInv, TypeOK, Present, vars, disk, share, Goto
  <2>8. ASSUME NEW r \in Run, NEW i \in Item, Copy(r, i) PROVE ExposedInv'
    BY <2>8, KindAssumption DEF Copy, ExposedInv, TypeOK, Present, vars, disk, share, Goto
  <2>9. ASSUME NEW r \in Run, RsyncFails(r) PROVE ExposedInv'
    BY <2>9, KindAssumption DEF RsyncFails, ExposedInv, TypeOK, Present, vars, disk, share, Goto
  <2>10. ASSUME NEW r \in Run, PhysicalDone(r) PROVE ExposedInv'
    BY <2>10, KindAssumption DEF PhysicalDone, ExposedInv, TypeOK, Present, vars, disk, share, Goto
  <2>11. ASSUME NEW r \in Run, LogicalDone(r) PROVE ExposedInv'
    BY <2>11, KindAssumption DEF LogicalDone, ExposedInv, TypeOK, Present, vars, disk, share, Goto
  <2>12. ASSUME NEW r \in Run, Unmount(r) PROVE ExposedInv'
    BY <2>12, KindAssumption DEF Unmount, ExposedInv, TypeOK, Present, vars, disk, share, Goto
  <2>13. ASSUME NEW r \in Run, UnmountFails(r) PROVE ExposedInv'
    BY <2>13, KindAssumption DEF UnmountFails, ExposedInv, TypeOK, Present, vars, disk, share, Goto
  <2>14. ASSUME NEW r \in Run, Kill(r) PROVE ExposedInv'
    BY <2>14, KindAssumption DEF Kill, ExposedInv, TypeOK, Present, vars, disk, share, Goto
  <2>15. CASE ServerGoes
    BY <2>15, KindAssumption DEF ServerGoes, ExposedInv, TypeOK, Present, vars, disk, share, Goto
  <2>16. CASE ServerComes
    BY <2>16, KindAssumption DEF ServerComes, ExposedInv, TypeOK, Present, vars, disk, share, Goto
  <2>17. ASSUME NEW i \in Item, Create(i) PROVE ExposedInv'
    BY <2>17, KindAssumption DEF Create, ExposedInv, TypeOK, Present, vars, disk, share, Goto
  <2>18. ASSUME NEW i \in Item, Complete(i) PROVE ExposedInv'
    BY <2>18, KindAssumption DEF Complete, ExposedInv, TypeOK, Present, vars, disk, share, Goto
  <2>19. ASSUME NEW i \in Item, Remove(i) PROVE ExposedInv'
    BY <2>19, KindAssumption DEF Remove, ExposedInv, TypeOK, Present, vars, disk, share, Goto
  <2>20. CASE UNCHANGED vars
    BY <2>20, KindAssumption DEF ExposedInv, TypeOK, Present, vars, disk, share, Goto
  <2> QED
    BY <2>1, <2>2, <2>3, <2>4, <2>5, <2>6, <2>7, <2>8, <2>9, <2>10, <2>11, <2>12, <2>13, <2>14, <2>15, <2>16, <2>17, <2>18, <2>19, <2>20
    DEF Next, Proceed, Environment
<1>3. ExposedInv => OnlyExposedDirectoriesAreCopied
  BY DEF ExposedInv
<1> QED
  BY <1>1, <1>2, <1>3, NfsTypes, PTL DEF Spec

-----------------------------------------------------------------------------
(* Once the share is left mounted, no later run, and nothing else that is  *)
(* modelled, unmounts it or copies anything.                               *)
THEOREM LeftMountedForEver == Spec => LeftMountedStays
<1> DEFINE Stays == LeftMounted => LeftMounted' /\ remote' = remote
<1>1. TypeOK /\ [Next]_vars => Stays
  <2> SUFFICES ASSUME TypeOK, [Next]_vars PROVE Stays
    OBVIOUS
  <2>1. ASSUME NEW r \in Run, Mount(r) PROVE Stays
    BY <2>1 DEF Mount, LeftMounted, InSync, TypeOK, vars, disk, share, Goto
  <2>2. ASSUME NEW r \in Run, Attach(r) PROVE Stays
    BY <2>2 DEF Attach, LeftMounted, InSync, TypeOK, vars, disk, share, Goto
  <2>3. ASSUME NEW r \in Run, AlreadyMounted(r) PROVE Stays
    BY <2>3 DEF AlreadyMounted, LeftMounted, InSync, TypeOK, vars, disk, share, Goto
  <2>4. ASSUME NEW r \in Run, MountReturns(r) PROVE Stays
    BY <2>4 DEF MountReturns, LeftMounted, InSync, TypeOK, vars, disk, share, Goto
  <2>5. ASSUME NEW r \in Run, Watchdog(r) PROVE Stays
    BY <2>5 DEF Watchdog, LeftMounted, InSync, TypeOK, vars, disk, share, Goto
  <2>6. ASSUME NEW r \in Run, Find(r) PROVE Stays
    BY <2>6 DEF Find, LeftMounted, InSync, TypeOK, vars, disk, share, Goto
  <2>7. ASSUME NEW r \in Run, List(r) PROVE Stays
    BY <2>7 DEF List, LeftMounted, InSync, TypeOK, vars, disk, share, Goto
  <2>8. ASSUME NEW r \in Run, NEW i \in Item, Copy(r, i) PROVE Stays
    BY <2>8 DEF Copy, LeftMounted, InSync, TypeOK, vars, disk, share, Goto
  <2>9. ASSUME NEW r \in Run, RsyncFails(r) PROVE Stays
    BY <2>9 DEF RsyncFails, LeftMounted, InSync, TypeOK, vars, disk, share, Goto
  <2>10. ASSUME NEW r \in Run, PhysicalDone(r) PROVE Stays
    BY <2>10 DEF PhysicalDone, LeftMounted, InSync, TypeOK, vars, disk, share, Goto
  <2>11. ASSUME NEW r \in Run, LogicalDone(r) PROVE Stays
    BY <2>11 DEF LogicalDone, LeftMounted, InSync, TypeOK, vars, disk, share, Goto
  <2>12. ASSUME NEW r \in Run, Unmount(r) PROVE Stays
    BY <2>12 DEF Unmount, LeftMounted, InSync, TypeOK, vars, disk, share, Goto
  <2>13. ASSUME NEW r \in Run, UnmountFails(r) PROVE Stays
    BY <2>13 DEF UnmountFails, LeftMounted, InSync, TypeOK, vars, disk, share, Goto
  <2>14. ASSUME NEW r \in Run, Kill(r) PROVE Stays
    BY <2>14 DEF Kill, LeftMounted, InSync, TypeOK, vars, disk, share, Goto
  <2>15. CASE ServerGoes
    BY <2>15 DEF ServerGoes, LeftMounted, InSync, TypeOK, vars, disk, share, Goto
  <2>16. CASE ServerComes
    BY <2>16 DEF ServerComes, LeftMounted, InSync, TypeOK, vars, disk, share, Goto
  <2>17. ASSUME NEW i \in Item, Create(i) PROVE Stays
    BY <2>17 DEF Create, LeftMounted, InSync, TypeOK, vars, disk, share, Goto
  <2>18. ASSUME NEW i \in Item, Complete(i) PROVE Stays
    BY <2>18 DEF Complete, LeftMounted, InSync, TypeOK, vars, disk, share, Goto
  <2>19. ASSUME NEW i \in Item, Remove(i) PROVE Stays
    BY <2>19 DEF Remove, LeftMounted, InSync, TypeOK, vars, disk, share, Goto
  <2>20. CASE UNCHANGED vars
    BY <2>20 DEF LeftMounted, InSync, TypeOK, vars, disk, share, Goto
  <2> QED
    BY <2>1, <2>2, <2>3, <2>4, <2>5, <2>6, <2>7, <2>8, <2>9, <2>10, <2>11, <2>12, <2>13, <2>14, <2>15, <2>16, <2>17, <2>18, <2>19, <2>20
    DEF Next, Proceed, Environment
<1> QED
  BY <1>1, NfsTypes, PTL DEF Spec, LeftMountedStays
-----------------------------------------------------------------------------
(* The refinement.  A step leaves the lock alone, or its holder ends.      *)

Holds(r) == InSync(r) \/ pc[r] = "attached"

Quiet ==
    /\ \A q \in Run : Holds(q)' <=> Holds(q)
    /\ mounted' = mounted /\ remote' = remote

Ends ==
    /\ \E r \in Run : Holds(r)
    /\ \A q \in Run : ~Holds(q)'
    /\ remote' = remote

LEMMA QuietIsStutter ==
    ASSUME Quiet PROVE UNCHANGED Lock!vars
<1>1. \A q \in Run : (InSync(q) \/ pc[q] = "attached")' <=> (InSync(q) \/ pc[q] = "attached")
  BY DEF Quiet, Holds
<1>2. {q \in Run : InSync(q) \/ pc[q] = "attached"}'
      = {q \in Run : InSync(q) \/ pc[q] = "attached"}
  BY <1>1
<1>3. LeftMounted' = LeftMounted
  BY <1>1 DEF Quiet, LeftMounted
<1> QED
  BY <1>2, <1>3 DEF Quiet, Lock!vars

LEMMA EndIsRelease ==
    ASSUME OneRunHoldsTheMount, Ends PROVE Lock!Next
<1>1. PICK r \in Run : Holds(r)
  BY DEF Ends
<1>2. {q \in Run : InSync(q) \/ pc[q] = "attached"} = {r}
  BY <1>1 DEF OneRunHoldsTheMount, Holds
<1>3. {q \in Run : InSync(q) \/ pc[q] = "attached"}' = {}
  BY DEF Ends, Holds
<1>4. LeftMounted' \in BOOLEAN
  BY DEF LeftMounted
<1>5. Lock!Release(r)
  BY <1>2, <1>3, <1>4 DEF Lock!Release, Ends
<1> QED
  BY <1>5 DEF Lock!Next

(* A mount takes the lock: the share was not mounted, so that nobody had   *)
(* it and it was not lost.                                                 *)
LEMMA AttachIsTake ==
    ASSUME TypeOK, OneRunHoldsTheMount, NEW r \in Run, Attach(r) PROVE Lock!Next
<1>1. {q \in Run : InSync(q) \/ pc[q] = "attached"} = {}
  BY DEF OneRunHoldsTheMount, Attach
<1>2. {q \in Run : InSync(q) \/ pc[q] = "attached"}' = {r}
  <2>1. \A q \in Run : (InSync(q) \/ pc[q] = "attached")' <=> q = r
    BY <1>1 DEF Attach, Goto, TypeOK, InSync
  <2> QED
    BY <2>1
<1>3. ~LeftMounted /\ LeftMounted' = LeftMounted
  BY <1>2 DEF LeftMounted, Attach
<1>4. remote' = remote
  BY DEF Attach
<1>5. Lock!Take(r)
  BY <1>1, <1>2, <1>3, <1>4 DEF Lock!Take
<1> QED
  BY <1>5 DEF Lock!Next

(* What is copied is copied by the holder.                                 *)
LEMMA CopyIsChange ==
    ASSUME TypeOK, NEW r \in Run, NEW i \in Item, Copy(r, i)
    PROVE  Lock!Next \/ UNCHANGED Lock!vars
<1>1. r \in {q \in Run : InSync(q) \/ pc[q] = "attached"}
  BY DEF Copy, InSync
<1>2. /\ \A q \in Run : Holds(q)' <=> Holds(q)
      /\ mounted' = mounted
  BY DEF Copy, Holds, InSync
<1>3. CASE i \notin Present
  BY <1>2, <1>3, QuietIsStutter DEF Copy, Quiet
<1>4. CASE i \in Present
  <2>1. local[i] \in {"part", "whole"} /\ remote' = [remote EXCEPT ![i] = local[i]]
    BY <1>4 DEF Copy, Present
  <2>2. pc' = pc
    BY DEF Copy
  <2>3. {q \in Run : InSync(q) \/ pc[q] = "attached"}'
        = {q \in Run : InSync(q) \/ pc[q] = "attached"}
    BY <2>2 DEF InSync
  <2>4. LeftMounted' = LeftMounted
    BY <1>2, <2>2 DEF LeftMounted, InSync
  <2>5. {q \in Run : InSync(q) \/ pc[q] = "attached"} # {}
    BY <1>1
  <2>6. \E what \in {"part", "whole"} : remote' = [remote EXCEPT ![i] = what]
    BY <2>1
  <2>7. Lock!Change(i)
    BY <2>3, <2>4, <2>5, <2>6 DEF Lock!Change
  <2> QED
    BY <2>7 DEF Lock!Next
<1> QED
  BY <1>3, <1>4

(* The mount is a ShareLock: under the mapping of NfsSync every step takes *)
(* the lock when it is free, changes the share while it is held, releases  *)
(* or loses it, or leaves all of that alone.                               *)
THEOREM MountImplementsLock == Spec => ShareLockSpec
<1>1. Init => Lock!Init
  <2> SUFFICES ASSUME Init PROVE Lock!Init
    OBVIOUS
  <2>1. {q \in Run : InSync(q) \/ pc[q] = "attached"} = {}
    BY DEF Init, InSync
  <2>2. LeftMounted = FALSE
    BY DEF Init, LeftMounted
  <2> QED
    BY <2>1, <2>2 DEF Init, Lock!Init
<1>2. TypeOK /\ OneRunHoldsTheMount /\ [Next]_vars => [Lock!Next]_(Lock!vars)
  <2> SUFFICES ASSUME TypeOK, OneRunHoldsTheMount, [Next]_vars
               PROVE  Lock!Next \/ UNCHANGED Lock!vars
    OBVIOUS
  <2>1. ASSUME NEW r \in Run, Mount(r) PROVE Quiet
    BY <2>1 DEF Mount, Quiet, Holds, InSync, TypeOK, disk, share, Goto
  <2>2. ASSUME NEW r \in Run, AlreadyMounted(r) PROVE Quiet
    BY <2>2 DEF AlreadyMounted, Quiet, Holds, InSync, TypeOK, disk, share, Goto
  <2>3. ASSUME NEW r \in Run, MountReturns(r) PROVE Quiet
    BY <2>3 DEF MountReturns, Quiet, Holds, InSync, TypeOK, disk, share, Goto
  <2>4. ASSUME NEW r \in Run, Find(r) PROVE Quiet
    BY <2>4 DEF Find, Quiet, Holds, InSync, TypeOK, disk, share, Goto
  <2>5. ASSUME NEW r \in Run, List(r) PROVE Quiet
    BY <2>5 DEF List, Quiet, Holds, InSync, TypeOK, disk, share, Goto
  <2>6. ASSUME NEW r \in Run, PhysicalDone(r) PROVE Quiet
    BY <2>6 DEF PhysicalDone, Quiet, Holds, InSync, TypeOK, disk, share, Goto
  <2>7. ASSUME NEW r \in Run, LogicalDone(r) PROVE Quiet
    BY <2>7 DEF LogicalDone, Quiet, Holds, InSync, TypeOK, disk, share, Goto
  <2>8. ASSUME ServerGoes PROVE Quiet
    BY <2>8 DEF ServerGoes, Quiet, Holds, InSync, TypeOK, disk, share, Goto
  <2>9. ASSUME ServerComes PROVE Quiet
    BY <2>9 DEF ServerComes, Quiet, Holds, InSync, TypeOK, disk, share, Goto
  <2>10. ASSUME NEW i \in Item, Create(i) PROVE Quiet
    BY <2>10 DEF Create, Quiet, Holds, InSync, TypeOK, disk, share, Goto
  <2>11. ASSUME NEW i \in Item, Complete(i) PROVE Quiet
    BY <2>11 DEF Complete, Quiet, Holds, InSync, TypeOK, disk, share, Goto
  <2>12. ASSUME NEW i \in Item, Remove(i) PROVE Quiet
    BY <2>12 DEF Remove, Quiet, Holds, InSync, TypeOK, disk, share, Goto
  <2>13. ASSUME NEW r \in Run, RsyncFails(r) PROVE Ends
    BY <2>13 DEF RsyncFails, Ends, Holds, InSync, OneRunHoldsTheMount, TypeOK, disk, share, Goto
  <2>14. ASSUME NEW r \in Run, Unmount(r) PROVE Ends
    BY <2>14 DEF Unmount, Ends, Holds, InSync, OneRunHoldsTheMount, TypeOK, disk, share, Goto
  <2>15. ASSUME NEW r \in Run, UnmountFails(r) PROVE Ends
    BY <2>15 DEF UnmountFails, Ends, Holds, InSync, OneRunHoldsTheMount, TypeOK, disk, share, Goto
  <2>16. ASSUME NEW r \in Run, Kill(r) PROVE Quiet \/ Ends
    <3>1. CASE Holds(r)
      BY <2>16, <3>1
      DEF Kill, Ends, Holds, InSync, OneRunHoldsTheMount, TypeOK, disk, share, Goto
    <3>2. CASE ~Holds(r)
      BY <2>16, <3>2 DEF Kill, Quiet, Holds, InSync, TypeOK, disk, share, Goto
    <3> QED
      BY <3>1, <3>2
  <2>17. ASSUME NEW r \in Run, Watchdog(r) PROVE Quiet \/ Ends
    <3>1. CASE \E q \in Run : pc[q] = "attached"
      BY <2>17, <3>1
      DEF Watchdog, HasMountNfs, Ends, Holds, InSync, OneRunHoldsTheMount, TypeOK, share
    <3>2. CASE ~ \E q \in Run : pc[q] = "attached"
      BY <2>17, <3>2 DEF Watchdog, HasMountNfs, Quiet, Holds, InSync, TypeOK, share
    <3> QED
      BY <3>1, <3>2
  <2>18. ASSUME UNCHANGED vars PROVE Quiet
    BY <2>18 DEF vars, disk, share, Quiet, Holds, InSync
  <2> QED
    BY <2>1, <2>2, <2>3, <2>4, <2>5, <2>6, <2>7, <2>8, <2>9, <2>10, <2>11, <2>12, <2>13, <2>14, <2>15, <2>16, <2>17, <2>18,
       QuietIsStutter, EndIsRelease, AttachIsTake, CopyIsChange
    DEF Next, Proceed, Environment
<1> QED
  BY <1>1, <1>2, NfsTypes, MountIsALock, PTL DEF Spec, ShareLockSpec, Lock!Spec
=============================================================================
