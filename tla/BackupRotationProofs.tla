------------------------- MODULE BackupRotationProofs -------------------------
(***************************************************************************)
(* Theorems about BackupRotation, for every set of runs and every calendar,*)
(* whatever may go wrong and however often: the types, what `rm -rf` is    *)
(* given, where the binary logs begin, and that it implements BackupShelf. *)
(***************************************************************************)
EXTENDS BackupRotation, FiniteSetTheorems, WellFoundedInduction, TLAPS

(* The stages of a run of DatabaseBackup.sh before it has a directory, and *)
(* before its backup is finished.                                          *)
NotStarted == {"idle", "read", "readname", "launch"}
Unfinished == NotStarted \cup {"full", "incremental"}

(* A run makes its directory once and finishes it once.                    *)
Fresh ==
    \A b \in Run : /\ bpc[b] \in Unfinished => pos[b] = 0
                   /\ bpc[b] \in NotStarted => dir[b] = "none"
                   /\ dir[b] = "open" => bpc[b] \in {"full", "incremental"}
                   /\ bpc[b] \in {"purge", "register", "remove", "done"} => Finished(b)


(* read_metadata answers with nothing, or with a full backup that is in    *)
(* the register.                                                           *)
LEMMA NewestFullIsRegistered ==
    ASSUME register \in Seq(Run \X (Run \cup {None})), NewestFull # None
    PROVE  /\ NewestFull \in Run
           /\ \E i \in Fulls : register[i][1] = NewestFull
<1> DEFINE n == Len(register)
           T == {n - i : i \in Fulls}
           R == OpToRel(<, Nat)
<1>1. Fulls # {} /\ n \in Nat
  BY DEF NewestFull
<1>2. \A i \in Fulls : i \in 1 .. n
  BY DEF Fulls
<1> HIDE DEF n
<1>3. T \subseteq Nat /\ T # {}
  BY <1>1, <1>2
<1>4. PICK x \in T : \A y \in T : ~(<<y, x>> \in R)
  BY <1>3, WFMin, NatLessThanWellFounded
<1>5. \A y \in T : ~(y < x)
  BY <1>3, <1>4 DEF OpToRel
<1>6. PICK i \in Fulls : x = n - i
  OBVIOUS
<1>7. ASSUME NEW j \in Fulls PROVE j <= i
  <2>1. ~(n - j < n - i)
    BY <1>5, <1>6
  <2>2. i \in Int /\ j \in Int /\ n \in Int
    BY <1>1, <1>2
  <2> HIDE DEF T
  <2> QED
    BY <2>1, <2>2
<1> DEFINE k == CHOOSE m \in Fulls : \A j \in Fulls : j <= m
<1>8. k \in Fulls
  BY <1>7
<1> HIDE DEF k
<1>9. NewestFull = register[k][1]
  BY <1>1 DEF NewestFull, k
<1>10. register[k] \in Run \X (Run \cup {None})
  BY <1>2, <1>8 DEF n
<1> QED
  BY <1>8, <1>9, <1>10

(* A run has one directory and finishes it once.                           *)
LEMMA FreshStep == TypeOK /\ Fresh /\ [Next]_vars => Fresh'
<1> SUFFICES ASSUME TypeOK, Fresh, [Next]_vars PROVE Fresh'
  OBVIOUS
<1>1. Fresh'
  <2>1. ASSUME NEW r \in Run, StartFull(r)
        PROVE  Fresh'
    BY <2>1, NoneAssumption
    DEF StartFull, MakeDirectory, Set, catalog, compress, TypeOK, TreeTypes,
        BackupTypes, CompressTypes, Fresh, NotStarted, Unfinished, Finished
  <2>2. ASSUME NEW r \in Run, StartIncremental(r)
        PROVE  Fresh'
    BY <2>2, NoneAssumption
    DEF StartIncremental, Set, tree, catalog, compress, TypeOK, TreeTypes,
        BackupTypes, CompressTypes, Fresh, NotStarted, Unfinished, Finished
  <2>3. ASSUME NEW r \in Run, ReadDirectory(r)
        PROVE  Fresh'
    BY <2>3, NoneAssumption
    DEF ReadDirectory, Happens, Set, tree, catalog, compress, TypeOK, TreeTypes,
        BackupTypes, CompressTypes, Fresh, NotStarted, Unfinished, Finished
  <2>4. ASSUME NEW r \in Run, ReadName(r)
        PROVE  Fresh'
    BY <2>4, NoneAssumption
    DEF ReadName, Happens, Set, tree, catalog, compress, TypeOK, TreeTypes,
        BackupTypes, CompressTypes, Fresh, NotStarted, Unfinished, Finished
  <2>5. ASSUME NEW r \in Run, Launch(r)
        PROVE  Fresh'
    BY <2>5, NoneAssumption
    DEF Launch, MakeDirectory, Set, catalog, compress, TypeOK, TreeTypes,
        BackupTypes, CompressTypes, Fresh, NotStarted, Unfinished, Finished
  <2>6. ASSUME NEW r \in Run, BaseRefused(r)
        PROVE  Fresh'
    BY <2>6, NoneAssumption
    DEF BaseRefused, Fails, Set, tree, catalog, compress, TypeOK, TreeTypes,
        BackupTypes, CompressTypes, Fresh, NotStarted, Unfinished, Finished
  <2>7. ASSUME NEW r \in Run, ToolWrites(r)
        PROVE  Fresh'
    BY <2>7, NoneAssumption
    DEF ToolWrites, Set, catalog, backup, compress, TypeOK, TreeTypes,
        BackupTypes, CompressTypes, Fresh, NotStarted, Unfinished, Finished
  <2>8. ASSUME NEW r \in Run, ToolSucceeds(r)
        PROVE  Fresh'
    <3>1. Cardinality({b \in Run : Finished(b)}) \in Nat
      <4>1. {b \in Run : Finished(b)} \in SUBSET Run
        OBVIOUS
      <4> QED
        BY <4>1, RunAssumption, FS_Subset, FS_CardinalityType
    <3> QED
      BY <3>1, <2>8 DEF ToolSucceeds, Set, TypeOK, TreeTypes, BackupTypes, Fresh, NotStarted, Unfinished, Finished
  <2>9. ASSUME NEW r \in Run, ToolFails(r)
        PROVE  Fresh'
    BY <2>9, NoneAssumption
    DEF ToolFails, Happens, Set, Fails, catalog, compress, TypeOK, TreeTypes,
        BackupTypes, CompressTypes, Fresh, NotStarted, Unfinished, Finished
  <2>10. ASSUME NEW r \in Run, Purge(r)
        PROVE  Fresh'
    BY <2>10, NoneAssumption
    DEF Purge, Set, tree, compress, TypeOK, TreeTypes, BackupTypes,
        CompressTypes, Fresh, NotStarted, Unfinished, Finished
  <2>11. ASSUME NEW r \in Run, PurgeFails(r)
        PROVE  Fresh'
    BY <2>11, NoneAssumption
    DEF PurgeFails, Happens, Fails, Set, tree, catalog, compress, TypeOK,
        TreeTypes, BackupTypes, CompressTypes, Fresh, NotStarted, Unfinished,
        Finished
  <2>12. ASSUME NEW r \in Run, Register(r)
        PROVE  Fresh'
    BY <2>12, NoneAssumption
    DEF Register, Set, tree, compress, TypeOK, TreeTypes, BackupTypes,
        CompressTypes, Fresh, NotStarted, Unfinished, Finished
  <2>13. ASSUME NEW r \in Run, RegisterFails(r)
        PROVE  Fresh'
    BY <2>13, NoneAssumption
    DEF RegisterFails, Happens, Fails, Set, tree, catalog, compress, TypeOK,
        TreeTypes, BackupTypes, CompressTypes, Fresh, NotStarted, Unfinished,
        Finished
  <2>14. ASSUME NEW r \in Run, RemoveBase(r)
        PROVE  Fresh'
    BY <2>14, NoneAssumption
    DEF RemoveBase, Set, Because, catalog, compress, TypeOK, TreeTypes,
        BackupTypes, CompressTypes, Fresh, NotStarted, Unfinished, Finished
  <2>15. ASSUME NEW r \in Run, Killed(r)
        PROVE  Fresh'
    BY <2>15, NoneAssumption
    DEF Killed, Happens, Fails, Set, tree, catalog, compress, TypeOK,
        TreeTypes, BackupTypes, CompressTypes, Fresh, NotStarted, Unfinished,
        Finished
  <2>16. ASSUME NEW r \in Run, KilledInTool(r)
        PROVE  Fresh'
    BY <2>16, NoneAssumption
    DEF KilledInTool, Happens, Fails, Set, catalog, compress, TypeOK,
        TreeTypes, BackupTypes, CompressTypes, Fresh, NotStarted, Unfinished,
        Finished
  <2>17. ASSUME NEW r \in Run, KilledInRemove(r)
        PROVE  Fresh'
    BY <2>17, NoneAssumption
    DEF KilledInRemove, Happens, Fails, Set, Because, catalog, compress,
        TypeOK, TreeTypes, BackupTypes, CompressTypes, Fresh, NotStarted,
        Unfinished, Finished
  <2>18. ASSUME NEW c \in Compressor, StartCompress(c)
        PROVE  Fresh'
    BY <2>18, NoneAssumption
    DEF StartCompress, Set, tree, catalog, backup, TypeOK, TreeTypes,
        BackupTypes, CompressTypes, Fresh, NotStarted, Unfinished, Finished
  <2>19. ASSUME NEW c \in Compressor, NEW b \in Run, Skip(c, b)
        PROVE  Fresh'
    BY <2>19, NoneAssumption
    DEF Skip, Set, tree, catalog, backup, TypeOK, TreeTypes, BackupTypes,
        CompressTypes, Fresh, NotStarted, Unfinished, Finished
  <2>20. ASSUME NEW c \in Compressor, NEW b \in Run, Open(c, b)
        PROVE  Fresh'
    BY <2>20, NoneAssumption
    DEF Open, Set, AlsoAt, catalog, backup, TypeOK, TreeTypes, BackupTypes,
        CompressTypes, Fresh, NotStarted, Unfinished, Finished
  <2>21. ASSUME NEW c \in Compressor, Copied(c)
        PROVE  Fresh'
    BY <2>21, NoneAssumption
    DEF Copied, Set, catalog, backup, TypeOK, TreeTypes, BackupTypes,
        CompressTypes, Fresh, NotStarted, Unfinished, Finished
  <2>22. ASSUME NEW c \in Compressor, PipeFails(c)
        PROVE  Fresh'
    BY <2>22, NoneAssumption
    DEF PipeFails, Happens, Set, Because, catalog, backup, TypeOK, TreeTypes,
        BackupTypes, CompressTypes, Fresh, NotStarted, Unfinished, Finished
  <2>23. ASSUME NEW c \in Compressor, CopyFails(c)
        PROVE  Fresh'
    BY <2>23, NoneAssumption
    DEF CopyFails, Happens, StopCompress, Set, tree, catalog, backup, TypeOK,
        TreeTypes, BackupTypes, CompressTypes, Fresh, NotStarted, Unfinished,
        Finished
  <2>24. ASSUME NEW c \in Compressor, Remove(c)
        PROVE  Fresh'
    BY <2>24, NoneAssumption
    DEF Remove, Set, catalog, backup, TypeOK, TreeTypes, BackupTypes,
        CompressTypes, Fresh, NotStarted, Unfinished, Finished
  <2>25. ASSUME NEW c \in Compressor, Removed(c)
        PROVE  Fresh'
    BY <2>25, NoneAssumption
    DEF Removed, Set, catalog, backup, TypeOK, TreeTypes, BackupTypes,
        CompressTypes, Fresh, NotStarted, Unfinished, Finished
  <2>26. ASSUME NEW c \in Compressor, EndCompress(c)
        PROVE  Fresh'
    BY <2>26, NoneAssumption
    DEF EndCompress, StopCompress, Set, tree, catalog, backup, TypeOK,
        TreeTypes, BackupTypes, CompressTypes, Fresh, NotStarted, Unfinished,
        Finished
  <2>27. ASSUME NEW c \in Compressor, KilledCompress(c)
        PROVE  Fresh'
    BY <2>27, NoneAssumption
    DEF KilledCompress, Happens, StopCompress, Set, tree, catalog, backup,
        TypeOK, TreeTypes, BackupTypes, CompressTypes, Fresh, NotStarted,
        Unfinished, Finished
  <2>28. ASSUME NEW c \in Compressor, KilledRemoving(c)
        PROVE  Fresh'
    BY <2>28, NoneAssumption
    DEF KilledRemoving, Happens, StopCompress, Set, Because, tree, catalog,
        backup, TypeOK, TreeTypes, BackupTypes, CompressTypes, Fresh,
        NotStarted, Unfinished, Finished
  <2>29. ASSUME NEW b \in Run, ExpireImage(b)
        PROVE  Fresh'
    BY <2>29, NoneAssumption
    DEF ExpireImage, Set, catalog, backup, compress, TypeOK, TreeTypes,
        BackupTypes, CompressTypes, Fresh, NotStarted, Unfinished, Finished
  <2>30. ASSUME NEW b \in Run, ExpireFiles(b)
        PROVE  Fresh'
    BY <2>30, NoneAssumption
    DEF ExpireFiles, Set, catalog, backup, compress, TypeOK, TreeTypes,
        BackupTypes, CompressTypes, Fresh, NotStarted, Unfinished, Finished
  <2>31. ASSUME Tick
        PROVE  Fresh'
    BY <2>31, NoneAssumption
    DEF Tick, tree, catalog, backup, compress, TypeOK, TreeTypes,
        BackupTypes, CompressTypes, Fresh, NotStarted, Unfinished, Finished
  <2>32. CASE UNCHANGED vars
    BY <2>32, NoneAssumption
    DEF vars, tree, catalog, backup, compress, TypeOK, TreeTypes,
        BackupTypes, CompressTypes, Fresh, NotStarted, Unfinished, Finished
  <2> QED
    BY <2>1, <2>2, <2>3, <2>4, <2>5, <2>6, <2>7, <2>8, <2>9, <2>10, <2>11,
        <2>12, <2>13, <2>14, <2>15, <2>16, <2>17, <2>18, <2>19, <2>20, <2>21,
        <2>22, <2>23, <2>24, <2>25, <2>26, <2>27, <2>28, <2>29, <2>30, <2>31,
        <2>32
    DEF Next, DatabaseBackup, CompressDbxBak, RemoveDbxBak
<1> QED
  BY <1>1

(* Type correctness.  That the positions are no more than there are runs   *)
(* needs Fresh: a run finishes its backup once.                            *)
THEOREM RotationTypes == Spec => []TypeOK
<1> DEFINE TypeInv == TypeOK /\ Fresh
<1>1. Init => TypeInv
  <2> SUFFICES ASSUME Init PROVE TypeInv
    OBVIOUS
  <2>1. Cardinality(Run) \in Nat
    BY RunAssumption, FS_CardinalityType
  <2>2. TreeTypes
    BY FaultAssumption DEF Init, TreeTypes, Days
  <2>3. BackupTypes
    BY <2>1 DEF Init, BackupTypes, Days
  <2>4. CompressTypes
    BY DEF Init, CompressTypes, Days
  <2>5. reasons \in [Run -> SUBSET Reason]
    BY DEF Init
  <2>6. Fresh
    BY DEF Init, Fresh, NotStarted, Unfinished, Finished
  <2> QED
    BY <2>2, <2>3, <2>4, <2>5, <2>6 DEF TypeOK
<1>2. TypeInv /\ [Next]_vars => TreeTypes'
  <2> SUFFICES ASSUME TypeOK, [Next]_vars PROVE TreeTypes'
    OBVIOUS
  <2>1. ASSUME NEW r \in Run, StartFull(r)
        PROVE  TreeTypes'
    BY <2>1, FaultAssumption
    DEF StartFull, MakeDirectory, Set, catalog, compress, TypeOK, TreeTypes,
        BackupTypes, CompressTypes, Days
  <2>2. ASSUME NEW r \in Run, StartIncremental(r)
        PROVE  TreeTypes'
    BY <2>2, FaultAssumption
    DEF StartIncremental, Set, tree, catalog, compress, TypeOK, TreeTypes,
        BackupTypes, CompressTypes, Days
  <2>3. ASSUME NEW r \in Run, ReadDirectory(r)
        PROVE  TreeTypes'
    BY <2>3, FaultAssumption
    DEF ReadDirectory, Happens, Set, tree, catalog, compress, TypeOK, TreeTypes,
        BackupTypes, CompressTypes, Days
  <2>4. ASSUME NEW r \in Run, ReadName(r)
        PROVE  TreeTypes'
    BY <2>4, FaultAssumption
    DEF ReadName, Happens, Set, tree, catalog, compress, TypeOK, TreeTypes,
        BackupTypes, CompressTypes, Days
  <2>5. ASSUME NEW r \in Run, Launch(r)
        PROVE  TreeTypes'
    BY <2>5, FaultAssumption
    DEF Launch, MakeDirectory, Set, catalog, compress, TypeOK, TreeTypes,
        BackupTypes, CompressTypes, Days
  <2>6. ASSUME NEW r \in Run, BaseRefused(r)
        PROVE  TreeTypes'
    BY <2>6, FaultAssumption
    DEF BaseRefused, Fails, Set, tree, catalog, compress, TypeOK, TreeTypes,
        BackupTypes, CompressTypes, Days
  <2>7. ASSUME NEW r \in Run, ToolWrites(r)
        PROVE  TreeTypes'
    BY <2>7, FaultAssumption
    DEF ToolWrites, Set, catalog, backup, compress, TypeOK, TreeTypes,
        BackupTypes, CompressTypes, Days
  <2>8. ASSUME NEW r \in Run, ToolSucceeds(r)
        PROVE  TreeTypes'
    BY <2>8, FaultAssumption
    DEF ToolSucceeds, Set, catalog, compress, TypeOK, TreeTypes, BackupTypes,
        CompressTypes, Days
  <2>9. ASSUME NEW r \in Run, ToolFails(r)
        PROVE  TreeTypes'
    BY <2>9, FaultAssumption
    DEF ToolFails, Happens, Set, Fails, catalog, compress, TypeOK, TreeTypes,
        BackupTypes, CompressTypes, Days
  <2>10. ASSUME NEW r \in Run, Purge(r)
        PROVE  TreeTypes'
    BY <2>10, FaultAssumption
    DEF Purge, Set, tree, compress, TypeOK, TreeTypes, BackupTypes,
        CompressTypes, Days
  <2>11. ASSUME NEW r \in Run, PurgeFails(r)
        PROVE  TreeTypes'
    BY <2>11, FaultAssumption
    DEF PurgeFails, Happens, Fails, Set, tree, catalog, compress, TypeOK,
        TreeTypes, BackupTypes, CompressTypes, Days
  <2>12. ASSUME NEW r \in Run, Register(r)
        PROVE  TreeTypes'
    BY <2>12, FaultAssumption
    DEF Register, Set, tree, compress, TypeOK, TreeTypes, BackupTypes,
        CompressTypes, Days
  <2>13. ASSUME NEW r \in Run, RegisterFails(r)
        PROVE  TreeTypes'
    BY <2>13, FaultAssumption
    DEF RegisterFails, Happens, Fails, Set, tree, catalog, compress, TypeOK,
        TreeTypes, BackupTypes, CompressTypes, Days
  <2>14. ASSUME NEW r \in Run, RemoveBase(r)
        PROVE  TreeTypes'
    BY <2>14, FaultAssumption
    DEF RemoveBase, Set, Because, catalog, compress, TypeOK, TreeTypes,
        BackupTypes, CompressTypes, Days
  <2>15. ASSUME NEW r \in Run, Killed(r)
        PROVE  TreeTypes'
    BY <2>15, FaultAssumption
    DEF Killed, Happens, Fails, Set, tree, catalog, compress, TypeOK,
        TreeTypes, BackupTypes, CompressTypes, Days
  <2>16. ASSUME NEW r \in Run, KilledInTool(r)
        PROVE  TreeTypes'
    BY <2>16, FaultAssumption
    DEF KilledInTool, Happens, Fails, Set, catalog, compress, TypeOK,
        TreeTypes, BackupTypes, CompressTypes, Days
  <2>17. ASSUME NEW r \in Run, KilledInRemove(r)
        PROVE  TreeTypes'
    <3>1. Happens("crash")
      BY <2>17 DEF KilledInRemove
    <3>2. faults' \in 0 .. MaxFaults
      BY <3>1, FaultAssumption DEF Happens, TypeOK, TreeTypes
    <3> QED
      BY <3>2, <2>17
      DEF KilledInRemove, Fails, catalog, compress,
          Set, TypeOK, TreeTypes, BackupTypes, CompressTypes, Days
  <2>18. ASSUME NEW c \in Compressor, StartCompress(c)
        PROVE  TreeTypes'
    BY <2>18, FaultAssumption
    DEF StartCompress, Set, tree, catalog, backup, TypeOK, TreeTypes,
        BackupTypes, CompressTypes, Days
  <2>19. ASSUME NEW c \in Compressor, NEW b \in Run, Skip(c, b)
        PROVE  TreeTypes'
    BY <2>19, FaultAssumption
    DEF Skip, Set, tree, catalog, backup, TypeOK, TreeTypes, BackupTypes,
        CompressTypes, Days
  <2>20. ASSUME NEW c \in Compressor, NEW b \in Run, Open(c, b)
        PROVE  TreeTypes'
    BY <2>20, FaultAssumption
    DEF Open, Set, AlsoAt, catalog, backup, TypeOK, TreeTypes, BackupTypes,
        CompressTypes, Days
  <2>21. ASSUME NEW c \in Compressor, Copied(c)
        PROVE  TreeTypes'
    BY <2>21, FaultAssumption
    DEF Copied, Set, catalog, backup, TypeOK, TreeTypes, BackupTypes,
        CompressTypes, Days
  <2>22. ASSUME NEW c \in Compressor, PipeFails(c)
        PROVE  TreeTypes'
    <3>1. Happens("pipe")
      BY <2>22 DEF PipeFails
    <3>2. faults' \in 0 .. MaxFaults
      BY <3>1, FaultAssumption DEF Happens, TypeOK, TreeTypes
    <3> QED
      BY <3>2, <2>22
      DEF PipeFails, catalog, backup,
          Set, TypeOK, TreeTypes, BackupTypes, CompressTypes, Days
  <2>23. ASSUME NEW c \in Compressor, CopyFails(c)
        PROVE  TreeTypes'
    BY <2>23, FaultAssumption
    DEF CopyFails, Happens, StopCompress, Set, tree, catalog, backup, TypeOK,
        TreeTypes, BackupTypes, CompressTypes, Days
  <2>24. ASSUME NEW c \in Compressor, Remove(c)
        PROVE  TreeTypes'
    BY <2>24, FaultAssumption
    DEF Remove, Set, catalog, backup, TypeOK, TreeTypes, BackupTypes,
        CompressTypes, Days
  <2>25. ASSUME NEW c \in Compressor, Removed(c)
        PROVE  TreeTypes'
    BY <2>25, FaultAssumption
    DEF Removed, Set, catalog, backup, TypeOK, TreeTypes, BackupTypes,
        CompressTypes, Days
  <2>26. ASSUME NEW c \in Compressor, EndCompress(c)
        PROVE  TreeTypes'
    BY <2>26, FaultAssumption
    DEF EndCompress, StopCompress, Set, tree, catalog, backup, TypeOK,
        TreeTypes, BackupTypes, CompressTypes, Days
  <2>27. ASSUME NEW c \in Compressor, KilledCompress(c)
        PROVE  TreeTypes'
    BY <2>27, FaultAssumption
    DEF KilledCompress, Happens, StopCompress, Set, tree, catalog, backup,
        TypeOK, TreeTypes, BackupTypes, CompressTypes, Days
  <2>28. ASSUME NEW c \in Compressor, KilledRemoving(c)
        PROVE  TreeTypes'
    <3>1. Happens("crash")
      BY <2>28 DEF KilledRemoving
    <3>2. faults' \in 0 .. MaxFaults
      BY <3>1, FaultAssumption DEF Happens, TypeOK, TreeTypes
    <3> QED
      BY <3>2, <2>28
      DEF KilledRemoving, StopCompress, tree, catalog, backup,
          Set, TypeOK, TreeTypes, BackupTypes, CompressTypes, Days
  <2>29. ASSUME NEW b \in Run, ExpireImage(b)
        PROVE  TreeTypes'
    BY <2>29, FaultAssumption
    DEF ExpireImage, Set, catalog, backup, compress, TypeOK, TreeTypes,
        BackupTypes, CompressTypes, Days
  <2>30. ASSUME NEW b \in Run, ExpireFiles(b)
        PROVE  TreeTypes'
    BY <2>30, FaultAssumption
    DEF ExpireFiles, Set, catalog, backup, compress, TypeOK, TreeTypes,
        BackupTypes, CompressTypes, Days
  <2>31. ASSUME Tick
        PROVE  TreeTypes'
    BY <2>31, FaultAssumption
    DEF Tick, tree, catalog, backup, compress, TypeOK, TreeTypes,
        BackupTypes, CompressTypes, Days
  <2>32. CASE UNCHANGED vars
    BY <2>32, FaultAssumption
    DEF vars, tree, catalog, backup, compress, TypeOK, TreeTypes,
        BackupTypes, CompressTypes, Days
  <2> QED
    BY <2>1, <2>2, <2>3, <2>4, <2>5, <2>6, <2>7, <2>8, <2>9, <2>10, <2>11,
        <2>12, <2>13, <2>14, <2>15, <2>16, <2>17, <2>18, <2>19, <2>20, <2>21,
        <2>22, <2>23, <2>24, <2>25, <2>26, <2>27, <2>28, <2>29, <2>30, <2>31,
        <2>32
    DEF Next, DatabaseBackup, CompressDbxBak, RemoveDbxBak
<1>3. TypeInv /\ [Next]_vars => BackupTypes'
  <2> SUFFICES ASSUME TypeOK, Fresh, [Next]_vars PROVE BackupTypes'
    OBVIOUS
  <2>1. ASSUME NEW r \in Run, StartFull(r)
        PROVE  BackupTypes'
    BY <2>1
    DEF StartFull, MakeDirectory, Set, catalog, compress, TypeOK, TreeTypes,
        BackupTypes, Days
  <2>2. ASSUME NEW r \in Run, StartIncremental(r)
        PROVE  BackupTypes'
    BY <2>2
    DEF StartIncremental, Set, tree, catalog, compress, TypeOK, TreeTypes,
        BackupTypes, Days
  <2>3. ASSUME NEW r \in Run, ReadDirectory(r)
        PROVE  BackupTypes'
    BY <2>3
    DEF ReadDirectory, Happens, Set, tree, catalog, compress, TypeOK, TreeTypes,
        BackupTypes, Days
  <2>4. ASSUME NEW r \in Run, ReadName(r)
        PROVE  BackupTypes'
    <3>1. NewestFull \in Run \cup {None}
      BY NewestFullIsRegistered DEF TypeOK, TreeTypes
    <3> QED
      BY <3>1, <2>4 DEF ReadName, Happens, Set, TypeOK, BackupTypes
  <2>5. ASSUME NEW r \in Run, Launch(r)
        PROVE  BackupTypes'
    BY <2>5
    DEF Launch, MakeDirectory, Set, catalog, compress, TypeOK, TreeTypes,
        BackupTypes, Days
  <2>6. ASSUME NEW r \in Run, BaseRefused(r)
        PROVE  BackupTypes'
    BY <2>6
    DEF BaseRefused, Fails, Set, tree, catalog, compress, TypeOK, TreeTypes,
        BackupTypes, Days
  <2>7. ASSUME NEW r \in Run, ToolWrites(r)
        PROVE  BackupTypes'
    BY <2>7
    DEF ToolWrites, Set, catalog, backup, compress, TypeOK, TreeTypes,
        BackupTypes, Days
  <2>8. ASSUME NEW r \in Run, ToolSucceeds(r)
        PROVE  BackupTypes'
    <3>1. pos' \in [Run -> 0 .. Cardinality(Run)]
      <4>1. pos[r] = 0
        BY <2>8 DEF ToolSucceeds, Fresh, Unfinished
      <4> DEFINE F == {b \in Run : Finished(b)}
      <4>2. IsFiniteSet(Run) /\ Cardinality(Run) \in Nat
        BY RunAssumption, FS_CardinalityType
      <4>3. Cardinality(Run \ {r}) = Cardinality(Run) - 1
        BY <4>2, FS_RemoveElement
      <4>4. IsFiniteSet(Run \ {r})
        BY <4>2, FS_RemoveElement
      <4>5. F \in SUBSET (Run \ {r})
        BY <4>1 DEF Finished
      <4>6. /\ Cardinality(F) \in Nat
            /\ Cardinality(F) <= Cardinality(Run \ {r})
        BY <4>4, <4>5, FS_Subset, FS_CardinalityType
      <4>7. 1 + Cardinality(F) \in 0 .. Cardinality(Run)
        BY <4>2, <4>3, <4>6
      <4> QED
        BY <4>7, <2>8 DEF ToolSucceeds, TypeOK, BackupTypes, Set
    <3> QED
      BY <3>1, <2>8 DEF ToolSucceeds, Set, TypeOK, TreeTypes, BackupTypes
  <2>9. ASSUME NEW r \in Run, ToolFails(r)
        PROVE  BackupTypes'
    BY <2>9
    DEF ToolFails, Happens, Set, Fails, catalog, compress, TypeOK, TreeTypes,
        BackupTypes, Days
  <2>10. ASSUME NEW r \in Run, Purge(r)
        PROVE  BackupTypes'
    BY <2>10
    DEF Purge, Set, tree, compress, TypeOK, TreeTypes, BackupTypes, Days
  <2>11. ASSUME NEW r \in Run, PurgeFails(r)
        PROVE  BackupTypes'
    BY <2>11
    DEF PurgeFails, Happens, Fails, Set, tree, catalog, compress, TypeOK,
        TreeTypes, BackupTypes, Days
  <2>12. ASSUME NEW r \in Run, Register(r)
        PROVE  BackupTypes'
    BY <2>12
    DEF Register, Set, tree, compress, TypeOK, TreeTypes, BackupTypes, Days
  <2>13. ASSUME NEW r \in Run, RegisterFails(r)
        PROVE  BackupTypes'
    BY <2>13
    DEF RegisterFails, Happens, Fails, Set, tree, catalog, compress, TypeOK,
        TreeTypes, BackupTypes, Days
  <2>14. ASSUME NEW r \in Run, RemoveBase(r)
        PROVE  BackupTypes'
    BY <2>14
    DEF RemoveBase, Set, catalog, compress, TypeOK, TreeTypes, BackupTypes,
        Days
  <2>15. ASSUME NEW r \in Run, Killed(r)
        PROVE  BackupTypes'
    BY <2>15
    DEF Killed, Happens, Fails, Set, tree, catalog, compress, TypeOK,
        TreeTypes, BackupTypes, Days
  <2>16. ASSUME NEW r \in Run, KilledInTool(r)
        PROVE  BackupTypes'
    BY <2>16
    DEF KilledInTool, Happens, Fails, Set, catalog, compress, TypeOK,
        TreeTypes, BackupTypes, Days
  <2>17. ASSUME NEW r \in Run, KilledInRemove(r)
        PROVE  BackupTypes'
    BY <2>17
    DEF KilledInRemove, Happens, Fails, Set, catalog, compress, TypeOK,
        TreeTypes, BackupTypes, Days
  <2>18. ASSUME NEW c \in Compressor, StartCompress(c)
        PROVE  BackupTypes'
    BY <2>18
    DEF StartCompress, Set, tree, catalog, backup, TypeOK, TreeTypes,
        BackupTypes, Days
  <2>19. ASSUME NEW c \in Compressor, NEW b \in Run, Skip(c, b)
        PROVE  BackupTypes'
    BY <2>19
    DEF Skip, Set, tree, catalog, backup, TypeOK, TreeTypes, BackupTypes,
        Days
  <2>20. ASSUME NEW c \in Compressor, NEW b \in Run, Open(c, b)
        PROVE  BackupTypes'
    BY <2>20
    DEF Open, Set, AlsoAt, catalog, backup, TypeOK, TreeTypes, BackupTypes,
        Days
  <2>21. ASSUME NEW c \in Compressor, Copied(c)
        PROVE  BackupTypes'
    BY <2>21
    DEF Copied, Set, catalog, backup, TypeOK, TreeTypes, BackupTypes, Days
  <2>22. ASSUME NEW c \in Compressor, PipeFails(c)
        PROVE  BackupTypes'
    BY <2>22
    DEF PipeFails, Happens, Set, catalog, backup, TypeOK, TreeTypes,
        BackupTypes, Days
  <2>23. ASSUME NEW c \in Compressor, CopyFails(c)
        PROVE  BackupTypes'
    BY <2>23
    DEF CopyFails, Happens, StopCompress, Set, tree, catalog, backup, TypeOK,
        TreeTypes, BackupTypes, Days
  <2>24. ASSUME NEW c \in Compressor, Remove(c)
        PROVE  BackupTypes'
    BY <2>24
    DEF Remove, Set, catalog, backup, TypeOK, TreeTypes, BackupTypes, Days
  <2>25. ASSUME NEW c \in Compressor, Removed(c)
        PROVE  BackupTypes'
    BY <2>25
    DEF Removed, Set, catalog, backup, TypeOK, TreeTypes, BackupTypes, Days
  <2>26. ASSUME NEW c \in Compressor, EndCompress(c)
        PROVE  BackupTypes'
    BY <2>26
    DEF EndCompress, StopCompress, Set, tree, catalog, backup, TypeOK,
        TreeTypes, BackupTypes, Days
  <2>27. ASSUME NEW c \in Compressor, KilledCompress(c)
        PROVE  BackupTypes'
    BY <2>27
    DEF KilledCompress, Happens, StopCompress, Set, tree, catalog, backup,
        TypeOK, TreeTypes, BackupTypes, Days
  <2>28. ASSUME NEW c \in Compressor, KilledRemoving(c)
        PROVE  BackupTypes'
    BY <2>28
    DEF KilledRemoving, Happens, StopCompress, Set, tree, catalog, backup,
        TypeOK, TreeTypes, BackupTypes, Days
  <2>29. ASSUME NEW b \in Run, ExpireImage(b)
        PROVE  BackupTypes'
    BY <2>29
    DEF ExpireImage, Set, catalog, backup, compress, TypeOK, TreeTypes,
        BackupTypes, Days
  <2>30. ASSUME NEW b \in Run, ExpireFiles(b)
        PROVE  BackupTypes'
    BY <2>30
    DEF ExpireFiles, Set, catalog, backup, compress, TypeOK, TreeTypes,
        BackupTypes, Days
  <2>31. ASSUME Tick
        PROVE  BackupTypes'
    BY <2>31
    DEF Tick, tree, catalog, backup, compress, TypeOK, TreeTypes,
        BackupTypes, Days
  <2>32. CASE UNCHANGED vars
    BY <2>32
    DEF vars, tree, catalog, backup, compress, TypeOK, TreeTypes,
        BackupTypes, Days
  <2> QED
    BY <2>1, <2>2, <2>3, <2>4, <2>5, <2>6, <2>7, <2>8, <2>9, <2>10, <2>11,
        <2>12, <2>13, <2>14, <2>15, <2>16, <2>17, <2>18, <2>19, <2>20, <2>21,
        <2>22, <2>23, <2>24, <2>25, <2>26, <2>27, <2>28, <2>29, <2>30, <2>31,
        <2>32
    DEF Next, DatabaseBackup, CompressDbxBak, RemoveDbxBak
<1>4. TypeInv /\ [Next]_vars => CompressTypes'
  <2> SUFFICES ASSUME TypeOK, [Next]_vars PROVE CompressTypes'
    OBVIOUS
  <2>1. ASSUME NEW r \in Run, StartFull(r)
        PROVE  CompressTypes'
    BY <2>1
    DEF StartFull, MakeDirectory, Set, catalog, compress, TypeOK, TreeTypes,
        CompressTypes, Days
  <2>2. ASSUME NEW r \in Run, StartIncremental(r)
        PROVE  CompressTypes'
    BY <2>2
    DEF StartIncremental, Set, tree, catalog, compress, TypeOK, TreeTypes,
        CompressTypes, Days
  <2>3. ASSUME NEW r \in Run, ReadDirectory(r)
        PROVE  CompressTypes'
    BY <2>3
    DEF ReadDirectory, Happens, Set, tree, catalog, compress, TypeOK, TreeTypes,
        CompressTypes, Days
  <2>4. ASSUME NEW r \in Run, ReadName(r)
        PROVE  CompressTypes'
    BY <2>4
    DEF ReadName, Happens, Set, tree, catalog, compress, TypeOK, TreeTypes,
        CompressTypes, Days
  <2>5. ASSUME NEW r \in Run, Launch(r)
        PROVE  CompressTypes'
    BY <2>5
    DEF Launch, MakeDirectory, Set, catalog, compress, TypeOK, TreeTypes,
        CompressTypes, Days
  <2>6. ASSUME NEW r \in Run, BaseRefused(r)
        PROVE  CompressTypes'
    BY <2>6
    DEF BaseRefused, Fails, Set, tree, catalog, compress, TypeOK, TreeTypes,
        CompressTypes, Days
  <2>7. ASSUME NEW r \in Run, ToolWrites(r)
        PROVE  CompressTypes'
    BY <2>7
    DEF ToolWrites, Set, catalog, backup, compress, TypeOK, TreeTypes,
        CompressTypes, Days
  <2>8. ASSUME NEW r \in Run, ToolSucceeds(r)
        PROVE  CompressTypes'
    BY <2>8
    DEF ToolSucceeds, Set, catalog, compress, TypeOK, TreeTypes,
        CompressTypes, Days
  <2>9. ASSUME NEW r \in Run, ToolFails(r)
        PROVE  CompressTypes'
    BY <2>9
    DEF ToolFails, Happens, Set, Fails, catalog, compress, TypeOK, TreeTypes,
        CompressTypes, Days
  <2>10. ASSUME NEW r \in Run, Purge(r)
        PROVE  CompressTypes'
    BY <2>10
    DEF Purge, Set, tree, compress, TypeOK, TreeTypes, CompressTypes, Days
  <2>11. ASSUME NEW r \in Run, PurgeFails(r)
        PROVE  CompressTypes'
    BY <2>11
    DEF PurgeFails, Happens, Fails, Set, tree, catalog, compress, TypeOK,
        TreeTypes, CompressTypes, Days
  <2>12. ASSUME NEW r \in Run, Register(r)
        PROVE  CompressTypes'
    BY <2>12
    DEF Register, Set, tree, compress, TypeOK, TreeTypes, CompressTypes,
        Days
  <2>13. ASSUME NEW r \in Run, RegisterFails(r)
        PROVE  CompressTypes'
    BY <2>13
    DEF RegisterFails, Happens, Fails, Set, tree, catalog, compress, TypeOK,
        TreeTypes, CompressTypes, Days
  <2>14. ASSUME NEW r \in Run, RemoveBase(r)
        PROVE  CompressTypes'
    BY <2>14
    DEF RemoveBase, Set, catalog, compress, TypeOK, TreeTypes, CompressTypes,
        Days
  <2>15. ASSUME NEW r \in Run, Killed(r)
        PROVE  CompressTypes'
    BY <2>15
    DEF Killed, Happens, Fails, Set, tree, catalog, compress, TypeOK,
        TreeTypes, CompressTypes, Days
  <2>16. ASSUME NEW r \in Run, KilledInTool(r)
        PROVE  CompressTypes'
    BY <2>16
    DEF KilledInTool, Happens, Fails, Set, catalog, compress, TypeOK,
        TreeTypes, CompressTypes, Days
  <2>17. ASSUME NEW r \in Run, KilledInRemove(r)
        PROVE  CompressTypes'
    BY <2>17
    DEF KilledInRemove, Happens, Fails, Set, catalog, compress, TypeOK,
        TreeTypes, CompressTypes, Days
  <2>18. ASSUME NEW c \in Compressor, StartCompress(c)
        PROVE  CompressTypes'
    BY <2>18
    DEF StartCompress, Set, tree, catalog, backup, TypeOK, TreeTypes,
        CompressTypes, Days
  <2>19. ASSUME NEW c \in Compressor, NEW b \in Run, Skip(c, b)
        PROVE  CompressTypes'
    BY <2>19
    DEF Skip, Set, tree, catalog, backup, TypeOK, TreeTypes, CompressTypes,
        Days
  <2>20. ASSUME NEW c \in Compressor, NEW b \in Run, Open(c, b)
        PROVE  CompressTypes'
    <3>1. cok' \in [Compressor -> BOOLEAN]
      BY <2>20 DEF Open
    <3>2. /\ todo' = [todo EXCEPT ![c] = todo[c] \ {b}]
          /\ cur' = [cur EXCEPT ![c] = b]
          /\ cpc' = [cpc EXCEPT ![c] = "write"]
          /\ cday' = cday
      BY <2>20 DEF Open, Set
    <3> QED
      BY <3>1, <3>2, NoneAssumption DEF TypeOK, CompressTypes
  <2>21. ASSUME NEW c \in Compressor, Copied(c)
        PROVE  CompressTypes'
    BY <2>21
    DEF Copied, Set, catalog, backup, TypeOK, TreeTypes, CompressTypes, Days
  <2>22. ASSUME NEW c \in Compressor, PipeFails(c)
        PROVE  CompressTypes'
    BY <2>22
    DEF PipeFails, Happens, Set, catalog, backup, TypeOK, TreeTypes,
        CompressTypes, Days
  <2>23. ASSUME NEW c \in Compressor, CopyFails(c)
        PROVE  CompressTypes'
    BY <2>23
    DEF CopyFails, Happens, StopCompress, Set, tree, catalog, backup, TypeOK,
        TreeTypes, CompressTypes, Days
  <2>24. ASSUME NEW c \in Compressor, Remove(c)
        PROVE  CompressTypes'
    BY <2>24
    DEF Remove, Set, catalog, backup, TypeOK, TreeTypes, CompressTypes, Days
  <2>25. ASSUME NEW c \in Compressor, Removed(c)
        PROVE  CompressTypes'
    BY <2>25
    DEF Removed, Set, catalog, backup, TypeOK, TreeTypes, CompressTypes,
        Days
  <2>26. ASSUME NEW c \in Compressor, EndCompress(c)
        PROVE  CompressTypes'
    BY <2>26
    DEF EndCompress, StopCompress, Set, tree, catalog, backup, TypeOK,
        TreeTypes, CompressTypes, Days
  <2>27. ASSUME NEW c \in Compressor, KilledCompress(c)
        PROVE  CompressTypes'
    BY <2>27
    DEF KilledCompress, Happens, StopCompress, Set, tree, catalog, backup,
        TypeOK, TreeTypes, CompressTypes, Days
  <2>28. ASSUME NEW c \in Compressor, KilledRemoving(c)
        PROVE  CompressTypes'
    BY <2>28
    DEF KilledRemoving, Happens, StopCompress, Set, tree, catalog, backup,
        TypeOK, TreeTypes, CompressTypes, Days
  <2>29. ASSUME NEW b \in Run, ExpireImage(b)
        PROVE  CompressTypes'
    BY <2>29
    DEF ExpireImage, Set, catalog, backup, compress, TypeOK, TreeTypes,
        CompressTypes, Days
  <2>30. ASSUME NEW b \in Run, ExpireFiles(b)
        PROVE  CompressTypes'
    BY <2>30
    DEF ExpireFiles, Set, catalog, backup, compress, TypeOK, TreeTypes,
        CompressTypes, Days
  <2>31. ASSUME Tick
        PROVE  CompressTypes'
    BY <2>31
    DEF Tick, tree, catalog, backup, compress, TypeOK, TreeTypes,
        CompressTypes, Days
  <2>32. CASE UNCHANGED vars
    BY <2>32
    DEF vars, tree, catalog, backup, compress, TypeOK, TreeTypes,
        CompressTypes, Days
  <2> QED
    BY <2>1, <2>2, <2>3, <2>4, <2>5, <2>6, <2>7, <2>8, <2>9, <2>10, <2>11,
        <2>12, <2>13, <2>14, <2>15, <2>16, <2>17, <2>18, <2>19, <2>20, <2>21,
        <2>22, <2>23, <2>24, <2>25, <2>26, <2>27, <2>28, <2>29, <2>30, <2>31,
        <2>32
    DEF Next, DatabaseBackup, CompressDbxBak, RemoveDbxBak
<1>5. TypeInv /\ [Next]_vars => (reasons \in [Run -> SUBSET Reason])'
  <2> SUFFICES ASSUME TypeOK, [Next]_vars
               PROVE  (reasons \in [Run -> SUBSET Reason])'
    OBVIOUS
  <2>1. ASSUME NEW r \in Run, StartFull(r)
        PROVE  (reasons \in [Run -> SUBSET Reason])'
    BY <2>1 DEF StartFull, catalog, compress, TypeOK, Reason
  <2>2. ASSUME NEW r \in Run, StartIncremental(r)
        PROVE  (reasons \in [Run -> SUBSET Reason])'
    BY <2>2 DEF StartIncremental, tree, catalog, compress, TypeOK, Reason
  <2>3. ASSUME NEW r \in Run, ReadDirectory(r)
        PROVE  (reasons \in [Run -> SUBSET Reason])'
    BY <2>3 DEF ReadDirectory, tree, catalog, compress, TypeOK, Reason
  <2>4. ASSUME NEW r \in Run, ReadName(r)
        PROVE  (reasons \in [Run -> SUBSET Reason])'
    BY <2>4 DEF ReadName, tree, catalog, compress, TypeOK, Reason
  <2>5. ASSUME NEW r \in Run, Launch(r)
        PROVE  (reasons \in [Run -> SUBSET Reason])'
    BY <2>5 DEF Launch, catalog, compress, TypeOK, Reason
  <2>6. ASSUME NEW r \in Run, BaseRefused(r)
        PROVE  (reasons \in [Run -> SUBSET Reason])'
    BY <2>6 DEF BaseRefused, tree, catalog, compress, TypeOK, Reason
  <2>7. ASSUME NEW r \in Run, ToolWrites(r)
        PROVE  (reasons \in [Run -> SUBSET Reason])'
    BY <2>7 DEF ToolWrites, catalog, backup, compress, TypeOK, Reason
  <2>8. ASSUME NEW r \in Run, ToolSucceeds(r)
        PROVE  (reasons \in [Run -> SUBSET Reason])'
    BY <2>8 DEF ToolSucceeds, catalog, compress, TypeOK, Reason
  <2>9. ASSUME NEW r \in Run, ToolFails(r)
        PROVE  (reasons \in [Run -> SUBSET Reason])'
    BY <2>9 DEF ToolFails, catalog, compress, Happens, TypeOK, Reason
  <2>10. ASSUME NEW r \in Run, Purge(r)
        PROVE  (reasons \in [Run -> SUBSET Reason])'
    BY <2>10 DEF Purge, tree, compress, TypeOK, Reason
  <2>11. ASSUME NEW r \in Run, PurgeFails(r)
        PROVE  (reasons \in [Run -> SUBSET Reason])'
    BY <2>11 DEF PurgeFails, tree, catalog, compress, Happens, TypeOK, Reason
  <2>12. ASSUME NEW r \in Run, Register(r)
        PROVE  (reasons \in [Run -> SUBSET Reason])'
    BY <2>12 DEF Register, tree, compress, TypeOK, Reason
  <2>13. ASSUME NEW r \in Run, RegisterFails(r)
        PROVE  (reasons \in [Run -> SUBSET Reason])'
    BY <2>13 DEF RegisterFails, tree, catalog, compress, Happens, TypeOK, Reason
  <2>14. ASSUME NEW r \in Run, RemoveBase(r)
        PROVE  (reasons \in [Run -> SUBSET Reason])'
    BY <2>14 DEF RemoveBase, catalog, compress, Because, TypeOK, Reason
  <2>15. ASSUME NEW r \in Run, Killed(r)
        PROVE  (reasons \in [Run -> SUBSET Reason])'
    BY <2>15 DEF Killed, tree, catalog, compress, Happens, TypeOK, Reason
  <2>16. ASSUME NEW r \in Run, KilledInTool(r)
        PROVE  (reasons \in [Run -> SUBSET Reason])'
    BY <2>16 DEF KilledInTool, catalog, compress, Happens, TypeOK, Reason
  <2>17. ASSUME NEW r \in Run, KilledInRemove(r)
        PROVE  (reasons \in [Run -> SUBSET Reason])'
    BY <2>17 DEF KilledInRemove, catalog, compress, Because, Happens, TypeOK, Reason
  <2>18. ASSUME NEW c \in Compressor, StartCompress(c)
        PROVE  (reasons \in [Run -> SUBSET Reason])'
    BY <2>18 DEF StartCompress, tree, catalog, backup, TypeOK, Reason
  <2>19. ASSUME NEW c \in Compressor, NEW b \in Run, Skip(c, b)
        PROVE  (reasons \in [Run -> SUBSET Reason])'
    BY <2>19 DEF Skip, tree, catalog, backup, TypeOK, Reason
  <2>20. ASSUME NEW c \in Compressor, NEW b \in Run, Open(c, b)
        PROVE  (reasons \in [Run -> SUBSET Reason])'
    BY <2>20 DEF Open, catalog, backup, AlsoAt, TypeOK, Reason
  <2>21. ASSUME NEW c \in Compressor, Copied(c)
        PROVE  (reasons \in [Run -> SUBSET Reason])'
    BY <2>21 DEF Copied, catalog, backup, TypeOK, Reason
  <2>22. ASSUME NEW c \in Compressor, PipeFails(c)
        PROVE  (reasons \in [Run -> SUBSET Reason])'
    BY <2>22 DEF PipeFails, catalog, backup, Because, Happens, TypeOK, Reason
  <2>23. ASSUME NEW c \in Compressor, CopyFails(c)
        PROVE  (reasons \in [Run -> SUBSET Reason])'
    BY <2>23 DEF CopyFails, tree, catalog, backup, Happens, TypeOK, Reason
  <2>24. ASSUME NEW c \in Compressor, Remove(c)
        PROVE  (reasons \in [Run -> SUBSET Reason])'
    BY <2>24 DEF Remove, catalog, backup, TypeOK, Reason
  <2>25. ASSUME NEW c \in Compressor, Removed(c)
        PROVE  (reasons \in [Run -> SUBSET Reason])'
    BY <2>25 DEF Removed, catalog, backup, TypeOK, Reason
  <2>26. ASSUME NEW c \in Compressor, EndCompress(c)
        PROVE  (reasons \in [Run -> SUBSET Reason])'
    BY <2>26 DEF EndCompress, tree, catalog, backup, TypeOK, Reason
  <2>27. ASSUME NEW c \in Compressor, KilledCompress(c)
        PROVE  (reasons \in [Run -> SUBSET Reason])'
    BY <2>27 DEF KilledCompress, tree, catalog, backup, Happens, TypeOK, Reason
  <2>28. ASSUME NEW c \in Compressor, KilledRemoving(c)
        PROVE  (reasons \in [Run -> SUBSET Reason])'
    BY <2>28 DEF KilledRemoving, tree, catalog, backup, Because, Happens, TypeOK, Reason
  <2>29. ASSUME NEW b \in Run, ExpireImage(b)
        PROVE  (reasons \in [Run -> SUBSET Reason])'
    BY <2>29 DEF ExpireImage, catalog, backup, compress, TypeOK, Reason
  <2>30. ASSUME NEW b \in Run, ExpireFiles(b)
        PROVE  (reasons \in [Run -> SUBSET Reason])'
    BY <2>30 DEF ExpireFiles, catalog, backup, compress, TypeOK, Reason
  <2>31. ASSUME Tick
        PROVE  (reasons \in [Run -> SUBSET Reason])'
    BY <2>31 DEF Tick, tree, catalog, backup, compress, TypeOK, Reason
  <2>32. CASE UNCHANGED vars
    BY <2>32
    DEF vars, tree, catalog, backup, compress, TypeOK, Reason
  <2> QED
    BY <2>1, <2>2, <2>3, <2>4, <2>5, <2>6, <2>7, <2>8, <2>9, <2>10, <2>11,
        <2>12, <2>13, <2>14, <2>15, <2>16, <2>17, <2>18, <2>19, <2>20, <2>21,
        <2>22, <2>23, <2>24, <2>25, <2>26, <2>27, <2>28, <2>29, <2>30, <2>31,
        <2>32
    DEF Next, DatabaseBackup, CompressDbxBak, RemoveDbxBak
<1>6. TypeInv /\ [Next]_vars => TypeInv'
  BY <1>2, <1>3, <1>4, <1>5, FreshStep DEF TypeOK
<1>7. TypeInv => TypeOK
  OBVIOUS
<1> QED
  BY <1>1, <1>6, <1>7, PTL DEF Spec

-----------------------------------------------------------------------------
(* Backups are numbered as they are finished, and the register names       *)
(* finished ones.                                                          *)
PosInv == \A b \in Run : pos[b] <= Cardinality({q \in Run : Finished(q)})
RegInv == \A i \in 1 .. Len(register) : Finished(register[i][1])

(* The base a run works with is a full backup of the register, finished    *)
(* before its own backup; from line 55 on the directory was named as well. *)
BaseInv ==
    \A r \in Run : rname[r] # None =>
        /\ \E i \in Fulls : register[i][1] = rname[r]
        /\ bpc[r] \in {"launch", "incremental", "register", "remove", "done"}
        /\ bpc[r] # "launch" => rdir[r]
        /\ bpc[r] \in {"register", "remove"} => pos[rname[r]] < pos[r]

(* A new backup gets the highest number.                                   *)
LEMMA PosStep == TypeOK /\ Fresh /\ PosInv /\ [Next]_vars => PosInv'
<1> SUFFICES ASSUME TypeOK, Fresh, PosInv, [Next]_vars PROVE PosInv'
  OBVIOUS
<1>1. PosInv'
  <2>1. ASSUME NEW r \in Run, StartFull(r)
        PROVE  PosInv'
    BY <2>1 DEF StartFull, Set, PosInv, Finished
  <2>2. ASSUME NEW r \in Run, StartIncremental(r)
        PROVE  PosInv'
    BY <2>2 DEF StartIncremental, Set, PosInv, Finished
  <2>3. ASSUME NEW r \in Run, ReadDirectory(r)
        PROVE  PosInv'
    BY <2>3 DEF ReadDirectory, Happens, Set, PosInv, Finished
  <2>4. ASSUME NEW r \in Run, ReadName(r)
        PROVE  PosInv'
    BY <2>4 DEF ReadName, Happens, Set, PosInv, Finished
  <2>5. ASSUME NEW r \in Run, Launch(r)
        PROVE  PosInv'
    BY <2>5 DEF Launch, Set, PosInv, Finished
  <2>6. ASSUME NEW r \in Run, BaseRefused(r)
        PROVE  PosInv'
    BY <2>6 DEF BaseRefused, Set, Fails, PosInv, Finished
  <2>7. ASSUME NEW r \in Run, ToolWrites(r)
        PROVE  PosInv'
    BY <2>7 DEF ToolWrites, backup, Set, PosInv, Finished
  <2>8. ASSUME NEW r \in Run, ToolSucceeds(r)
        PROVE  PosInv'
    <3> DEFINE F == {q \in Run : Finished(q)}
               G == {q \in Run : pos'[q] # 0}
    <3>1. pos[r] = 0 /\ pos' = [pos EXCEPT ![r] = 1 + Cardinality(F)]
      BY <2>8 DEF ToolSucceeds, Set, Fresh, Unfinished
    <3>2. IsFiniteSet(F) /\ Cardinality(F) \in Nat
      BY RunAssumption, F \in SUBSET Run, FS_Subset, FS_CardinalityType
    <3>a. \A q \in Run : q \in G <=> q \in F \/ q = r
      BY <3>1, <3>2 DEF Finished, TypeOK, BackupTypes
    <3>3. G = F \cup {r} /\ r \notin F
      BY <3>1, <3>a DEF Finished
    <3>4. Cardinality(G) = Cardinality(F) + 1
      BY <3>2, <3>3, FS_AddElement
    <3>5. ASSUME NEW b \in Run PROVE pos'[b] <= Cardinality(G)
      <4>1. pos[b] \in Nat /\ pos[b] <= Cardinality(F)
        BY DEF PosInv, TypeOK, BackupTypes
      <4> QED
        BY <3>1, <3>2, <3>4, <4>1 DEF TypeOK, BackupTypes
    <3> QED
      BY <3>5 DEF PosInv, Finished
  <2>9. ASSUME NEW r \in Run, ToolFails(r)
        PROVE  PosInv'
    BY <2>9 DEF ToolFails, Set, Fails, PosInv, Finished
  <2>10. ASSUME NEW r \in Run, Purge(r)
        PROVE  PosInv'
    BY <2>10 DEF Purge, Set, PosInv, Finished
  <2>11. ASSUME NEW r \in Run, PurgeFails(r)
        PROVE  PosInv'
    BY <2>11 DEF PurgeFails, Set, Fails, PosInv, Finished
  <2>12. ASSUME NEW r \in Run, Register(r)
        PROVE  PosInv'
    BY <2>12 DEF Register, Set, PosInv, Finished
  <2>13. ASSUME NEW r \in Run, RegisterFails(r)
        PROVE  PosInv'
    BY <2>13 DEF RegisterFails, Set, Fails, PosInv, Finished
  <2>14. ASSUME NEW r \in Run, RemoveBase(r)
        PROVE  PosInv'
    BY <2>14 DEF RemoveBase, Set, PosInv, Finished
  <2>15. ASSUME NEW r \in Run, Killed(r)
        PROVE  PosInv'
    BY <2>15 DEF Killed, Set, Fails, PosInv, Finished
  <2>16. ASSUME NEW r \in Run, KilledInTool(r)
        PROVE  PosInv'
    BY <2>16 DEF KilledInTool, Set, Fails, PosInv, Finished
  <2>17. ASSUME NEW r \in Run, KilledInRemove(r)
        PROVE  PosInv'
    BY <2>17 DEF KilledInRemove, Set, Fails, PosInv, Finished
  <2>18. ASSUME NEW c \in Compressor, StartCompress(c)
        PROVE  PosInv'
    BY <2>18 DEF StartCompress, backup, Set, PosInv, Finished
  <2>19. ASSUME NEW c \in Compressor, NEW b \in Run, Skip(c, b)
        PROVE  PosInv'
    BY <2>19 DEF Skip, backup, Set, PosInv, Finished
  <2>20. ASSUME NEW c \in Compressor, NEW b \in Run, Open(c, b)
        PROVE  PosInv'
    BY <2>20 DEF Open, backup, Set, PosInv, Finished
  <2>21. ASSUME NEW c \in Compressor, Copied(c)
        PROVE  PosInv'
    BY <2>21 DEF Copied, backup, Set, PosInv, Finished
  <2>22. ASSUME NEW c \in Compressor, PipeFails(c)
        PROVE  PosInv'
    BY <2>22 DEF PipeFails, backup, Set, PosInv, Finished
  <2>23. ASSUME NEW c \in Compressor, CopyFails(c)
        PROVE  PosInv'
    BY <2>23 DEF CopyFails, backup, Set, PosInv, Finished
  <2>24. ASSUME NEW c \in Compressor, Remove(c)
        PROVE  PosInv'
    BY <2>24 DEF Remove, backup, Set, PosInv, Finished
  <2>25. ASSUME NEW c \in Compressor, Removed(c)
        PROVE  PosInv'
    BY <2>25 DEF Removed, backup, Set, PosInv, Finished
  <2>26. ASSUME NEW c \in Compressor, EndCompress(c)
        PROVE  PosInv'
    BY <2>26 DEF EndCompress, backup, Set, PosInv, Finished
  <2>27. ASSUME NEW c \in Compressor, KilledCompress(c)
        PROVE  PosInv'
    BY <2>27 DEF KilledCompress, backup, Set, PosInv, Finished
  <2>28. ASSUME NEW c \in Compressor, KilledRemoving(c)
        PROVE  PosInv'
    BY <2>28 DEF KilledRemoving, backup, Set, PosInv, Finished
  <2>29. ASSUME NEW b \in Run, ExpireImage(b)
        PROVE  PosInv'
    BY <2>29 DEF ExpireImage, backup, Set, PosInv, Finished
  <2>30. ASSUME NEW b \in Run, ExpireFiles(b)
        PROVE  PosInv'
    BY <2>30 DEF ExpireFiles, backup, Set, PosInv, Finished
  <2>31. ASSUME Tick
        PROVE  PosInv'
    BY <2>31 DEF Tick, backup, PosInv, Finished
  <2>32. CASE UNCHANGED vars
    BY <2>32
    DEF vars, tree, catalog, backup, compress, TypeOK, BackupTypes, PosInv,
        Finished
  <2> QED
    BY <2>1, <2>2, <2>3, <2>4, <2>5, <2>6, <2>7, <2>8, <2>9, <2>10, <2>11,
        <2>12, <2>13, <2>14, <2>15, <2>16, <2>17, <2>18, <2>19, <2>20, <2>21,
        <2>22, <2>23, <2>24, <2>25, <2>26, <2>27, <2>28, <2>29, <2>30, <2>31,
        <2>32
    DEF Next, DatabaseBackup, CompressDbxBak, RemoveDbxBak
<1> QED
  BY <1>1

(* Only a finished backup is registered.                                   *)
LEMMA RegStep == TypeOK /\ Fresh /\ RegInv /\ [Next]_vars => RegInv'
<1> SUFFICES ASSUME TypeOK, Fresh, RegInv, [Next]_vars PROVE RegInv'
  OBVIOUS
<1>1. RegInv'
  <2>1. ASSUME NEW r \in Run, StartFull(r)
        PROVE  RegInv'
    BY <2>1 DEF StartFull, catalog, Set, RegInv, Finished
  <2>2. ASSUME NEW r \in Run, StartIncremental(r)
        PROVE  RegInv'
    BY <2>2 DEF StartIncremental, tree, catalog, Set, RegInv, Finished
  <2>3. ASSUME NEW r \in Run, ReadDirectory(r)
        PROVE  RegInv'
    BY <2>3 DEF ReadDirectory, tree, catalog, Set, RegInv, Finished
  <2>4. ASSUME NEW r \in Run, ReadName(r)
        PROVE  RegInv'
    BY <2>4 DEF ReadName, tree, catalog, Set, RegInv, Finished
  <2>5. ASSUME NEW r \in Run, Launch(r)
        PROVE  RegInv'
    BY <2>5 DEF Launch, catalog, Set, RegInv, Finished
  <2>6. ASSUME NEW r \in Run, BaseRefused(r)
        PROVE  RegInv'
    BY <2>6 DEF BaseRefused, tree, catalog, Set, Fails, RegInv, Finished
  <2>7. ASSUME NEW r \in Run, ToolWrites(r)
        PROVE  RegInv'
    BY <2>7 DEF ToolWrites, catalog, backup, Set, RegInv, Finished
  <2>8. ASSUME NEW r \in Run, ToolSucceeds(r)
        PROVE  RegInv'
    <3>1. Cardinality({q \in Run : Finished(q)}) \in Nat
      BY RunAssumption, {q \in Run : Finished(q)} \in SUBSET Run, FS_Subset, FS_CardinalityType
    <3>2. \A b \in Run : Finished(b) => Finished(b)'
      BY <3>1, <2>8 DEF ToolSucceeds, Set, Finished, TypeOK, BackupTypes
    <3>3. register' = register
      BY <2>8 DEF ToolSucceeds, catalog
    <3>4. \A i \in 1 .. Len(register) : register[i][1] \in Run
      BY DEF TypeOK, TreeTypes
    <3> QED
      BY <3>2, <3>3, <3>4 DEF RegInv, Finished
  <2>9. ASSUME NEW r \in Run, ToolFails(r)
        PROVE  RegInv'
    BY <2>9 DEF ToolFails, catalog, Set, Fails, RegInv, Finished
  <2>10. ASSUME NEW r \in Run, Purge(r)
        PROVE  RegInv'
    BY <2>10 DEF Purge, tree, Set, RegInv, Finished
  <2>11. ASSUME NEW r \in Run, PurgeFails(r)
        PROVE  RegInv'
    BY <2>11 DEF PurgeFails, tree, catalog, Set, Fails, RegInv, Finished
  <2>12. ASSUME NEW r \in Run, Register(r)
        PROVE  RegInv'
    <3>1. Finished(r) /\ pos' = pos
      BY <2>12 DEF Register, Fresh
    <3>2. register' = Append(register, <<r, rname[r]>>)
      BY <2>12 DEF Register
    <3>3. rname[r] \in Run \cup {None}
      BY DEF TypeOK, BackupTypes
    <3> QED
      BY <3>1, <3>2, <3>3 DEF RegInv, Finished, TypeOK, TreeTypes
  <2>13. ASSUME NEW r \in Run, RegisterFails(r)
        PROVE  RegInv'
    BY <2>13 DEF RegisterFails, tree, catalog, Set, Fails, RegInv, Finished
  <2>14. ASSUME NEW r \in Run, RemoveBase(r)
        PROVE  RegInv'
    BY <2>14 DEF RemoveBase, catalog, Set, RegInv, Finished
  <2>15. ASSUME NEW r \in Run, Killed(r)
        PROVE  RegInv'
    BY <2>15 DEF Killed, tree, catalog, Set, Fails, RegInv, Finished
  <2>16. ASSUME NEW r \in Run, KilledInTool(r)
        PROVE  RegInv'
    BY <2>16 DEF KilledInTool, catalog, Set, Fails, RegInv, Finished
  <2>17. ASSUME NEW r \in Run, KilledInRemove(r)
        PROVE  RegInv'
    BY <2>17 DEF KilledInRemove, catalog, Set, Fails, RegInv, Finished
  <2>18. ASSUME NEW c \in Compressor, StartCompress(c)
        PROVE  RegInv'
    BY <2>18 DEF StartCompress, tree, catalog, backup, Set, RegInv, Finished
  <2>19. ASSUME NEW c \in Compressor, NEW b \in Run, Skip(c, b)
        PROVE  RegInv'
    BY <2>19 DEF Skip, tree, catalog, backup, Set, RegInv, Finished
  <2>20. ASSUME NEW c \in Compressor, NEW b \in Run, Open(c, b)
        PROVE  RegInv'
    BY <2>20 DEF Open, catalog, backup, Set, RegInv, Finished
  <2>21. ASSUME NEW c \in Compressor, Copied(c)
        PROVE  RegInv'
    BY <2>21 DEF Copied, catalog, backup, Set, RegInv, Finished
  <2>22. ASSUME NEW c \in Compressor, PipeFails(c)
        PROVE  RegInv'
    BY <2>22 DEF PipeFails, catalog, backup, Set, RegInv, Finished
  <2>23. ASSUME NEW c \in Compressor, CopyFails(c)
        PROVE  RegInv'
    BY <2>23 DEF CopyFails, tree, catalog, backup, Set, RegInv, Finished
  <2>24. ASSUME NEW c \in Compressor, Remove(c)
        PROVE  RegInv'
    BY <2>24 DEF Remove, catalog, backup, Set, RegInv, Finished
  <2>25. ASSUME NEW c \in Compressor, Removed(c)
        PROVE  RegInv'
    BY <2>25 DEF Removed, catalog, backup, Set, RegInv, Finished
  <2>26. ASSUME NEW c \in Compressor, EndCompress(c)
        PROVE  RegInv'
    BY <2>26 DEF EndCompress, tree, catalog, backup, Set, RegInv, Finished
  <2>27. ASSUME NEW c \in Compressor, KilledCompress(c)
        PROVE  RegInv'
    BY <2>27 DEF KilledCompress, tree, catalog, backup, Set, RegInv, Finished
  <2>28. ASSUME NEW c \in Compressor, KilledRemoving(c)
        PROVE  RegInv'
    BY <2>28 DEF KilledRemoving, tree, catalog, backup, Set, RegInv, Finished
  <2>29. ASSUME NEW b \in Run, ExpireImage(b)
        PROVE  RegInv'
    BY <2>29 DEF ExpireImage, catalog, backup, Set, RegInv, Finished
  <2>30. ASSUME NEW b \in Run, ExpireFiles(b)
        PROVE  RegInv'
    BY <2>30 DEF ExpireFiles, catalog, backup, Set, RegInv, Finished
  <2>31. ASSUME Tick
        PROVE  RegInv'
    BY <2>31 DEF Tick, tree, catalog, backup, RegInv, Finished
  <2>32. CASE UNCHANGED vars
    BY <2>32
    DEF vars, tree, catalog, backup, compress, TypeOK, TreeTypes,
        BackupTypes, RegInv, Finished
  <2> QED
    BY <2>1, <2>2, <2>3, <2>4, <2>5, <2>6, <2>7, <2>8, <2>9, <2>10, <2>11,
        <2>12, <2>13, <2>14, <2>15, <2>16, <2>17, <2>18, <2>19, <2>20, <2>21,
        <2>22, <2>23, <2>24, <2>25, <2>26, <2>27, <2>28, <2>29, <2>30, <2>31,
        <2>32
    DEF Next, DatabaseBackup, CompressDbxBak, RemoveDbxBak
<1> QED
  BY <1>1

(* `rm -rf` gets a directory and a name, and the name is that of an older  *)
(* full backup: a base, once read, stays in the register, and the backup   *)
(* made upon it is numbered after it.                                      *)
THEOREM OnlyABaseGoes == Spec => []OnlyABaseIsRemoved
<1> DEFINE Inv == Fresh /\ PosInv /\ RegInv /\ BaseInv
<1>1. Init => Inv
  <2> SUFFICES ASSUME Init PROVE Inv
    OBVIOUS
  <2>1. Cardinality({q \in Run : Finished(q)}) = 0
    BY {q \in Run : Finished(q)} = {}, FS_EmptySet DEF Init, Finished
  <2>2. Fresh /\ BaseInv
    BY DEF Init, Fresh, NotStarted, Unfinished, Finished, BaseInv
  <2>3. PosInv
    BY <2>1 DEF Init, PosInv
  <2>4. RegInv
    BY Len(<< >>) = 0 DEF Init, RegInv
  <2> QED
    BY <2>2, <2>3, <2>4
<1>2. TypeOK /\ Inv /\ [Next]_vars => BaseInv'
  <2> SUFFICES ASSUME TypeOK, Fresh, PosInv, RegInv, BaseInv, [Next]_vars
               PROVE  BaseInv'
    OBVIOUS
  <2>1. ASSUME NEW r \in Run, StartFull(r)
        PROVE  BaseInv'
    BY <2>1
    DEF StartFull, MakeDirectory, Set, catalog, compress, TypeOK,
        BackupTypes, BaseInv, Fulls
  <2>2. ASSUME NEW r \in Run, StartIncremental(r)
        PROVE  BaseInv'
    BY <2>2
    DEF StartIncremental, Set, tree, catalog, compress, TypeOK, BackupTypes,
        BaseInv, Fulls
  <2>3. ASSUME NEW r \in Run, ReadDirectory(r)
        PROVE  BaseInv'
    BY <2>3
    DEF ReadDirectory, Happens, Set, tree, catalog, compress, TypeOK, BackupTypes,
        BaseInv, Fulls
  <2>4. ASSUME NEW r \in Run, ReadName(r)
        PROVE  BaseInv'
    <3>1. NewestFull # None => \E i \in Fulls : register[i][1] = NewestFull
      BY NewestFullIsRegistered DEF TypeOK, TreeTypes
    <3> QED
      BY <3>1, <2>4 DEF ReadName, Happens, Set, TypeOK, BackupTypes, BaseInv, Fulls, tree, catalog
  <2>5. ASSUME NEW r \in Run, Launch(r)
        PROVE  BaseInv'
    BY <2>5
    DEF Launch, MakeDirectory, Set, catalog, compress, TypeOK, BackupTypes,
        BaseInv, Fulls
  <2>6. ASSUME NEW r \in Run, BaseRefused(r)
        PROVE  BaseInv'
    BY <2>6
    DEF BaseRefused, Fails, Set, tree, catalog, compress, TypeOK,
        BackupTypes, BaseInv, Fulls
  <2>7. ASSUME NEW r \in Run, ToolWrites(r)
        PROVE  BaseInv'
    BY <2>7
    DEF ToolWrites, Set, catalog, backup, compress, TypeOK, BackupTypes,
        BaseInv, Fulls
  <2>8. ASSUME NEW r \in Run, ToolSucceeds(r)
        PROVE  BaseInv'
    <3> DEFINE n == Cardinality({b \in Run : Finished(b)})
    <3>1. n \in Nat
      BY RunAssumption, {b \in Run : Finished(b)} \in SUBSET Run, FS_Subset, FS_CardinalityType
    <3>2. /\ pos[r] = 0 /\ bpc[r] \in {"full", "incremental"}
          /\ pos' = [pos EXCEPT ![r] = 1 + n]
          /\ bpc' = [bpc EXCEPT ![r] = IF bpc[r] = "full" THEN "purge" ELSE "register"]
          /\ rdir' = rdir /\ rname' = rname /\ register' = register
      BY <2>8 DEF ToolSucceeds, Set, catalog, Fresh, Unfinished
    <3>3. \A b \in Run : pos[b] <= n
      BY DEF PosInv
    <3>4. \A q \in Run : rname[q] # None => rname[q] \in Run /\ rname[q] # r
      <4> SUFFICES ASSUME NEW q \in Run, rname[q] # None PROVE rname[q] \in Run /\ rname[q] # r
        OBVIOUS
      <4>1. PICK i \in Fulls : register[i][1] = rname[q]
        BY DEF BaseInv
      <4>2. pos[rname[q]] # 0
        BY <4>1 DEF RegInv, Finished, Fulls
      <4> QED
        BY <3>2, <4>2 DEF TypeOK, BackupTypes
    <3> HIDE DEF n
    <3>5. ASSUME NEW q \in Run, bpc'[q] \in {"register", "remove"}, rname[q] # None
          PROVE  pos'[rname[q]] < pos'[q]
      <4>1. CASE q = r
        <5>1. pos'[r] = 1 + n /\ pos'[rname[q]] = pos[rname[q]]
          BY <3>2, <3>4, <3>5 DEF TypeOK, BackupTypes
        <5>2. pos[rname[q]] <= n /\ pos[rname[q]] \in Nat
          BY <3>3, <3>4, <3>5 DEF TypeOK, BackupTypes
        <5> QED
          BY <3>1, <4>1, <5>1, <5>2
      <4>2. CASE q # r
        BY <3>2, <3>4, <3>5, <4>2 DEF BaseInv, TypeOK, BackupTypes
      <4> QED
        BY <4>1, <4>2
    <3> QED
      BY <3>2, <3>5 DEF BaseInv, Fulls, TypeOK, BackupTypes
  <2>9. ASSUME NEW r \in Run, ToolFails(r)
        PROVE  BaseInv'
    BY <2>9
    DEF ToolFails, Happens, Set, Fails, catalog, compress, TypeOK,
        BackupTypes, BaseInv, Fulls
  <2>10. ASSUME NEW r \in Run, Purge(r)
        PROVE  BaseInv'
    BY <2>10
    DEF Purge, Set, tree, compress, TypeOK, BackupTypes, BaseInv, Fulls
  <2>11. ASSUME NEW r \in Run, PurgeFails(r)
        PROVE  BaseInv'
    BY <2>11
    DEF PurgeFails, Happens, Fails, Set, tree, catalog, compress, TypeOK,
        BackupTypes, BaseInv, Fulls
  <2>12. ASSUME NEW r \in Run, Register(r)
        PROVE  BaseInv'
    <3>1. register' = Append(register, <<r, rname[r]>>)
      BY <2>12 DEF Register
    <3>2. rname[r] \in Run \cup {None}
      BY DEF TypeOK, BackupTypes
    <3>3. \A i \in Fulls : i \in Fulls' /\ register'[i] = register[i]
      BY <3>1, <3>2 DEF Fulls, TypeOK, TreeTypes
    <3>4. ASSUME NEW q \in Run, rname[q] # None
          PROVE  \E i \in Fulls' : register'[i][1] = rname[q]
      <4>1. PICK i \in Fulls : register[i][1] = rname[q]
        BY <3>4 DEF BaseInv
      <4>2. i \in Fulls' /\ register'[i][1] = rname[q]
        BY <3>3, <4>1
      <4> QED
        BY <4>2
    <3>5. /\ bpc[r] = "register" /\ rdir' = rdir /\ rname' = rname /\ pos' = pos
          /\ \A q \in Run : bpc'[q] = IF q # r THEN bpc[q]
                             ELSE IF rname[r] = None THEN "done" ELSE "remove"
      BY <2>12 DEF Register, Set, TypeOK, BackupTypes
    <3> QED
      BY <3>4, <3>5 DEF BaseInv
  <2>13. ASSUME NEW r \in Run, RegisterFails(r)
        PROVE  BaseInv'
    BY <2>13
    DEF RegisterFails, Happens, Fails, Set, tree, catalog, compress, TypeOK,
        BackupTypes, BaseInv, Fulls
  <2>14. ASSUME NEW r \in Run, RemoveBase(r)
        PROVE  BaseInv'
    BY <2>14
    DEF RemoveBase, Set, Because, catalog, compress, TypeOK, BackupTypes,
        BaseInv, Fulls
  <2>15. ASSUME NEW r \in Run, Killed(r)
        PROVE  BaseInv'
    BY <2>15
    DEF Killed, Happens, Fails, Set, tree, catalog, compress, TypeOK,
        BackupTypes, BaseInv, Fulls
  <2>16. ASSUME NEW r \in Run, KilledInTool(r)
        PROVE  BaseInv'
    BY <2>16
    DEF KilledInTool, Happens, Fails, Set, catalog, compress, TypeOK,
        BackupTypes, BaseInv, Fulls
  <2>17. ASSUME NEW r \in Run, KilledInRemove(r)
        PROVE  BaseInv'
    BY <2>17
    DEF KilledInRemove, Happens, Fails, Set, Because, catalog, compress,
        TypeOK, BackupTypes, BaseInv, Fulls
  <2>18. ASSUME NEW c \in Compressor, StartCompress(c)
        PROVE  BaseInv'
    BY <2>18
    DEF StartCompress, Set, tree, catalog, backup, TypeOK, BackupTypes,
        BaseInv, Fulls
  <2>19. ASSUME NEW c \in Compressor, NEW b \in Run, Skip(c, b)
        PROVE  BaseInv'
    BY <2>19
    DEF Skip, Set, tree, catalog, backup, TypeOK, BackupTypes, BaseInv,
        Fulls
  <2>20. ASSUME NEW c \in Compressor, NEW b \in Run, Open(c, b)
        PROVE  BaseInv'
    BY <2>20
    DEF Open, Set, AlsoAt, catalog, backup, TypeOK, BackupTypes, BaseInv,
        Fulls
  <2>21. ASSUME NEW c \in Compressor, Copied(c)
        PROVE  BaseInv'
    BY <2>21
    DEF Copied, Set, catalog, backup, TypeOK, BackupTypes, BaseInv, Fulls
  <2>22. ASSUME NEW c \in Compressor, PipeFails(c)
        PROVE  BaseInv'
    BY <2>22
    DEF PipeFails, Happens, Set, Because, catalog, backup, TypeOK,
        BackupTypes, BaseInv, Fulls
  <2>23. ASSUME NEW c \in Compressor, CopyFails(c)
        PROVE  BaseInv'
    BY <2>23
    DEF CopyFails, Happens, StopCompress, Set, tree, catalog, backup, TypeOK,
        BackupTypes, BaseInv, Fulls
  <2>24. ASSUME NEW c \in Compressor, Remove(c)
        PROVE  BaseInv'
    BY <2>24
    DEF Remove, Set, catalog, backup, TypeOK, BackupTypes, BaseInv, Fulls
  <2>25. ASSUME NEW c \in Compressor, Removed(c)
        PROVE  BaseInv'
    BY <2>25
    DEF Removed, Set, catalog, backup, TypeOK, BackupTypes, BaseInv, Fulls
  <2>26. ASSUME NEW c \in Compressor, EndCompress(c)
        PROVE  BaseInv'
    BY <2>26
    DEF EndCompress, StopCompress, Set, tree, catalog, backup, TypeOK,
        BackupTypes, BaseInv, Fulls
  <2>27. ASSUME NEW c \in Compressor, KilledCompress(c)
        PROVE  BaseInv'
    BY <2>27
    DEF KilledCompress, Happens, StopCompress, Set, tree, catalog, backup,
        TypeOK, BackupTypes, BaseInv, Fulls
  <2>28. ASSUME NEW c \in Compressor, KilledRemoving(c)
        PROVE  BaseInv'
    BY <2>28
    DEF KilledRemoving, Happens, StopCompress, Set, Because, tree, catalog,
        backup, TypeOK, BackupTypes, BaseInv, Fulls
  <2>29. ASSUME NEW b \in Run, ExpireImage(b)
        PROVE  BaseInv'
    BY <2>29
    DEF ExpireImage, Set, catalog, backup, compress, TypeOK, BackupTypes,
        BaseInv, Fulls
  <2>30. ASSUME NEW b \in Run, ExpireFiles(b)
        PROVE  BaseInv'
    BY <2>30
    DEF ExpireFiles, Set, catalog, backup, compress, TypeOK, BackupTypes,
        BaseInv, Fulls
  <2>31. ASSUME Tick
        PROVE  BaseInv'
    BY <2>31
    DEF Tick, tree, catalog, backup, compress, TypeOK, BackupTypes, BaseInv,
        Fulls
  <2>32. CASE UNCHANGED vars
    BY <2>32
    DEF vars, tree, catalog, backup, compress, TypeOK, BackupTypes, BaseInv,
        Fulls
  <2> QED
    BY <2>1, <2>2, <2>3, <2>4, <2>5, <2>6, <2>7, <2>8, <2>9, <2>10, <2>11,
        <2>12, <2>13, <2>14, <2>15, <2>16, <2>17, <2>18, <2>19, <2>20, <2>21,
        <2>22, <2>23, <2>24, <2>25, <2>26, <2>27, <2>28, <2>29, <2>30, <2>31,
        <2>32
    DEF Next, DatabaseBackup, CompressDbxBak, RemoveDbxBak
<1>3. TypeOK /\ Inv /\ [Next]_vars => Inv'
  BY <1>2, FreshStep, PosStep, RegStep
<1>4. TypeOK /\ Inv => OnlyABaseIsRemoved
  <2> SUFFICES ASSUME TypeOK, Inv, NEW r \in Run, bpc[r] = "remove"
               PROVE  /\ rdir[r]
                      /\ \E i \in Fulls : register[i][1] = rname[r]
                      /\ 0 < pos[rname[r]] /\ pos[rname[r]] < pos[r]
    BY DEF OnlyABaseIsRemoved
  <2>1. rname[r] # None
    BY DEF TypeOK, BackupTypes
  <2>2. PICK i \in Fulls : register[i][1] = rname[r]
    BY <2>1 DEF BaseInv
  <2>3. pos[rname[r]] # 0 /\ rname[r] \in Run
    BY <2>1, <2>2 DEF RegInv, Finished, Fulls, TypeOK, BackupTypes
  <2>4. 0 < pos[rname[r]]
    BY <2>3 DEF TypeOK, BackupTypes
  <2> QED
    BY <2>1, <2>2, <2>4 DEF BaseInv
<1> QED
  BY <1>1, <1>3, <1>4, RotationTypes, PTL DEF Spec

-----------------------------------------------------------------------------
(* What the actions that complete a backup, or that may cost one, do to the*)
(* variables below.                                                        *)
LEMMA ToolSucceedsEffect ==
    ASSUME TypeOK, Fresh, NEW r \in Run, ToolSucceeds(r)
    PROVE  /\ pos[r] = 0 /\ bpc[r] \in {"full", "incremental"} /\ dir[r] \in {"open", "torn"}
           /\ \A b \in Run : pos'[b] # 0 <=> pos[b] # 0 \/ b = r
           /\ dir' = [dir EXCEPT ![r] = IF dir[r] = "open" THEN "whole" ELSE "torn"]
           /\ \A b \in Run : bpc'[b] = IF b # r THEN bpc[b]
                                       ELSE IF bpc[r] = "full" THEN "purge" ELSE "register"
           /\ UNCHANGED <<day, img, mtime, begun, cpc, cur, cok, logs, reasons>>
<1> DEFINE n == Cardinality({b \in Run : Finished(b)})
<1>1. n \in Nat
  BY RunAssumption, {b \in Run : Finished(b)} \in SUBSET Run, FS_Subset, FS_CardinalityType
<1>2. pos' = [pos EXCEPT ![r] = 1 + n]
  BY DEF ToolSucceeds, Set
<1> HIDE DEF n
<1>3. \A b \in Run : pos'[b] # 0 <=> pos[b] # 0 \/ b = r
  BY <1>1, <1>2 DEF TypeOK, BackupTypes
<1>4. pos[r] = 0
  BY DEF ToolSucceeds, Fresh, Unfinished
<1> QED
  BY <1>3, <1>4 DEF ToolSucceeds, Set, compress, catalog, TypeOK, BackupTypes

(* The base is taken from the shelf.                                       *)
LEMMA RemoveBaseEffect ==
    ASSUME TypeOK, NEW r \in Run, RemoveBase(r)
    PROVE  /\ rname[r] \in Run /\ bpc[r] = "remove" /\ reasons'[rname[r]] # {}
           /\ dir' = [dir EXCEPT ![rname[r]] = "none"]
           /\ ctime' = [ctime EXCEPT ![rname[r]] = 0]
           /\ bpc' = [bpc EXCEPT ![r] = "done"]
           /\ UNCHANGED <<day, img, mtime, pos, begun, cpc, cur, cok, logs>>
<1>1. rname[r] \in Run
  BY DEF RemoveBase, TypeOK, BackupTypes
<1>2. reasons'[rname[r]] # {}
  BY <1>1 DEF RemoveBase, Because, TypeOK
<1> QED
  BY <1>1, <1>2 DEF RemoveBase, Set, compress, catalog

(* The base is left with some of its files.                                *)
LEMMA KilledInRemoveEffect ==
    ASSUME TypeOK, NEW r \in Run, KilledInRemove(r)
    PROVE  /\ rname[r] \in Run /\ bpc[r] = "remove" /\ reasons'[rname[r]] # {}
           /\ dir[rname[r]] = "whole"
           /\ dir' = [dir EXCEPT ![rname[r]] = "torn"]
           /\ ctime' = [ctime EXCEPT ![rname[r]] = day]
           /\ bpc' = [bpc EXCEPT ![r] = "failed"]
           /\ UNCHANGED <<day, img, mtime, pos, begun, cpc, cur, cok, logs>>
<1>1. rname[r] \in Run
  BY DEF KilledInRemove, TypeOK, BackupTypes
<1>2. reasons'[rname[r]] # {}
  BY <1>1 DEF KilledInRemove, Because, TypeOK
<1> QED
  BY <1>1, <1>2 DEF KilledInRemove, Fails, Set, compress, catalog

(* The image is begun anew.                                                *)
LEMMA OpenEffect ==
    ASSUME TypeOK, NEW c \in Compressor, NEW b \in Run, Open(c, b)
    PROVE  /\ cpc[c] = "next" /\ dir[b] # "none"
           /\ cur' = [cur EXCEPT ![c] = b] /\ cpc' = [cpc EXCEPT ![c] = "write"]
           /\ img' = [img EXCEPT ![b] = "short"] /\ mtime' = [mtime EXCEPT ![b] = day]
           /\ dir[b] = "open" \/ AlsoAt(c, b) # {} => reasons'[b] # {}
           /\ AlsoAt(c, b) = {} => cok'[c] = (dir[b] = "whole")
           /\ \A q \in Compressor : q # c /\ q \notin AlsoAt(c, b) => cok'[q] = cok[q]
           /\ UNCHANGED <<day, dir, ctime, pos, begun, bpc, logs>>
<1>1. dir[b] = "open" => reasons'[b] # {}
  <2> HAVE dir[b] = "open"
  <2>1. "compressed early" \in {w \in {"compressed early"} : dir[b] = "open"}
    OBVIOUS
  <2> QED
    BY <2>1 DEF Open, TypeOK
<1>2. AlsoAt(c, b) # {} => reasons'[b] # {}
  <2> HAVE AlsoAt(c, b) # {}
  <2>1. "compressed twice" \in {w \in {"compressed twice"} : AlsoAt(c, b) # {}}
    OBVIOUS
  <2> QED
    BY <2>1 DEF Open, TypeOK
<1>3. /\ AlsoAt(c, b) = {} => cok'[c] = (dir[b] = "whole")
      /\ \A q \in Compressor : q # c /\ q \notin AlsoAt(c, b) => cok'[q] = cok[q]
  BY DEF Open, TypeOK, CompressTypes
<1> QED
  BY <1>1, <1>2, <1>3 DEF Open, Set, catalog, backup

(* The image is short, and nobody knows.                                   *)
LEMMA PipeFailsEffect ==
    ASSUME TypeOK, NEW c \in Compressor, PipeFails(c)
    PROVE  /\ cpc[c] = "write" /\ cur[c] \in Run /\ reasons'[cur[c]] # {}
           /\ img' = [img EXCEPT ![cur[c]] = "short"] /\ mtime' = [mtime EXCEPT ![cur[c]] = day]
           /\ cpc' = [cpc EXCEPT ![c] = "copied"] /\ cok' = [cok EXCEPT ![c] = FALSE]
           /\ UNCHANGED <<day, dir, ctime, pos, begun, bpc, cur, logs>>
<1>1. cur[c] \in Run
  BY DEF PipeFails, TypeOK, CompressTypes
<1>2. reasons'[cur[c]] # {}
  BY <1>1 DEF PipeFails, Because, TypeOK
<1> QED
  BY <1>1, <1>2 DEF PipeFails, Set, catalog, backup

(* A directory is left with some of its files, and its image.              *)
LEMMA KilledRemovingEffect ==
    ASSUME TypeOK, NEW c \in Compressor, KilledRemoving(c)
    PROVE  /\ cpc[c] = "removing" /\ cur[c] \in Run /\ reasons'[cur[c]] # {}
           /\ cpc' = [cpc EXCEPT ![c] = "idle"] /\ cok' = [cok EXCEPT ![c] = FALSE]
           /\ cur' = [cur EXCEPT ![c] = None]
           /\ UNCHANGED <<day, dir, ctime, img, mtime, pos, begun, bpc, logs>>
<1>1. cur[c] \in Run
  BY DEF KilledRemoving, TypeOK, CompressTypes
<1>2. reasons'[cur[c]] # {}
  BY <1>1 DEF KilledRemoving, Because, TypeOK
<1> QED
  BY <1>1, <1>2 DEF KilledRemoving, StopCompress, Set, tree, catalog, backup

-----------------------------------------------------------------------------
(* A run that has left the stages in which it has no directory.            *)
Started(b) == bpc[b] \notin NotStarted

(* What is whole was finished, and is not older than its backup.           *)
Dated ==
    /\ \A b \in Run : begun[b] <= day
    /\ \A b \in Run : dir[b] = "whole" => Finished(b)
    /\ \A b \in Run : img[b] = "whole" => Finished(b) /\ begun[b] <= mtime[b]

(* A backup that never will be finished.                                   *)
Stillborn(b) == pos[b] = 0 /\ bpc[b] = "failed"

(* There is an excuse for the loss of b, or there will be when b is        *)
(* finished, or it never will be.                                          *)
Settled(b) == \/ reasons[b] # {} \/ Excused(b) \/ Stillborn(b)
              \/ Started(b) /\ Old(begun[b])

At(c, b) == cur[c] = b /\ cpc[c] \in {"write", "copied", "removing"}

(* Two runs of CompressDbxBak.sh at one directory were noted.              *)
OneAtATime ==
    \A b \in Run, c, q \in Compressor : c # q =>
        (At(c, b) /\ At(q, b) => reasons[b] # {})

(* dd writes what a whole directory holds, to an image that is not whole   *)
(* before it ends.                                                         *)
WritesWhole ==
    \A c \in Compressor, b \in Run : At(c, b) /\ cpc[c] = "write" =>
        /\ (cok[c] /\ dir[b] = "whole") \/ Settled(b)
        /\ img[b] = "short" \/ reasons[b] # {}

(* A directory is removed only with a whole image beside it.               *)
ImageFirst ==
    \A c \in Compressor, b \in Run : At(c, b) /\ cpc[c] # "write" =>
        img[b] = "whole" \/ Settled(b)

(* A directory that misses files is being removed, or there is an excuse:  *)
(* also while innobackupex is still at work in it.                         *)
TornByRemoval ==
    \A b \in Run : dir[b] = "torn" =>
        Settled(b) \/ \E c \in Compressor : At(c, b) /\ cpc[c] = "removing"

(* What was finished can be restored, or there is an excuse.               *)
NothingLost == \A b \in Run : Finished(b) => Restorable(b) \/ Excused(b)

(* Days are numbers.                                                       *)
LEMMA DaysAreNumbers == Days \subseteq Nat
BY CalendarAssumption DEF Days

(* What no step undoes: time, a finished backup, the day it was begun, and *)
(* a failure.                                                              *)
Persists ==
    /\ day <= day'
    /\ \A b \in Run :
        /\ Finished(b) => Finished(b)'
        /\ Started(b) => Started(b)' /\ begun'[b] = begun[b]
        /\ Stillborn(b) => Stillborn(b)'
ReasonsStay == \A b \in Run : reasons[b] # {} => reasons'[b] # {}

(* What was finished stays finished.                                       *)
LEMMA PersistsStep == TypeOK /\ Fresh /\ [Next]_vars => Persists
<1> SUFFICES ASSUME TypeOK, Fresh, [Next]_vars PROVE Persists
  OBVIOUS
<1>0. TreeTypes /\ BackupTypes /\ CompressTypes
  BY DEF TypeOK
<1>1. Persists
  <2>1. ASSUME NEW r \in Run, StartFull(r)
        PROVE  Persists
    BY <2>1, <1>0, DaysAreNumbers
    DEF StartFull, MakeDirectory, Set, catalog, compress, TreeTypes,
        BackupTypes, Persists, Stillborn, Started, Fresh, NotStarted, Unfinished,
        Finished
  <2>2. ASSUME NEW r \in Run, StartIncremental(r)
        PROVE  Persists
    BY <2>2, <1>0, DaysAreNumbers
    DEF StartIncremental, Set, tree, catalog, compress, TreeTypes,
        BackupTypes, Persists, Stillborn, Started, Fresh, NotStarted, Unfinished,
        Finished
  <2>3. ASSUME NEW r \in Run, ReadDirectory(r)
        PROVE  Persists
    BY <2>3, <1>0, DaysAreNumbers
    DEF ReadDirectory, Happens, Set, tree, catalog, compress, TreeTypes, BackupTypes,
        Persists, Stillborn, Started, Fresh, NotStarted, Unfinished, Finished
  <2>4. ASSUME NEW r \in Run, ReadName(r)
        PROVE  Persists
    BY <2>4, <1>0, DaysAreNumbers
    DEF ReadName, Happens, Set, tree, catalog, compress, TreeTypes, BackupTypes,
        Persists, Stillborn, Started, Fresh, NotStarted, Unfinished, Finished
  <2>5. ASSUME NEW r \in Run, Launch(r)
        PROVE  Persists
    BY <2>5, <1>0, DaysAreNumbers
    DEF Launch, MakeDirectory, Set, catalog, compress, TreeTypes,
        BackupTypes, Persists, Stillborn, Started, Fresh, NotStarted, Unfinished,
        Finished
  <2>6. ASSUME NEW r \in Run, BaseRefused(r)
        PROVE  Persists
    BY <2>6, <1>0, DaysAreNumbers
    DEF BaseRefused, Fails, Set, tree, catalog, compress, TreeTypes,
        BackupTypes, Persists, Stillborn, Started, Fresh, NotStarted, Unfinished,
        Finished
  <2>7. ASSUME NEW r \in Run, ToolWrites(r)
        PROVE  Persists
    BY <2>7, <1>0, DaysAreNumbers
    DEF ToolWrites, Set, catalog, backup, compress, TreeTypes, BackupTypes,
        Persists, Stillborn, Started, Fresh, NotStarted, Unfinished, Finished
  <2>8. ASSUME NEW r \in Run, ToolSucceeds(r)
        PROVE  Persists
    BY <1>0, <2>8, ToolSucceedsEffect, DaysAreNumbers
    DEF TreeTypes, BackupTypes, Persists, Stillborn, Started, Fresh, NotStarted, Unfinished, Finished
  <2>9. ASSUME NEW r \in Run, ToolFails(r)
        PROVE  Persists
    BY <2>9, <1>0, DaysAreNumbers
    DEF ToolFails, Happens, Set, Fails, catalog, compress, TreeTypes,
        BackupTypes, Persists, Stillborn, Started, Fresh, NotStarted, Unfinished,
        Finished
  <2>10. ASSUME NEW r \in Run, Purge(r)
        PROVE  Persists
    BY <2>10, <1>0, DaysAreNumbers
    DEF Purge, Set, tree, compress, TreeTypes, BackupTypes, Persists,
        Stillborn, Started, Fresh, NotStarted, Unfinished, Finished
  <2>11. ASSUME NEW r \in Run, PurgeFails(r)
        PROVE  Persists
    BY <2>11, <1>0, DaysAreNumbers
    DEF PurgeFails, Happens, Fails, Set, tree, catalog, compress, TreeTypes,
        BackupTypes, Persists, Stillborn, Started, Fresh, NotStarted, Unfinished,
        Finished
  <2>12. ASSUME NEW r \in Run, Register(r)
        PROVE  Persists
    BY <2>12, <1>0, DaysAreNumbers
    DEF Register, Set, tree, compress, TreeTypes, BackupTypes, Persists,
        Stillborn, Started, Fresh, NotStarted, Unfinished, Finished
  <2>13. ASSUME NEW r \in Run, RegisterFails(r)
        PROVE  Persists
    BY <2>13, <1>0, DaysAreNumbers
    DEF RegisterFails, Happens, Fails, Set, tree, catalog, compress,
        TreeTypes, BackupTypes, Persists, Stillborn, Started, Fresh, NotStarted,
        Unfinished, Finished
  <2>14. ASSUME NEW r \in Run, RemoveBase(r)
        PROVE  Persists
    BY <1>0, <2>14, RemoveBaseEffect, DaysAreNumbers
    DEF TreeTypes, BackupTypes, Persists, Stillborn, Started, Fresh, NotStarted, Unfinished, Finished
  <2>15. ASSUME NEW r \in Run, Killed(r)
        PROVE  Persists
    BY <2>15, <1>0, DaysAreNumbers
    DEF Killed, Happens, Fails, Set, tree, catalog, compress, TreeTypes,
        BackupTypes, Persists, Stillborn, Started, Fresh, NotStarted, Unfinished,
        Finished
  <2>16. ASSUME NEW r \in Run, KilledInTool(r)
        PROVE  Persists
    BY <2>16, <1>0, DaysAreNumbers
    DEF KilledInTool, Happens, Fails, Set, catalog, compress, TreeTypes,
        BackupTypes, Persists, Stillborn, Started, Fresh, NotStarted, Unfinished,
        Finished
  <2>17. ASSUME NEW r \in Run, KilledInRemove(r)
        PROVE  Persists
    BY <1>0, <2>17, KilledInRemoveEffect, DaysAreNumbers
    DEF TreeTypes, BackupTypes, Persists, Stillborn, Started, Fresh, NotStarted, Unfinished, Finished
  <2>18. ASSUME NEW c \in Compressor, StartCompress(c)
        PROVE  Persists
    BY <2>18, <1>0, DaysAreNumbers
    DEF StartCompress, Set, tree, catalog, backup, TreeTypes, BackupTypes,
        Persists, Stillborn, Started, Fresh, NotStarted, Unfinished, Finished
  <2>19. ASSUME NEW c \in Compressor, NEW b \in Run, Skip(c, b)
        PROVE  Persists
    BY <2>19, <1>0, DaysAreNumbers
    DEF Skip, Set, tree, catalog, backup, TreeTypes, BackupTypes, Persists,
        Stillborn, Started, Fresh, NotStarted, Unfinished, Finished
  <2>20. ASSUME NEW c \in Compressor, NEW b \in Run, Open(c, b)
        PROVE  Persists
    BY <1>0, <2>20, OpenEffect, DaysAreNumbers
    DEF TreeTypes, BackupTypes, Persists, Stillborn, Started, Fresh, NotStarted, Unfinished, Finished
  <2>21. ASSUME NEW c \in Compressor, Copied(c)
        PROVE  Persists
    BY <2>21, <1>0, DaysAreNumbers
    DEF Copied, Set, catalog, backup, TreeTypes, BackupTypes, Persists,
        Stillborn, Started, Fresh, NotStarted, Unfinished, Finished
  <2>22. ASSUME NEW c \in Compressor, PipeFails(c)
        PROVE  Persists
    <3>1. UNCHANGED <<day, pos, begun, dir, bpc>> /\ day \in Nat
      BY <1>0, <2>22, PipeFailsEffect, DaysAreNumbers DEF TreeTypes
    <3> QED
      BY <3>1 DEF Persists, Stillborn, Started, Finished
  <2>23. ASSUME NEW c \in Compressor, CopyFails(c)
        PROVE  Persists
    BY <2>23, <1>0, DaysAreNumbers
    DEF CopyFails, Happens, StopCompress, Set, tree, catalog, backup,
        TreeTypes, BackupTypes, Persists, Stillborn, Started, Fresh, NotStarted,
        Unfinished, Finished
  <2>24. ASSUME NEW c \in Compressor, Remove(c)
        PROVE  Persists
    BY <2>24, <1>0, DaysAreNumbers
    DEF Remove, Set, catalog, backup, TreeTypes, BackupTypes, Persists,
        Stillborn, Started, Fresh, NotStarted, Unfinished, Finished
  <2>25. ASSUME NEW c \in Compressor, Removed(c)
        PROVE  Persists
    BY <2>25, <1>0, DaysAreNumbers
    DEF Removed, Set, catalog, backup, TreeTypes, BackupTypes, Persists,
        Stillborn, Started, Fresh, NotStarted, Unfinished, Finished
  <2>26. ASSUME NEW c \in Compressor, EndCompress(c)
        PROVE  Persists
    BY <2>26, <1>0, DaysAreNumbers
    DEF EndCompress, StopCompress, Set, tree, catalog, backup, TreeTypes,
        BackupTypes, Persists, Stillborn, Started, Fresh, NotStarted, Unfinished,
        Finished
  <2>27. ASSUME NEW c \in Compressor, KilledCompress(c)
        PROVE  Persists
    BY <2>27, <1>0, DaysAreNumbers
    DEF KilledCompress, Happens, StopCompress, Set, tree, catalog, backup,
        TreeTypes, BackupTypes, Persists, Stillborn, Started, Fresh, NotStarted,
        Unfinished, Finished
  <2>28. ASSUME NEW c \in Compressor, KilledRemoving(c)
        PROVE  Persists
    BY <1>0, <2>28, KilledRemovingEffect, DaysAreNumbers
    DEF TreeTypes, BackupTypes, Persists, Stillborn, Started, Fresh, NotStarted, Unfinished, Finished
  <2>29. ASSUME NEW b \in Run, ExpireImage(b)
        PROVE  Persists
    BY <2>29, <1>0, DaysAreNumbers
    DEF ExpireImage, Set, catalog, backup, compress, TreeTypes, BackupTypes,
        Persists, Stillborn, Started, Fresh, NotStarted, Unfinished, Finished
  <2>30. ASSUME NEW b \in Run, ExpireFiles(b)
        PROVE  Persists
    BY <2>30, <1>0, DaysAreNumbers
    DEF ExpireFiles, Set, catalog, backup, compress, TreeTypes, BackupTypes,
        Persists, Stillborn, Started, Fresh, NotStarted, Unfinished, Finished
  <2>31. ASSUME Tick
        PROVE  Persists
    <3>1. day <= day' /\ UNCHANGED <<pos, begun, dir, bpc>>
      BY <1>0, <2>31, CalendarAssumption DEF Tick, tree, backup, TreeTypes, Days
    <3> QED
      BY <3>1 DEF Persists, Stillborn, Started, Finished
  <2>32. CASE UNCHANGED vars
    BY <2>32, <1>0, DaysAreNumbers
    DEF vars, tree, catalog, backup, compress, TreeTypes, BackupTypes,
        Persists, Stillborn, Started, Fresh, NotStarted, Unfinished, Finished
  <2> QED
    BY <2>1, <2>2, <2>3, <2>4, <2>5, <2>6, <2>7, <2>8, <2>9, <2>10, <2>11,
        <2>12, <2>13, <2>14, <2>15, <2>16, <2>17, <2>18, <2>19, <2>20, <2>21,
        <2>22, <2>23, <2>24, <2>25, <2>26, <2>27, <2>28, <2>29, <2>30, <2>31,
        <2>32
    DEF Next, DatabaseBackup, CompressDbxBak, RemoveDbxBak
<1> QED
  BY <1>1

(* A reason stays one.                                                     *)
LEMMA ReasonsStep == TypeOK /\ [Next]_vars => ReasonsStay
<1> SUFFICES ASSUME TypeOK, [Next]_vars PROVE ReasonsStay
  OBVIOUS
<1>1. ReasonsStay
  <2>1. ASSUME NEW r \in Run, StartFull(r)
        PROVE  ReasonsStay
    BY <2>1 DEF StartFull, ReasonsStay, TypeOK, tree, catalog, backup, compress
  <2>2. ASSUME NEW r \in Run, StartIncremental(r)
        PROVE  ReasonsStay
    BY <2>2 DEF StartIncremental, ReasonsStay, TypeOK, tree, catalog, backup, compress
  <2>3. ASSUME NEW r \in Run, ReadDirectory(r)
        PROVE  ReasonsStay
    BY <2>3 DEF ReadDirectory, ReasonsStay, TypeOK, tree, catalog, backup, compress
  <2>4. ASSUME NEW r \in Run, ReadName(r)
        PROVE  ReasonsStay
    BY <2>4 DEF ReadName, ReasonsStay, TypeOK, tree, catalog, backup, compress
  <2>5. ASSUME NEW r \in Run, Launch(r)
        PROVE  ReasonsStay
    BY <2>5 DEF Launch, ReasonsStay, TypeOK, tree, catalog, backup, compress
  <2>6. ASSUME NEW r \in Run, BaseRefused(r)
        PROVE  ReasonsStay
    BY <2>6 DEF BaseRefused, ReasonsStay, TypeOK, tree, catalog, backup, compress
  <2>7. ASSUME NEW r \in Run, ToolWrites(r)
        PROVE  ReasonsStay
    BY <2>7 DEF ToolWrites, ReasonsStay, TypeOK, tree, catalog, backup, compress
  <2>8. ASSUME NEW r \in Run, ToolSucceeds(r)
        PROVE  ReasonsStay
    BY <2>8 DEF ToolSucceeds, ReasonsStay, TypeOK, tree, catalog, backup, compress
  <2>9. ASSUME NEW r \in Run, ToolFails(r)
        PROVE  ReasonsStay
    BY <2>9 DEF ToolFails, ReasonsStay, TypeOK, tree, catalog, backup, compress
  <2>10. ASSUME NEW r \in Run, Purge(r)
        PROVE  ReasonsStay
    BY <2>10 DEF Purge, ReasonsStay, TypeOK, tree, catalog, backup, compress
  <2>11. ASSUME NEW r \in Run, PurgeFails(r)
        PROVE  ReasonsStay
    BY <2>11 DEF PurgeFails, ReasonsStay, TypeOK, tree, catalog, backup, compress
  <2>12. ASSUME NEW r \in Run, Register(r)
        PROVE  ReasonsStay
    BY <2>12 DEF Register, ReasonsStay, TypeOK, tree, catalog, backup, compress
  <2>13. ASSUME NEW r \in Run, RegisterFails(r)
        PROVE  ReasonsStay
    BY <2>13 DEF RegisterFails, ReasonsStay, TypeOK, tree, catalog, backup, compress
  <2>14. ASSUME NEW r \in Run, RemoveBase(r)
        PROVE  ReasonsStay
    BY <2>14 DEF RemoveBase, Because, ReasonsStay, TypeOK, tree, catalog, backup, compress
  <2>15. ASSUME NEW r \in Run, Killed(r)
        PROVE  ReasonsStay
    BY <2>15 DEF Killed, ReasonsStay, TypeOK, tree, catalog, backup, compress
  <2>16. ASSUME NEW r \in Run, KilledInTool(r)
        PROVE  ReasonsStay
    BY <2>16 DEF KilledInTool, ReasonsStay, TypeOK, tree, catalog, backup, compress
  <2>17. ASSUME NEW r \in Run, KilledInRemove(r)
        PROVE  ReasonsStay
    BY <2>17 DEF KilledInRemove, Because, ReasonsStay, TypeOK, tree, catalog, backup, compress
  <2>18. ASSUME NEW c \in Compressor, StartCompress(c)
        PROVE  ReasonsStay
    BY <2>18 DEF StartCompress, ReasonsStay, TypeOK, tree, catalog, backup, compress
  <2>19. ASSUME NEW c \in Compressor, NEW b \in Run, Skip(c, b)
        PROVE  ReasonsStay
    BY <2>19 DEF Skip, ReasonsStay, TypeOK, tree, catalog, backup, compress
  <2>20. ASSUME NEW c \in Compressor, NEW b \in Run, Open(c, b)
        PROVE  ReasonsStay
    BY <2>20 DEF Open, ReasonsStay, TypeOK, tree, catalog, backup, compress
  <2>21. ASSUME NEW c \in Compressor, Copied(c)
        PROVE  ReasonsStay
    BY <2>21 DEF Copied, ReasonsStay, TypeOK, tree, catalog, backup, compress
  <2>22. ASSUME NEW c \in Compressor, PipeFails(c)
        PROVE  ReasonsStay
    BY <2>22 DEF PipeFails, Because, ReasonsStay, TypeOK, tree, catalog, backup, compress
  <2>23. ASSUME NEW c \in Compressor, CopyFails(c)
        PROVE  ReasonsStay
    BY <2>23 DEF CopyFails, ReasonsStay, TypeOK, tree, catalog, backup, compress
  <2>24. ASSUME NEW c \in Compressor, Remove(c)
        PROVE  ReasonsStay
    BY <2>24 DEF Remove, ReasonsStay, TypeOK, tree, catalog, backup, compress
  <2>25. ASSUME NEW c \in Compressor, Removed(c)
        PROVE  ReasonsStay
    BY <2>25 DEF Removed, ReasonsStay, TypeOK, tree, catalog, backup, compress
  <2>26. ASSUME NEW c \in Compressor, EndCompress(c)
        PROVE  ReasonsStay
    BY <2>26 DEF EndCompress, ReasonsStay, TypeOK, tree, catalog, backup, compress
  <2>27. ASSUME NEW c \in Compressor, KilledCompress(c)
        PROVE  ReasonsStay
    BY <2>27 DEF KilledCompress, ReasonsStay, TypeOK, tree, catalog, backup, compress
  <2>28. ASSUME NEW c \in Compressor, KilledRemoving(c)
        PROVE  ReasonsStay
    BY <2>28 DEF KilledRemoving, Because, ReasonsStay, TypeOK, tree, catalog, backup, compress
  <2>29. ASSUME NEW b \in Run, ExpireImage(b)
        PROVE  ReasonsStay
    BY <2>29 DEF ExpireImage, ReasonsStay, TypeOK, tree, catalog, backup, compress
  <2>30. ASSUME NEW b \in Run, ExpireFiles(b)
        PROVE  ReasonsStay
    BY <2>30 DEF ExpireFiles, ReasonsStay, TypeOK, tree, catalog, backup, compress
  <2>31. ASSUME Tick
        PROVE  ReasonsStay
    BY <2>31 DEF Tick, ReasonsStay, TypeOK, tree, catalog, backup, compress
  <2>32. CASE UNCHANGED vars
    BY <2>32
    DEF vars, tree, catalog, backup, compress, ReasonsStay
  <2> QED
    BY <2>1, <2>2, <2>3, <2>4, <2>5, <2>6, <2>7, <2>8, <2>9, <2>10, <2>11,
        <2>12, <2>13, <2>14, <2>15, <2>16, <2>17, <2>18, <2>19, <2>20, <2>21,
        <2>22, <2>23, <2>24, <2>25, <2>26, <2>27, <2>28, <2>29, <2>30, <2>31,
        <2>32
    DEF Next, DatabaseBackup, CompressDbxBak, RemoveDbxBak
<1> QED
  BY <1>1

(* A backup is begun only once, and written to only afterwards.            *)
LEMMA DatedStep == TypeOK /\ Fresh /\ Dated /\ [Next]_vars => Dated'
<1> SUFFICES ASSUME TypeOK, Fresh, Dated, [Next]_vars PROVE Dated'
  OBVIOUS
<1>0. TreeTypes /\ BackupTypes /\ CompressTypes
  BY DEF TypeOK
<1>1. Dated'
  <2>1. ASSUME NEW r \in Run, StartFull(r)
        PROVE  Dated'
    <3>1. /\ dir' = [dir EXCEPT ![r] = "open"] /\ begun' = [begun EXCEPT ![r] = day]
          /\ UNCHANGED <<day, img, mtime, pos>> /\ pos[r] = 0
      BY <2>1 DEF StartFull, MakeDirectory, Set, Fresh, Unfinished, NotStarted
    <3>2. img[r] # "whole"
      BY <3>1 DEF Dated, Finished
    <3>3. day \in Nat
      BY <1>0, DaysAreNumbers DEF TreeTypes
    <3> QED
      BY <1>0, <3>1, <3>2, <3>3 DEF TreeTypes, BackupTypes, Dated, Finished
  <2>2. ASSUME NEW r \in Run, StartIncremental(r)
        PROVE  Dated'
    BY <2>2, <1>0, DaysAreNumbers
    DEF StartIncremental, Set, tree, catalog, compress, TreeTypes,
        BackupTypes, Dated, Finished
  <2>3. ASSUME NEW r \in Run, ReadDirectory(r)
        PROVE  Dated'
    BY <2>3, <1>0, DaysAreNumbers
    DEF ReadDirectory, Happens, Set, tree, catalog, compress, TreeTypes, BackupTypes,
        Dated, Finished
  <2>4. ASSUME NEW r \in Run, ReadName(r)
        PROVE  Dated'
    BY <2>4, <1>0, DaysAreNumbers
    DEF ReadName, Happens, Set, tree, catalog, compress, TreeTypes, BackupTypes,
        Dated, Finished
  <2>5. ASSUME NEW r \in Run, Launch(r)
        PROVE  Dated'
    <3>1. /\ dir' = [dir EXCEPT ![r] = "open"] /\ begun' = [begun EXCEPT ![r] = day]
          /\ UNCHANGED <<day, img, mtime, pos>> /\ pos[r] = 0
      BY <2>5 DEF Launch, MakeDirectory, Set, Fresh, Unfinished, NotStarted
    <3>2. img[r] # "whole"
      BY <3>1 DEF Dated, Finished
    <3>3. day \in Nat
      BY <1>0, DaysAreNumbers DEF TreeTypes
    <3> QED
      BY <1>0, <3>1, <3>2, <3>3 DEF TreeTypes, BackupTypes, Dated, Finished
  <2>6. ASSUME NEW r \in Run, BaseRefused(r)
        PROVE  Dated'
    BY <2>6, <1>0, DaysAreNumbers
    DEF BaseRefused, Fails, Set, tree, catalog, compress, TreeTypes,
        BackupTypes, Dated, Finished
  <2>7. ASSUME NEW r \in Run, ToolWrites(r)
        PROVE  Dated'
    BY <2>7, <1>0, DaysAreNumbers
    DEF ToolWrites, Set, catalog, backup, compress, TreeTypes, BackupTypes,
        Dated, Finished
  <2>8. ASSUME NEW r \in Run, ToolSucceeds(r)
        PROVE  Dated'
    <3>1. /\ \A b \in Run : pos'[b] # 0 <=> pos[b] # 0 \/ b = r
          /\ dir' = [dir EXCEPT ![r] = IF dir[r] = "open" THEN "whole" ELSE "torn"]
          /\ UNCHANGED <<day, img, mtime, begun>>
      BY <2>8, ToolSucceedsEffect
    <3> QED
      BY <1>0, <3>1 DEF TreeTypes, Dated, Finished
  <2>9. ASSUME NEW r \in Run, ToolFails(r)
        PROVE  Dated'
    BY <2>9, <1>0, DaysAreNumbers
    DEF ToolFails, Happens, Set, Fails, catalog, compress, TreeTypes,
        BackupTypes, Dated, Finished
  <2>10. ASSUME NEW r \in Run, Purge(r)
        PROVE  Dated'
    BY <2>10, <1>0, DaysAreNumbers
    DEF Purge, Set, tree, compress, TreeTypes, BackupTypes, Dated, Finished
  <2>11. ASSUME NEW r \in Run, PurgeFails(r)
        PROVE  Dated'
    BY <2>11, <1>0, DaysAreNumbers
    DEF PurgeFails, Happens, Fails, Set, tree, catalog, compress, TreeTypes,
        BackupTypes, Dated, Finished
  <2>12. ASSUME NEW r \in Run, Register(r)
        PROVE  Dated'
    BY <2>12, <1>0, DaysAreNumbers
    DEF Register, Set, tree, compress, TreeTypes, BackupTypes, Dated,
        Finished
  <2>13. ASSUME NEW r \in Run, RegisterFails(r)
        PROVE  Dated'
    BY <2>13, <1>0, DaysAreNumbers
    DEF RegisterFails, Happens, Fails, Set, tree, catalog, compress,
        TreeTypes, BackupTypes, Dated, Finished
  <2>14. ASSUME NEW r \in Run, RemoveBase(r)
        PROVE  Dated'
    BY <1>0, <2>14, RemoveBaseEffect, DaysAreNumbers
    DEF TreeTypes, BackupTypes, Dated, Finished, Fresh, Unfinished
  <2>15. ASSUME NEW r \in Run, Killed(r)
        PROVE  Dated'
    BY <2>15, <1>0, DaysAreNumbers
    DEF Killed, Happens, Fails, Set, tree, catalog, compress, TreeTypes,
        BackupTypes, Dated, Finished
  <2>16. ASSUME NEW r \in Run, KilledInTool(r)
        PROVE  Dated'
    BY <2>16, <1>0, DaysAreNumbers
    DEF KilledInTool, Happens, Fails, Set, catalog, compress, TreeTypes,
        BackupTypes, Dated, Finished
  <2>17. ASSUME NEW r \in Run, KilledInRemove(r)
        PROVE  Dated'
    <3>1. /\ rname[r] \in Run
          /\ dir' = [dir EXCEPT ![rname[r]] = "torn"] /\ ctime' = [ctime EXCEPT ![rname[r]] = day]
          /\ UNCHANGED <<day, img, mtime, pos, begun>>
      BY <2>17, KilledInRemoveEffect
    <3> QED
      BY <1>0, <3>1 DEF TreeTypes, Dated, Finished
  <2>18. ASSUME NEW c \in Compressor, StartCompress(c)
        PROVE  Dated'
    BY <2>18, <1>0, DaysAreNumbers
    DEF StartCompress, Set, tree, catalog, backup, TreeTypes, BackupTypes,
        Dated, Finished
  <2>19. ASSUME NEW c \in Compressor, NEW b \in Run, Skip(c, b)
        PROVE  Dated'
    BY <2>19, <1>0, DaysAreNumbers
    DEF Skip, Set, tree, catalog, backup, TreeTypes, BackupTypes, Dated,
        Finished
  <2>20. ASSUME NEW c \in Compressor, NEW b \in Run, Open(c, b)
        PROVE  Dated'
    <3>1. /\ img' = [img EXCEPT ![b] = "short"] /\ mtime' = [mtime EXCEPT ![b] = day]
          /\ UNCHANGED <<day, dir, pos, begun>>
      BY <2>20, OpenEffect
    <3> QED
      BY <1>0, <3>1 DEF TreeTypes, Dated, Finished
  <2>21. ASSUME NEW c \in Compressor, Copied(c)
        PROVE  Dated'
    BY <2>21, <1>0, DaysAreNumbers
    DEF Copied, Set, catalog, backup, TreeTypes, BackupTypes, Dated,
        Finished
  <2>22. ASSUME NEW c \in Compressor, PipeFails(c)
        PROVE  Dated'
    <3>1. /\ cur[c] \in Run
          /\ img' = [img EXCEPT ![cur[c]] = "short"] /\ mtime' = [mtime EXCEPT ![cur[c]] = day]
          /\ UNCHANGED <<day, dir, ctime, pos, begun>>
      BY <2>22, PipeFailsEffect
    <3> QED
      BY <1>0, <3>1 DEF TreeTypes, Dated, Finished
  <2>23. ASSUME NEW c \in Compressor, CopyFails(c)
        PROVE  Dated'
    BY <2>23, <1>0, DaysAreNumbers
    DEF CopyFails, Happens, StopCompress, Set, tree, catalog, backup,
        TreeTypes, BackupTypes, Dated, Finished
  <2>24. ASSUME NEW c \in Compressor, Remove(c)
        PROVE  Dated'
    BY <2>24, <1>0, DaysAreNumbers
    DEF Remove, Set, catalog, backup, TreeTypes, BackupTypes, Dated,
        Finished
  <2>25. ASSUME NEW c \in Compressor, Removed(c)
        PROVE  Dated'
    BY <2>25, <1>0, DaysAreNumbers
    DEF Removed, Set, catalog, backup, TreeTypes, BackupTypes, Dated,
        Finished
  <2>26. ASSUME NEW c \in Compressor, EndCompress(c)
        PROVE  Dated'
    BY <2>26, <1>0, DaysAreNumbers
    DEF EndCompress, StopCompress, Set, tree, catalog, backup, TreeTypes,
        BackupTypes, Dated, Finished
  <2>27. ASSUME NEW c \in Compressor, KilledCompress(c)
        PROVE  Dated'
    BY <2>27, <1>0, DaysAreNumbers
    DEF KilledCompress, Happens, StopCompress, Set, tree, catalog, backup,
        TreeTypes, BackupTypes, Dated, Finished
  <2>28. ASSUME NEW c \in Compressor, KilledRemoving(c)
        PROVE  Dated'
    BY <1>0, <2>28, KilledRemovingEffect, DaysAreNumbers
    DEF TreeTypes, BackupTypes, Dated, Finished, Fresh, Unfinished
  <2>29. ASSUME NEW b \in Run, ExpireImage(b)
        PROVE  Dated'
    BY <2>29, <1>0, DaysAreNumbers
    DEF ExpireImage, Old, Set, catalog, backup, compress, TreeTypes,
        BackupTypes, Dated, Finished
  <2>30. ASSUME NEW b \in Run, ExpireFiles(b)
        PROVE  Dated'
    BY <2>30, <1>0, DaysAreNumbers
    DEF ExpireFiles, Old, Set, catalog, backup, compress, TreeTypes,
        BackupTypes, Dated, Finished
  <2>31. ASSUME Tick
        PROVE  Dated'
    <3>1. day <= day' /\ day \in Nat /\ day' \in Nat
      BY <1>0, <2>31, CalendarAssumption DEF Tick, TreeTypes, Days
    <3>2. \A b \in Run : begun[b] \in Nat
      BY <1>0, DaysAreNumbers DEF BackupTypes
    <3>3. UNCHANGED <<dir, img, mtime, pos, begun>>
      BY <2>31 DEF Tick, tree, backup
    <3> QED
      BY <3>1, <3>2, <3>3 DEF Dated, Finished
  <2>32. CASE UNCHANGED vars
    BY <2>32, <1>0, DaysAreNumbers
    DEF vars, tree, catalog, backup, compress, TreeTypes, BackupTypes, Dated,
        Finished
  <2> QED
    BY <2>1, <2>2, <2>3, <2>4, <2>5, <2>6, <2>7, <2>8, <2>9, <2>10, <2>11,
        <2>12, <2>13, <2>14, <2>15, <2>16, <2>17, <2>18, <2>19, <2>20, <2>21,
        <2>22, <2>23, <2>24, <2>25, <2>26, <2>27, <2>28, <2>29, <2>30, <2>31,
        <2>32
    DEF Next, DatabaseBackup, CompressDbxBak, RemoveDbxBak
<1> QED
  BY <1>1

(* An excuse stays one.                                                    *)
LEMMA ExcusesStay ==
    ASSUME TypeOK, TypeOK', Fresh, Persists, ReasonsStay, NEW b \in Run
    PROVE  /\ Excused(b) => Excused(b)'
           /\ Settled(b) => Settled(b)'
<1>0. TreeTypes /\ TreeTypes' /\ BackupTypes
  BY DEF TypeOK
<1>1. ASSUME Started(b), Old(begun[b]) PROVE Started(b)' /\ Old(begun[b])'
  <2>1. day \in Nat /\ day' \in Nat /\ begun[b] \in Nat /\ day <= day'
    <3>1. day <= day'
      BY DEF Persists
    <3> QED
      BY <1>0, <3>1, DaysAreNumbers DEF TreeTypes, BackupTypes
  <2>2. Started(b)' /\ begun'[b] = begun[b]
    BY <1>1 DEF Persists
  <2> QED
    BY <1>1, <2>1, <2>2 DEF Old
<1>2. Finished(b) => Started(b)
  BY DEF Fresh, Unfinished, Started, Finished
<1>3. Excused(b) => Excused(b)'
  BY <1>1, <1>2 DEF Persists, ReasonsStay, Excused
<1> QED
  BY <1>1, <1>3 DEF Persists, ReasonsStay, Settled

(* When a second run comes to a directory, that is recorded.               *)
LEMMA OneAtATimeStep ==
    TypeOK /\ Fresh /\ OneAtATime /\ ReasonsStay /\ [Next]_vars => OneAtATime'
<1> SUFFICES ASSUME TypeOK, Fresh, OneAtATime, ReasonsStay, [Next]_vars PROVE OneAtATime'
  OBVIOUS
<1>0. TreeTypes /\ BackupTypes /\ CompressTypes
  BY DEF TypeOK
<1>1. OneAtATime'
  <2>1. ASSUME NEW r \in Run, StartFull(r)
        PROVE  OneAtATime'
    BY <2>1, <1>0
    DEF StartFull, MakeDirectory, Set, catalog, compress, CompressTypes,
        ReasonsStay, OneAtATime, At
  <2>2. ASSUME NEW r \in Run, StartIncremental(r)
        PROVE  OneAtATime'
    BY <2>2, <1>0
    DEF StartIncremental, Set, tree, catalog, compress, CompressTypes,
        ReasonsStay, OneAtATime, At
  <2>3. ASSUME NEW r \in Run, ReadDirectory(r)
        PROVE  OneAtATime'
    BY <2>3, <1>0
    DEF ReadDirectory, Happens, Set, tree, catalog, compress, CompressTypes,
        ReasonsStay, OneAtATime, At
  <2>4. ASSUME NEW r \in Run, ReadName(r)
        PROVE  OneAtATime'
    BY <2>4, <1>0
    DEF ReadName, Happens, Set, tree, catalog, compress, CompressTypes, ReasonsStay,
        OneAtATime, At
  <2>5. ASSUME NEW r \in Run, Launch(r)
        PROVE  OneAtATime'
    BY <2>5, <1>0
    DEF Launch, MakeDirectory, Set, catalog, compress, CompressTypes,
        ReasonsStay, OneAtATime, At
  <2>6. ASSUME NEW r \in Run, BaseRefused(r)
        PROVE  OneAtATime'
    BY <2>6, <1>0
    DEF BaseRefused, Fails, Set, tree, catalog, compress, CompressTypes,
        ReasonsStay, OneAtATime, At
  <2>7. ASSUME NEW r \in Run, ToolWrites(r)
        PROVE  OneAtATime'
    BY <2>7, <1>0
    DEF ToolWrites, Set, catalog, backup, compress, CompressTypes,
        ReasonsStay, OneAtATime, At
  <2>8. ASSUME NEW r \in Run, ToolSucceeds(r)
        PROVE  OneAtATime'
    <3>1. cpc' = cpc /\ cur' = cur
      BY <2>8, ToolSucceedsEffect
    <3> QED
      BY <3>1 DEF ReasonsStay, OneAtATime, At
  <2>9. ASSUME NEW r \in Run, ToolFails(r)
        PROVE  OneAtATime'
    BY <2>9, <1>0
    DEF ToolFails, Happens, Set, Fails, catalog, compress, CompressTypes,
        ReasonsStay, OneAtATime, At
  <2>10. ASSUME NEW r \in Run, Purge(r)
        PROVE  OneAtATime'
    BY <2>10, <1>0
    DEF Purge, Set, tree, compress, CompressTypes, ReasonsStay, OneAtATime,
        At
  <2>11. ASSUME NEW r \in Run, PurgeFails(r)
        PROVE  OneAtATime'
    BY <2>11, <1>0
    DEF PurgeFails, Happens, Fails, Set, tree, catalog, compress,
        CompressTypes, ReasonsStay, OneAtATime, At
  <2>12. ASSUME NEW r \in Run, Register(r)
        PROVE  OneAtATime'
    BY <2>12, <1>0
    DEF Register, Set, tree, compress, CompressTypes, ReasonsStay,
        OneAtATime, At
  <2>13. ASSUME NEW r \in Run, RegisterFails(r)
        PROVE  OneAtATime'
    BY <2>13, <1>0
    DEF RegisterFails, Happens, Fails, Set, tree, catalog, compress,
        CompressTypes, ReasonsStay, OneAtATime, At
  <2>14. ASSUME NEW r \in Run, RemoveBase(r)
        PROVE  OneAtATime'
    <3>1. cpc' = cpc /\ cur' = cur
      BY <2>14, RemoveBaseEffect
    <3> QED
      BY <3>1 DEF ReasonsStay, OneAtATime, At
  <2>15. ASSUME NEW r \in Run, Killed(r)
        PROVE  OneAtATime'
    BY <2>15, <1>0
    DEF Killed, Happens, Fails, Set, tree, catalog, compress, CompressTypes,
        ReasonsStay, OneAtATime, At
  <2>16. ASSUME NEW r \in Run, KilledInTool(r)
        PROVE  OneAtATime'
    BY <2>16, <1>0
    DEF KilledInTool, Happens, Fails, Set, catalog, compress, CompressTypes,
        ReasonsStay, OneAtATime, At
  <2>17. ASSUME NEW r \in Run, KilledInRemove(r)
        PROVE  OneAtATime'
    <3>1. cpc' = cpc /\ cur' = cur
      BY <2>17, KilledInRemoveEffect
    <3> QED
      BY <3>1 DEF ReasonsStay, OneAtATime, At
  <2>18. ASSUME NEW c \in Compressor, StartCompress(c)
        PROVE  OneAtATime'
    BY <2>18, <1>0
    DEF StartCompress, Set, tree, catalog, backup, CompressTypes,
        ReasonsStay, OneAtATime, At
  <2>19. ASSUME NEW c \in Compressor, NEW b \in Run, Skip(c, b)
        PROVE  OneAtATime'
    BY <2>19, <1>0
    DEF Skip, Set, tree, catalog, backup, CompressTypes, ReasonsStay,
        OneAtATime, At
  <2>20. ASSUME NEW c \in Compressor, NEW b \in Run, Open(c, b)
        PROVE  OneAtATime'
    <3>1. /\ cur' = [cur EXCEPT ![c] = b] /\ cpc' = [cpc EXCEPT ![c] = "write"]
          /\ AlsoAt(c, b) # {} => reasons'[b] # {}
      BY <2>20, OpenEffect
    <3>2. ASSUME NEW q \in Compressor, q # c, At(q, b)' PROVE reasons'[b] # {}
      BY <1>0, <3>1, <3>2 DEF CompressTypes, At, AlsoAt
    <3> QED
      BY <1>0, <3>1, <3>2 DEF CompressTypes, ReasonsStay, OneAtATime, At
  <2>21. ASSUME NEW c \in Compressor, Copied(c)
        PROVE  OneAtATime'
    <3>1. cpc[c] = "write" /\ cpc' = [cpc EXCEPT ![c] = "copied"] /\ cur' = cur
      BY <2>21 DEF Copied, Set
    <3> QED
      BY <1>0, <3>1 DEF CompressTypes, ReasonsStay, OneAtATime, At
  <2>22. ASSUME NEW c \in Compressor, PipeFails(c)
        PROVE  OneAtATime'
    <3>1. cpc[c] = "write" /\ cpc' = [cpc EXCEPT ![c] = "copied"] /\ cur' = cur
      BY <2>22, PipeFailsEffect
    <3> QED
      BY <1>0, <3>1 DEF CompressTypes, ReasonsStay, OneAtATime, At
  <2>23. ASSUME NEW c \in Compressor, CopyFails(c)
        PROVE  OneAtATime'
    BY <2>23, <1>0
    DEF CopyFails, Happens, StopCompress, Set, tree, catalog, backup,
        CompressTypes, ReasonsStay, OneAtATime, At
  <2>24. ASSUME NEW c \in Compressor, Remove(c)
        PROVE  OneAtATime'
    BY <2>24, <1>0
    DEF Remove, Set, catalog, backup, CompressTypes, ReasonsStay, OneAtATime,
        At
  <2>25. ASSUME NEW c \in Compressor, Removed(c)
        PROVE  OneAtATime'
    BY <2>25, <1>0
    DEF Removed, Set, catalog, backup, CompressTypes, ReasonsStay,
        OneAtATime, At
  <2>26. ASSUME NEW c \in Compressor, EndCompress(c)
        PROVE  OneAtATime'
    BY <2>26, <1>0
    DEF EndCompress, StopCompress, Set, tree, catalog, backup, CompressTypes,
        ReasonsStay, OneAtATime, At
  <2>27. ASSUME NEW c \in Compressor, KilledCompress(c)
        PROVE  OneAtATime'
    BY <2>27, <1>0
    DEF KilledCompress, Happens, StopCompress, Set, tree, catalog, backup,
        CompressTypes, ReasonsStay, OneAtATime, At
  <2>28. ASSUME NEW c \in Compressor, KilledRemoving(c)
        PROVE  OneAtATime'
    <3>1. cpc' = [cpc EXCEPT ![c] = "idle"] /\ cur' = [cur EXCEPT ![c] = None]
      BY <2>28, KilledRemovingEffect
    <3> QED
      BY <1>0, <3>1 DEF CompressTypes, ReasonsStay, OneAtATime, At
  <2>29. ASSUME NEW b \in Run, ExpireImage(b)
        PROVE  OneAtATime'
    BY <2>29, <1>0
    DEF ExpireImage, Set, catalog, backup, compress, CompressTypes,
        ReasonsStay, OneAtATime, At
  <2>30. ASSUME NEW b \in Run, ExpireFiles(b)
        PROVE  OneAtATime'
    BY <2>30, <1>0
    DEF ExpireFiles, Set, catalog, backup, compress, CompressTypes,
        ReasonsStay, OneAtATime, At
  <2>31. ASSUME Tick
        PROVE  OneAtATime'
    BY <2>31, <1>0
    DEF Tick, tree, catalog, backup, compress, CompressTypes, ReasonsStay,
        OneAtATime, At
  <2>32. CASE UNCHANGED vars
    BY <2>32, <1>0
    DEF vars, tree, catalog, backup, compress, CompressTypes, ReasonsStay,
        OneAtATime, At
  <2> QED
    BY <2>1, <2>2, <2>3, <2>4, <2>5, <2>6, <2>7, <2>8, <2>9, <2>10, <2>11,
        <2>12, <2>13, <2>14, <2>15, <2>16, <2>17, <2>18, <2>19, <2>20, <2>21,
        <2>22, <2>23, <2>24, <2>25, <2>26, <2>27, <2>28, <2>29, <2>30, <2>31,
        <2>32
    DEF Next, DatabaseBackup, CompressDbxBak, RemoveDbxBak
<1> QED
  BY <1>1

(* Where something is old, the backup is.                                  *)
LEMMA ExpiryIsAnExcuse ==
    ASSUME TypeOK, Fresh, Dated, NEW b \in Run
    PROVE  /\ dir[b] # "none" /\ Old(begun[b]) => Settled(b)
           /\ img[b] = "whole" /\ Old(mtime[b]) => Excused(b)
<1>1. day \in Nat /\ begun[b] \in Nat /\ mtime[b] \in Nat
  BY DaysAreNumbers DEF TypeOK, TreeTypes, BackupTypes
<1>2. dir[b] # "none" => Started(b)
  BY DEF Fresh, Started
<1> QED
  BY <1>1, <1>2 DEF Dated, Excused, Settled, Old

-----------------------------------------------------------------------------
(* The part of KeepsInv about the files.                                   *)
Kept == WritesWhole /\ ImageFirst /\ TornByRemoval /\ NothingLost

(* What a step does to the excuses.                                        *)
Stays ==
    \A b \in Run :
        /\ reasons[b] # {} => reasons'[b] # {}
        /\ Excused(b) => Excused(b)'
        /\ Settled(b) => Settled(b)'
        /\ reasons'[b] # {} \/ Excused(b)' => Settled(b)'
        /\ pos'[b] # 0 /\ Settled(b)' => Excused(b)'

(* A step that touches no file, and after which each run of                *)
(* CompressDbxBak.sh is where it was or at no directory any more.          *)
Quiet ==
    /\ UNCHANGED <<dir, img, pos>>
    /\ \A c \in Compressor :
        \/ cpc'[c] = cpc[c] /\ cur'[c] = cur[c] /\ cok'[c] = cok[c]
        \/ /\ cpc'[c] \in {"idle", "next"}
           /\ cpc[c] = "removing" /\ cur[c] \in Run => reasons'[cur[c]] # {}

(* The rules for excuses, in one place.                                    *)
LEMMA StaysStep == ASSUME TypeOK, TypeOK', Fresh, Persists, ReasonsStay PROVE Stays
<1>1. \A b \in Run : reasons'[b] # {} \/ Excused(b)' => Settled(b)'
  BY DEF Settled
<1>2. \A b \in Run : pos'[b] # 0 /\ Settled(b)' => Excused(b)'
  BY DEF Settled, Excused, Stillborn, Finished
<1> QED
  BY <1>1, <1>2, ExcusesStay DEF Stays, ReasonsStay

(* A quiet step loses nothing.                                             *)
LEMMA QuietStep == ASSUME Kept, Stays, Quiet PROVE Kept'
<1>1. WritesWhole'
  BY DEF Kept, Stays, Quiet, WritesWhole, At
<1>2. ImageFirst'
  BY DEF Kept, Stays, Quiet, ImageFirst, At
<1>3. TornByRemoval'
  <2> SUFFICES ASSUME NEW b \in Run, dir'[b] = "torn"
               PROVE  Settled(b)' \/ \E c \in Compressor : At(c, b)' /\ cpc'[c] = "removing"
    BY DEF TornByRemoval
  <2>1. Settled(b) \/ \E c \in Compressor : At(c, b) /\ cpc[c] = "removing"
    BY DEF Kept, Quiet, TornByRemoval
  <2> QED
    BY <2>1 DEF Stays, Quiet, At
<1>4. NothingLost'
  BY DEF Kept, Stays, Quiet, NothingLost, Restorable, Finished
<1> QED
  BY <1>1, <1>2, <1>3, <1>4 DEF Kept

(* No step loses a backup without an excuse.  The cases that matter are the*)
(* ones where a file goes: an image is begun only while nobody removes the *)
(* directory, and a directory is removed only when its image is whole.     *)
LEMMA KeptStep ==
    ASSUME TypeOK, Fresh, Dated, OneAtATime, Kept, Stays, [Next]_vars PROVE Kept'
<1>0. TreeTypes /\ BackupTypes /\ CompressTypes /\ Fresh
  BY DEF TypeOK
<1>1. WritesWhole /\ ImageFirst /\ TornByRemoval /\ NothingLost /\ Stays
  BY DEF Kept
<1>2. OneAtATime
  OBVIOUS
<1>3. Kept'
  <2>1. ASSUME NEW r \in Run, StartFull(r)
        PROVE  Kept'
    <3>1. /\ dir' = [dir EXCEPT ![r] = "open"] /\ UNCHANGED <<img, pos, cpc, cur, cok>>
          /\ pos[r] = 0 /\ dir[r] = "none" /\ bpc[r] \in NotStarted
      BY <1>0, <2>1
      DEF StartFull, MakeDirectory, Set, compress, Fresh, Unfinished, NotStarted, Finished
    <3>5. WritesWhole'
      BY <1>0, <1>1, <3>1 DEF Stays, WritesWhole, At, TreeTypes, CompressTypes
    <3>6. ImageFirst'
      BY <1>0, <1>1, <3>1 DEF Stays, ImageFirst, WritesWhole, At, TreeTypes, CompressTypes
    <3>7. TornByRemoval'
      BY <1>0, <1>1, <3>1 DEF Stays, TornByRemoval, At, TreeTypes, CompressTypes
    <3>8. NothingLost'
      BY <1>0, <1>1, <3>1 DEF Stays, NothingLost, ImageFirst, At, Restorable, Finished, TreeTypes, CompressTypes
    <3> QED
      BY <3>5, <3>6, <3>7, <3>8 DEF Kept
  <2>2. ASSUME NEW r \in Run, StartIncremental(r)
        PROVE  Kept'
    <3>1. UNCHANGED <<dir, img, pos, cpc, cur, cok>>
      BY <2>2 DEF StartIncremental, Set, tree, catalog, compress
    <3> QED
      BY <1>0, <1>1, <3>1, QuietStep DEF Quiet
  <2>3. ASSUME NEW r \in Run, ReadDirectory(r)
        PROVE  Kept'
    <3>1. UNCHANGED <<dir, img, pos, cpc, cur, cok>>
      BY <2>3 DEF ReadDirectory, Happens, Set, tree, catalog, compress
    <3> QED
      BY <1>0, <1>1, <3>1, QuietStep DEF Quiet
  <2>4. ASSUME NEW r \in Run, ReadName(r)
        PROVE  Kept'
    <3>1. UNCHANGED <<dir, img, pos, cpc, cur, cok>>
      BY <2>4 DEF ReadName, Happens, Set, tree, catalog, compress
    <3> QED
      BY <1>0, <1>1, <3>1, QuietStep DEF Quiet
  <2>5. ASSUME NEW r \in Run, Launch(r)
        PROVE  Kept'
    <3>1. /\ dir' = [dir EXCEPT ![r] = "open"] /\ UNCHANGED <<img, pos, cpc, cur, cok>>
          /\ pos[r] = 0 /\ dir[r] = "none" /\ bpc[r] \in NotStarted
      BY <1>0, <2>5
      DEF Launch, MakeDirectory, Set, compress, Fresh, Unfinished, NotStarted, Finished
    <3>5. WritesWhole'
      BY <1>0, <1>1, <3>1 DEF Stays, WritesWhole, At, TreeTypes, CompressTypes
    <3>6. ImageFirst'
      BY <1>0, <1>1, <3>1 DEF Stays, ImageFirst, WritesWhole, At, TreeTypes, CompressTypes
    <3>7. TornByRemoval'
      BY <1>0, <1>1, <3>1 DEF Stays, TornByRemoval, At, TreeTypes, CompressTypes
    <3>8. NothingLost'
      BY <1>0, <1>1, <3>1 DEF Stays, NothingLost, ImageFirst, At, Restorable, Finished, TreeTypes, CompressTypes
    <3> QED
      BY <3>5, <3>6, <3>7, <3>8 DEF Kept
  <2>6. ASSUME NEW r \in Run, BaseRefused(r)
        PROVE  Kept'
    <3>1. UNCHANGED <<dir, img, pos, cpc, cur, cok>>
      BY <2>6 DEF BaseRefused, Fails, Set, tree, catalog, compress
    <3> QED
      BY <1>0, <1>1, <3>1, QuietStep DEF Quiet
  <2>7. ASSUME NEW r \in Run, ToolWrites(r)
        PROVE  Kept'
    <3>1. UNCHANGED <<dir, img, pos, cpc, cur, cok>>
      BY <2>7 DEF ToolWrites, Set, catalog, backup, compress
    <3> QED
      BY <1>0, <1>1, <3>1, QuietStep DEF Quiet
  <2>8. ASSUME NEW r \in Run, ToolSucceeds(r)
        PROVE  Kept'
    <3>1. /\ pos[r] = 0 /\ dir[r] \in {"open", "torn"}
          /\ \A b \in Run : pos'[b] # 0 <=> pos[b] # 0 \/ b = r
          /\ dir' = [dir EXCEPT ![r] = IF dir[r] = "open" THEN "whole" ELSE "torn"]
          /\ UNCHANGED <<img, cpc, cur, cok>>
      BY <2>8, ToolSucceedsEffect
    <3>2. img[r] # "whole"
      BY <3>1 DEF Dated, Finished
    <3>3. (\E c \in Compressor : At(c, r)) => Settled(r)
      BY <1>1, <3>1, <3>2 DEF WritesWhole, ImageFirst
    <3>4. dir[r] = "torn" => Settled(r)
      BY <1>1, <3>3 DEF TornByRemoval
    <3>5. WritesWhole'
      BY <1>0, <1>1, <3>1, <3>3 DEF Stays, WritesWhole, At, TreeTypes, CompressTypes
    <3>6. ImageFirst'
      BY <1>0, <1>1, <3>1 DEF Stays, ImageFirst, At, TreeTypes, CompressTypes
    <3>7. TornByRemoval'
      BY <1>0, <1>1, <3>1, <3>4 DEF Stays, TornByRemoval, At, TreeTypes, CompressTypes
    <3>8. NothingLost'
      BY <1>0, <1>1, <3>1, <3>4 DEF Stays, NothingLost, Restorable, Finished, TreeTypes
    <3> QED
      BY <3>5, <3>6, <3>7, <3>8 DEF Kept
  <2>9. ASSUME NEW r \in Run, ToolFails(r)
        PROVE  Kept'
    <3>1. /\ UNCHANGED <<img, pos, cpc, cur, cok>> /\ pos[r] = 0
          /\ dir' = dir \/ (dir[r] = "open" /\ dir' = [dir EXCEPT ![r] = "torn"])
      <4>1. UNCHANGED <<img, pos, cpc, cur, cok>> /\ pos[r] = 0
        BY <2>9 DEF ToolFails, compress, Fresh, Unfinished
      <4>2. dir' = dir \/ (dir[r] = "open" /\ dir' = [dir EXCEPT ![r] = "torn"])
        <5>1. CASE dir[r] = "open"
          BY <5>1, <2>9 DEF ToolFails, Set
        <5>2. CASE dir[r] # "open"
          <6>1. dir' = [dir EXCEPT ![r] = dir[r]]
            BY <5>2, <2>9 DEF ToolFails, Set
          <6>2. dir' = dir
            BY <1>0, <6>1 DEF TreeTypes
          <6> QED
            BY <6>2
        <5> QED
          BY <5>1, <5>2
      <4> QED
        BY <4>1, <4>2
    <3>2. Settled(r)'
      BY <1>0, <2>9 DEF ToolFails, Fails, Set, BackupTypes, Fresh, Unfinished, Settled, Stillborn
    <3>5. WritesWhole'
      BY <1>0, <1>1, <3>1, <3>2 DEF Stays, WritesWhole, At, TreeTypes, CompressTypes
    <3>6. ImageFirst'
      BY <1>0, <1>1, <3>1, <3>2 DEF Stays, ImageFirst, WritesWhole, At, TreeTypes, CompressTypes
    <3>7. TornByRemoval'
      BY <1>0, <1>1, <3>1, <3>2 DEF Stays, TornByRemoval, At, TreeTypes, CompressTypes
    <3>8. NothingLost'
      BY <1>0, <1>1, <3>1, <3>2 DEF Stays, NothingLost, ImageFirst, At, Restorable, Finished, TreeTypes, CompressTypes
    <3> QED
      BY <3>5, <3>6, <3>7, <3>8 DEF Kept
  <2>10. ASSUME NEW r \in Run, Purge(r)
        PROVE  Kept'
    <3>1. UNCHANGED <<dir, img, pos, cpc, cur, cok>>
      BY <2>10 DEF Purge, Set, tree, compress
    <3> QED
      BY <1>0, <1>1, <3>1, QuietStep DEF Quiet
  <2>11. ASSUME NEW r \in Run, PurgeFails(r)
        PROVE  Kept'
    <3>1. UNCHANGED <<dir, img, pos, cpc, cur, cok>>
      BY <2>11 DEF PurgeFails, Fails, Set, tree, catalog, compress
    <3> QED
      BY <1>0, <1>1, <3>1, QuietStep DEF Quiet
  <2>12. ASSUME NEW r \in Run, Register(r)
        PROVE  Kept'
    <3>1. UNCHANGED <<dir, img, pos, cpc, cur, cok>>
      BY <2>12 DEF Register, Set, tree, compress
    <3> QED
      BY <1>0, <1>1, <3>1, QuietStep DEF Quiet
  <2>13. ASSUME NEW r \in Run, RegisterFails(r)
        PROVE  Kept'
    <3>1. UNCHANGED <<dir, img, pos, cpc, cur, cok>>
      BY <2>13 DEF RegisterFails, Fails, Set, tree, catalog, compress
    <3> QED
      BY <1>0, <1>1, <3>1, QuietStep DEF Quiet
  <2>14. ASSUME NEW r \in Run, RemoveBase(r)
        PROVE  Kept'
    <3>1. /\ rname[r] \in Run /\ reasons'[rname[r]] # {}
          /\ dir' = [dir EXCEPT ![rname[r]] = "none"]
          /\ UNCHANGED <<img, pos, cpc, cur, cok>>
      BY <2>14, RemoveBaseEffect
    <3>5. WritesWhole'
      BY <1>0, <1>1, <3>1 DEF Stays, WritesWhole, At, TreeTypes, CompressTypes
    <3>6. ImageFirst'
      BY <1>0, <1>1, <3>1 DEF Stays, ImageFirst, WritesWhole, At, TreeTypes, CompressTypes
    <3>7. TornByRemoval'
      BY <1>0, <1>1, <3>1 DEF Stays, TornByRemoval, At, TreeTypes, CompressTypes
    <3>8. NothingLost'
      BY <1>0, <1>1, <3>1 DEF Stays, NothingLost, ImageFirst, At, Restorable, Finished, TreeTypes, CompressTypes
    <3> QED
      BY <3>5, <3>6, <3>7, <3>8 DEF Kept
  <2>15. ASSUME NEW r \in Run, Killed(r)
        PROVE  Kept'
    <3>1. UNCHANGED <<dir, img, pos, cpc, cur, cok>>
      BY <2>15 DEF Killed, Fails, Set, tree, catalog, compress
    <3> QED
      BY <1>0, <1>1, <3>1, QuietStep DEF Quiet
  <2>16. ASSUME NEW r \in Run, KilledInTool(r)
        PROVE  Kept'
    <3>1. /\ UNCHANGED <<img, pos, cpc, cur, cok>> /\ pos[r] = 0
          /\ dir' = dir \/ (dir[r] = "open" /\ dir' = [dir EXCEPT ![r] = "torn"])
      <4>1. UNCHANGED <<img, pos, cpc, cur, cok>> /\ pos[r] = 0
        BY <2>16 DEF KilledInTool, compress, Fresh, Unfinished
      <4>2. dir' = dir \/ (dir[r] = "open" /\ dir' = [dir EXCEPT ![r] = "torn"])
        BY <1>0, <2>16 DEF KilledInTool, Set, TreeTypes
      <4> QED
        BY <4>1, <4>2
    <3>2. Settled(r)'
      BY <1>0, <2>16 DEF KilledInTool, Fails, Set, BackupTypes, Fresh, Unfinished, Settled, Stillborn
    <3>5. WritesWhole'
      BY <1>0, <1>1, <3>1, <3>2 DEF Stays, WritesWhole, At, TreeTypes, CompressTypes
    <3>6. ImageFirst'
      BY <1>0, <1>1, <3>1, <3>2 DEF Stays, ImageFirst, WritesWhole, At, TreeTypes, CompressTypes
    <3>7. TornByRemoval'
      BY <1>0, <1>1, <3>1, <3>2 DEF Stays, TornByRemoval, At, TreeTypes, CompressTypes
    <3>8. NothingLost'
      BY <1>0, <1>1, <3>1, <3>2 DEF Stays, NothingLost, ImageFirst, At, Restorable, Finished, TreeTypes, CompressTypes
    <3> QED
      BY <3>5, <3>6, <3>7, <3>8 DEF Kept
  <2>17. ASSUME NEW r \in Run, KilledInRemove(r)
        PROVE  Kept'
    <3>1. /\ rname[r] \in Run /\ reasons'[rname[r]] # {}
          /\ dir' = [dir EXCEPT ![rname[r]] = "torn"]
          /\ UNCHANGED <<img, pos, cpc, cur, cok>>
      BY <2>17, KilledInRemoveEffect
    <3>5. WritesWhole'
      BY <1>0, <1>1, <3>1 DEF Stays, WritesWhole, At, TreeTypes, CompressTypes
    <3>6. ImageFirst'
      BY <1>0, <1>1, <3>1 DEF Stays, ImageFirst, WritesWhole, At, TreeTypes, CompressTypes
    <3>7. TornByRemoval'
      BY <1>0, <1>1, <3>1 DEF Stays, TornByRemoval, At, TreeTypes, CompressTypes
    <3>8. NothingLost'
      BY <1>0, <1>1, <3>1 DEF Stays, NothingLost, ImageFirst, At, Restorable, Finished, TreeTypes, CompressTypes
    <3> QED
      BY <3>5, <3>6, <3>7, <3>8 DEF Kept
  <2>18. ASSUME NEW c \in Compressor, StartCompress(c)
        PROVE  Kept'
    <3>1. /\ UNCHANGED <<dir, img, pos>> /\ cpc[c] = "idle"
          /\ cpc' = [cpc EXCEPT ![c] = "next"]
          /\ cur' = cur /\ cok' = cok
      BY <2>18 DEF StartCompress, Set, tree, catalog, backup
    <3>2. Quiet
      BY <1>0, <3>1 DEF Quiet, CompressTypes
    <3> QED
      BY <1>0, <1>1, <3>2, QuietStep
  <2>19. ASSUME NEW c \in Compressor, NEW b \in Run, Skip(c, b)
        PROVE  Kept'
    <3>1. UNCHANGED <<dir, img, pos, cpc, cur, cok>>
      BY <2>19 DEF Skip, Set, tree, catalog, backup
    <3> QED
      BY <1>0, <1>1, <3>1, QuietStep DEF Quiet
  <2>20. ASSUME NEW c \in Compressor, NEW b \in Run, Open(c, b)
        PROVE  Kept'
    <3>1. /\ dir[b] # "none" /\ cur' = [cur EXCEPT ![c] = b]
          /\ cpc[c] = "next" /\ cpc' = [cpc EXCEPT ![c] = "write"]
          /\ img' = [img EXCEPT ![b] = "short"] /\ UNCHANGED <<dir, pos>>
          /\ dir[b] = "open" \/ AlsoAt(c, b) # {} => reasons'[b] # {}
          /\ AlsoAt(c, b) = {} => cok'[c] = (dir[b] = "whole")
          /\ \A q \in Compressor : q # c /\ q \notin AlsoAt(c, b) => cok'[q] = cok[q]
      BY <2>20, OpenEffect
    <3>2. AlsoAt(c, b) = {} => \A q \in Compressor : ~At(q, b)
      BY <3>1 DEF AlsoAt, At
    <3>3. \A q \in Compressor, a \in Run \ {b} : At(q, a) => q # c /\ q \notin AlsoAt(c, b)
      BY <3>1 DEF AlsoAt, At
    <3>4. dir[b] = "torn" /\ AlsoAt(c, b) = {} => Settled(b)
      BY <1>1, <3>2 DEF TornByRemoval
    <3>9. dir[b] # "whole" => Settled(b)'
      BY <1>0, <1>1, <3>1, <3>4 DEF Stays, TreeTypes
    <3>5. WritesWhole'
      <4> SUFFICES ASSUME NEW q \in Compressor, NEW a \in Run, At(q, a)', cpc'[q] = "write"
                   PROVE  /\ (cok'[q] /\ dir'[a] = "whole") \/ Settled(a)'
                          /\ img'[a] = "short" \/ reasons'[a] # {}
        BY DEF WritesWhole
      <4>1. CASE a = b
        <5>1. img'[a] = "short"
          BY <1>0, <3>1, <4>1 DEF TreeTypes
        <5>2. CASE AlsoAt(c, b) # {}
          BY <1>1, <3>1, <4>1, <5>1, <5>2 DEF Stays
        <5>3. CASE AlsoAt(c, b) = {}
          <6>1. q = c
            BY <1>0, <3>1, <3>2, <4>1, <5>3 DEF At, CompressTypes
          <6> QED
            BY <1>1, <3>1, <3>9, <4>1, <5>1, <5>3, <6>1 DEF Stays
        <5> QED
          BY <5>2, <5>3
      <4>2. CASE a # b
        <5>1. q # c /\ At(q, a) /\ cpc[q] = "write" /\ img'[a] = img[a]
          BY <1>0, <3>1, <4>2 DEF At, TreeTypes, CompressTypes
        <5>2. cok'[q] = cok[q]
          BY <3>1, <3>3, <4>2, <5>1
        <5> QED
          BY <1>1, <3>1, <5>1, <5>2 DEF Stays, WritesWhole
      <4> QED
        BY <4>1, <4>2
    <3>6. ImageFirst'
      BY <1>0, <1>1, <3>1, <3>2, <3>3, <3>4, <3>9 DEF Stays, ImageFirst, WritesWhole, At, TreeTypes, CompressTypes
    <3>7. TornByRemoval'
      BY <1>0, <1>1, <3>1, <3>2, <3>3, <3>4, <3>9 DEF Stays, TornByRemoval, At, TreeTypes, CompressTypes
    <3>8. NothingLost'
      BY <1>0, <1>1, <3>1, <3>2, <3>3, <3>4, <3>9 DEF Stays, NothingLost, ImageFirst, At, Restorable, Finished, TreeTypes, CompressTypes
    <3> QED
      BY <3>5, <3>6, <3>7, <3>8 DEF Kept
  <2>21. ASSUME NEW c \in Compressor, Copied(c)
        PROVE  Kept'
    <3>1. /\ cpc[c] = "write" /\ cur[c] \in Run
          /\ img' = [img EXCEPT ![cur[c]] = IF cok[c] /\ dir[cur[c]] = "whole" THEN "whole" ELSE "short"]
          /\ cpc' = [cpc EXCEPT ![c] = "copied"] /\ cok' = [cok EXCEPT ![c] = FALSE]
          /\ UNCHANGED <<dir, pos, cur>>
      BY <1>0, <2>21 DEF Copied, Set, catalog, backup, CompressTypes
    <3>2. ASSUME NEW q \in Compressor, q # c, At(q, cur[c])
          PROVE  reasons[cur[c]] # {}
      BY <1>2, <3>1, <3>2 DEF OneAtATime, At
    <3>5. WritesWhole'
      BY <1>0, <1>1, <3>1, <3>2 DEF Stays, WritesWhole, At, TreeTypes, CompressTypes
    <3>6. ImageFirst'
      BY <1>0, <1>1, <3>1, <3>2 DEF Stays, ImageFirst, WritesWhole, At, TreeTypes, CompressTypes
    <3>7. TornByRemoval'
      BY <1>0, <1>1, <3>1, <3>2 DEF Stays, TornByRemoval, At, TreeTypes, CompressTypes
    <3>8. NothingLost'
      BY <1>0, <1>1, <3>1, <3>2 DEF Stays, NothingLost, WritesWhole, ImageFirst, At, Restorable, Finished, TreeTypes, CompressTypes
    <3> QED
      BY <3>5, <3>6, <3>7, <3>8 DEF Kept
  <2>22. ASSUME NEW c \in Compressor, PipeFails(c)
        PROVE  Kept'
    <3>1. /\ cpc[c] = "write" /\ cur[c] \in Run /\ reasons'[cur[c]] # {}
          /\ img' = [img EXCEPT ![cur[c]] = "short"]
          /\ cpc' = [cpc EXCEPT ![c] = "copied"] /\ cok' = [cok EXCEPT ![c] = FALSE]
          /\ UNCHANGED <<dir, pos, cur>>
      BY <2>22, PipeFailsEffect
    <3>2. ASSUME NEW q \in Compressor, q # c, At(q, cur[c])
          PROVE  reasons[cur[c]] # {}
      BY <1>2, <3>1, <3>2 DEF OneAtATime, At
    <3>5. WritesWhole'
      BY <1>0, <1>1, <3>1, <3>2 DEF Stays, WritesWhole, At, TreeTypes, CompressTypes
    <3>6. ImageFirst'
      BY <1>0, <1>1, <3>1, <3>2 DEF Stays, ImageFirst, WritesWhole, At, TreeTypes, CompressTypes
    <3>7. TornByRemoval'
      BY <1>0, <1>1, <3>1, <3>2 DEF Stays, TornByRemoval, At, TreeTypes, CompressTypes
    <3>8. NothingLost'
      BY <1>0, <1>1, <3>1, <3>2 DEF Stays, NothingLost, ImageFirst, At, Restorable, Finished, TreeTypes, CompressTypes
    <3> QED
      BY <3>5, <3>6, <3>7, <3>8 DEF Kept
  <2>23. ASSUME NEW c \in Compressor, CopyFails(c)
        PROVE  Kept'
    <3>1. /\ UNCHANGED <<dir, img, pos>> /\ cpc[c] = "write"
          /\ cpc' = [cpc EXCEPT ![c] = "idle"]
          /\ cur' = [cur EXCEPT ![c] = None] /\ cok' = [cok EXCEPT ![c] = FALSE]
      BY <2>23 DEF CopyFails, StopCompress, Set, tree, catalog, backup
    <3>2. Quiet
      BY <1>0, <3>1 DEF Quiet, CompressTypes
    <3> QED
      BY <1>0, <1>1, <3>2, QuietStep
  <2>24. ASSUME NEW c \in Compressor, Remove(c)
        PROVE  Kept'
    <3>1. /\ cpc[c] = "copied" /\ cur[c] \in Run /\ cpc' = [cpc EXCEPT ![c] = "removing"]
          /\ dir' = [dir EXCEPT ![cur[c]] = IF dir[cur[c]] = "none" THEN "none" ELSE "torn"]
          /\ UNCHANGED <<img, pos, cur, cok>>
      BY <1>0, <2>24 DEF Remove, Set, catalog, backup, CompressTypes
    <3>2. ASSUME NEW q \in Compressor, q # c, At(q, cur[c])
          PROVE  reasons[cur[c]] # {}
      BY <1>2, <3>1, <3>2 DEF OneAtATime, At
    <3>5. WritesWhole'
      BY <1>0, <1>1, <3>1, <3>2 DEF Stays, WritesWhole, At, TreeTypes, CompressTypes
    <3>6. ImageFirst'
      BY <1>0, <1>1, <3>1, <3>2 DEF Stays, ImageFirst, WritesWhole, At, TreeTypes, CompressTypes
    <3>7. TornByRemoval'
      BY <1>0, <1>1, <3>1, <3>2 DEF Stays, TornByRemoval, At, TreeTypes, CompressTypes
    <3>8. NothingLost'
      BY <1>0, <1>1, <3>1, <3>2 DEF Stays, NothingLost, ImageFirst, At, Restorable, Finished, TreeTypes, CompressTypes
    <3> QED
      BY <3>5, <3>6, <3>7, <3>8 DEF Kept
  <2>25. ASSUME NEW c \in Compressor, Removed(c)
        PROVE  Kept'
    <3>1. /\ cpc[c] = "removing" /\ cur[c] \in Run /\ cpc' = [cpc EXCEPT ![c] = "next"]
          /\ dir' = [dir EXCEPT ![cur[c]] = "none"]
          /\ cur' = [cur EXCEPT ![c] = None] /\ cok' = [cok EXCEPT ![c] = FALSE]
          /\ UNCHANGED <<img, pos>>
      BY <1>0, <2>25 DEF Removed, Set, catalog, backup, CompressTypes
    <3>2. ASSUME NEW q \in Compressor, q # c, At(q, cur[c])
          PROVE  reasons[cur[c]] # {}
      BY <1>2, <3>1, <3>2 DEF OneAtATime, At
    <3>5. WritesWhole'
      BY <1>0, <1>1, <3>1, <3>2 DEF Stays, WritesWhole, At, TreeTypes, CompressTypes
    <3>6. ImageFirst'
      BY <1>0, <1>1, <3>1, <3>2 DEF Stays, ImageFirst, WritesWhole, At, TreeTypes, CompressTypes
    <3>7. TornByRemoval'
      BY <1>0, <1>1, <3>1, <3>2 DEF Stays, TornByRemoval, At, TreeTypes, CompressTypes
    <3>8. NothingLost'
      BY <1>0, <1>1, <3>1, <3>2 DEF Stays, NothingLost, ImageFirst, At, Restorable, Finished, TreeTypes, CompressTypes
    <3> QED
      BY <3>5, <3>6, <3>7, <3>8 DEF Kept
  <2>26. ASSUME NEW c \in Compressor, EndCompress(c)
        PROVE  Kept'
    <3>1. /\ UNCHANGED <<dir, img, pos>> /\ cpc[c] = "next"
          /\ cpc' = [cpc EXCEPT ![c] = "idle"]
          /\ cur' = [cur EXCEPT ![c] = None] /\ cok' = [cok EXCEPT ![c] = FALSE]
      BY <2>26 DEF EndCompress, StopCompress, Set, tree, catalog, backup
    <3>2. Quiet
      BY <1>0, <3>1 DEF Quiet, CompressTypes
    <3> QED
      BY <1>0, <1>1, <3>2, QuietStep
  <2>27. ASSUME NEW c \in Compressor, KilledCompress(c)
        PROVE  Kept'
    <3>1. /\ UNCHANGED <<dir, img, pos>> /\ cpc[c] # "removing"
          /\ cpc' = [cpc EXCEPT ![c] = "idle"]
          /\ cur' = [cur EXCEPT ![c] = None] /\ cok' = [cok EXCEPT ![c] = FALSE]
      BY <2>27 DEF KilledCompress, StopCompress, Set, tree, catalog, backup
    <3>2. Quiet
      BY <1>0, <3>1 DEF Quiet, CompressTypes
    <3> QED
      BY <1>0, <1>1, <3>2, QuietStep
  <2>28. ASSUME NEW c \in Compressor, KilledRemoving(c)
        PROVE  Kept'
    <3>1. /\ UNCHANGED <<dir, img, pos>> /\ reasons'[cur[c]] # {}
          /\ cpc' = [cpc EXCEPT ![c] = "idle"]
          /\ cur' = [cur EXCEPT ![c] = None] /\ cok' = [cok EXCEPT ![c] = FALSE]
      BY <2>28, KilledRemovingEffect
    <3>2. Quiet
      BY <1>0, <3>1 DEF Quiet, CompressTypes
    <3> QED
      BY <1>0, <1>1, <3>2, QuietStep
  <2>29. ASSUME NEW b \in Run, ExpireImage(b)
        PROVE  Kept'
    <3>1. /\ img' = [img EXCEPT ![b] = "none"] /\ UNCHANGED <<dir, pos, cpc, cur, cok>>
          /\ \A q \in Compressor : cpc[q] = "write" => cur[q] # b
      BY <2>29 DEF ExpireImage, Set, backup, compress
    <3>2. img[b] = "whole" => Excused(b)
      BY <2>29, ExpiryIsAnExcuse DEF ExpireImage
    <3>5. WritesWhole'
      BY <1>0, <1>1, <3>1, <3>2 DEF Stays, WritesWhole, At, TreeTypes, CompressTypes
    <3>6. ImageFirst'
      BY <1>0, <1>1, <3>1, <3>2 DEF Stays, ImageFirst, WritesWhole, At, TreeTypes, CompressTypes
    <3>7. TornByRemoval'
      BY <1>0, <1>1, <3>1, <3>2 DEF Stays, TornByRemoval, At, TreeTypes, CompressTypes
    <3>8. NothingLost'
      BY <1>0, <1>1, <3>1, <3>2 DEF Stays, NothingLost, ImageFirst, At, Restorable, Finished, TreeTypes, CompressTypes
    <3> QED
      BY <3>5, <3>6, <3>7, <3>8 DEF Kept
  <2>30. ASSUME NEW b \in Run, ExpireFiles(b)
        PROVE  Kept'
    <3>1. /\ dir' = [dir EXCEPT ![b] = "torn"] /\ UNCHANGED <<img, pos, cpc, cur, cok>>
      BY <2>30 DEF ExpireFiles, Set, backup, compress
    <3>2. Settled(b)
      BY <2>30, ExpiryIsAnExcuse DEF ExpireFiles
    <3>5. WritesWhole'
      BY <1>0, <1>1, <3>1, <3>2 DEF Stays, WritesWhole, At, TreeTypes, CompressTypes
    <3>6. ImageFirst'
      BY <1>0, <1>1, <3>1, <3>2 DEF Stays, ImageFirst, WritesWhole, At, TreeTypes, CompressTypes
    <3>7. TornByRemoval'
      BY <1>0, <1>1, <3>1, <3>2 DEF Stays, TornByRemoval, At, TreeTypes, CompressTypes
    <3>8. NothingLost'
      BY <1>0, <1>1, <3>1, <3>2 DEF Stays, NothingLost, ImageFirst, At, Restorable, Finished, TreeTypes, CompressTypes
    <3> QED
      BY <3>5, <3>6, <3>7, <3>8 DEF Kept
  <2>31. ASSUME Tick
        PROVE  Kept'
    <3>1. UNCHANGED <<dir, img, pos, cpc, cur, cok>>
      BY <2>31 DEF Tick, tree, catalog, backup, compress
    <3> QED
      BY <1>0, <1>1, <3>1, QuietStep DEF Quiet
  <2>32. CASE UNCHANGED vars
    <3>1. UNCHANGED <<dir, img, pos, cpc, cur, cok>>
      BY <2>32 DEF vars, tree, backup, compress
    <3> QED
      BY <1>0, <1>1, <3>1, QuietStep DEF Quiet
  <2> QED
    BY <2>1, <2>2, <2>3, <2>4, <2>5, <2>6, <2>7, <2>8, <2>9, <2>10, <2>11,
        <2>12, <2>13, <2>14, <2>15, <2>16, <2>17, <2>18, <2>19, <2>20, <2>21,
        <2>22, <2>23, <2>24, <2>25, <2>26, <2>27, <2>28, <2>29, <2>30, <2>31,
        <2>32
    DEF Next, DatabaseBackup, CompressDbxBak, RemoveDbxBak
<1> QED
  BY <1>3

-----------------------------------------------------------------------------
(* The binary logs begin where a finished backup ends.                     *)
LogsInv == logs # None => logs \in Run /\ Finished(logs)

(* Logs are purged only up to the backup the run has finished.             *)
LEMMA LogsStep ==
    ASSUME TypeOK, Fresh, LogsInv, Persists, [Next]_vars PROVE LogsInv'
<1>0. ASSUME logs' = logs PROVE LogsInv'
  BY <1>0 DEF LogsInv, Persists
<1>1. LogsInv'
  <2>1. ASSUME NEW r \in Run, StartFull(r)
        PROVE  LogsInv'
    <3>1. logs' = logs
      BY <2>1 DEF StartFull, catalog
    <3> QED
      BY <1>0, <3>1
  <2>2. ASSUME NEW r \in Run, StartIncremental(r)
        PROVE  LogsInv'
    <3>1. logs' = logs
      BY <2>2 DEF StartIncremental, catalog
    <3> QED
      BY <1>0, <3>1
  <2>3. ASSUME NEW r \in Run, ReadDirectory(r)
        PROVE  LogsInv'
    <3>1. logs' = logs
      BY <2>3 DEF ReadDirectory, catalog
    <3> QED
      BY <1>0, <3>1
  <2>4. ASSUME NEW r \in Run, ReadName(r)
        PROVE  LogsInv'
    <3>1. logs' = logs
      BY <2>4 DEF ReadName, catalog
    <3> QED
      BY <1>0, <3>1
  <2>5. ASSUME NEW r \in Run, Launch(r)
        PROVE  LogsInv'
    <3>1. logs' = logs
      BY <2>5 DEF Launch, catalog
    <3> QED
      BY <1>0, <3>1
  <2>6. ASSUME NEW r \in Run, BaseRefused(r)
        PROVE  LogsInv'
    <3>1. logs' = logs
      BY <2>6 DEF BaseRefused, catalog
    <3> QED
      BY <1>0, <3>1
  <2>7. ASSUME NEW r \in Run, ToolWrites(r)
        PROVE  LogsInv'
    <3>1. logs' = logs
      BY <2>7 DEF ToolWrites, catalog
    <3> QED
      BY <1>0, <3>1
  <2>8. ASSUME NEW r \in Run, ToolSucceeds(r)
        PROVE  LogsInv'
    <3>1. logs' = logs
      BY <2>8 DEF ToolSucceeds, catalog
    <3> QED
      BY <1>0, <3>1
  <2>9. ASSUME NEW r \in Run, ToolFails(r)
        PROVE  LogsInv'
    <3>1. logs' = logs
      BY <2>9 DEF ToolFails, catalog
    <3> QED
      BY <1>0, <3>1
  <2>10. ASSUME NEW r \in Run, Purge(r)
        PROVE  LogsInv'
    <3>1. Finished(r)
      BY <2>10 DEF Purge, Fresh
    <3>2. logs' = r \/ logs' = logs
      BY <2>10 DEF Purge
    <3> QED
      BY <1>0, <3>1, <3>2 DEF Persists, LogsInv
  <2>11. ASSUME NEW r \in Run, PurgeFails(r)
        PROVE  LogsInv'
    <3>1. logs' = logs
      BY <2>11 DEF PurgeFails, catalog
    <3> QED
      BY <1>0, <3>1
  <2>12. ASSUME NEW r \in Run, Register(r)
        PROVE  LogsInv'
    <3>1. logs' = logs
      BY <2>12 DEF Register
    <3> QED
      BY <1>0, <3>1
  <2>13. ASSUME NEW r \in Run, RegisterFails(r)
        PROVE  LogsInv'
    <3>1. logs' = logs
      BY <2>13 DEF RegisterFails, catalog
    <3> QED
      BY <1>0, <3>1
  <2>14. ASSUME NEW r \in Run, RemoveBase(r)
        PROVE  LogsInv'
    <3>1. logs' = logs
      BY <2>14 DEF RemoveBase, catalog
    <3> QED
      BY <1>0, <3>1
  <2>15. ASSUME NEW r \in Run, Killed(r)
        PROVE  LogsInv'
    <3>1. logs' = logs
      BY <2>15 DEF Killed, catalog
    <3> QED
      BY <1>0, <3>1
  <2>16. ASSUME NEW r \in Run, KilledInTool(r)
        PROVE  LogsInv'
    <3>1. logs' = logs
      BY <2>16 DEF KilledInTool, catalog
    <3> QED
      BY <1>0, <3>1
  <2>17. ASSUME NEW r \in Run, KilledInRemove(r)
        PROVE  LogsInv'
    <3>1. logs' = logs
      BY <2>17 DEF KilledInRemove, catalog
    <3> QED
      BY <1>0, <3>1
  <2>18. ASSUME NEW c \in Compressor, StartCompress(c)
        PROVE  LogsInv'
    <3>1. logs' = logs
      BY <2>18 DEF StartCompress, catalog
    <3> QED
      BY <1>0, <3>1
  <2>19. ASSUME NEW c \in Compressor, NEW b \in Run, Skip(c, b)
        PROVE  LogsInv'
    <3>1. logs' = logs
      BY <2>19 DEF Skip, catalog
    <3> QED
      BY <1>0, <3>1
  <2>20. ASSUME NEW c \in Compressor, NEW b \in Run, Open(c, b)
        PROVE  LogsInv'
    <3>1. logs' = logs
      BY <2>20 DEF Open, catalog
    <3> QED
      BY <1>0, <3>1
  <2>21. ASSUME NEW c \in Compressor, Copied(c)
        PROVE  LogsInv'
    <3>1. logs' = logs
      BY <2>21 DEF Copied, catalog
    <3> QED
      BY <1>0, <3>1
  <2>22. ASSUME NEW c \in Compressor, PipeFails(c)
        PROVE  LogsInv'
    <3>1. logs' = logs
      BY <2>22 DEF PipeFails, catalog
    <3> QED
      BY <1>0, <3>1
  <2>23. ASSUME NEW c \in Compressor, CopyFails(c)
        PROVE  LogsInv'
    <3>1. logs' = logs
      BY <2>23 DEF CopyFails, catalog
    <3> QED
      BY <1>0, <3>1
  <2>24. ASSUME NEW c \in Compressor, Remove(c)
        PROVE  LogsInv'
    <3>1. logs' = logs
      BY <2>24 DEF Remove, catalog
    <3> QED
      BY <1>0, <3>1
  <2>25. ASSUME NEW c \in Compressor, Removed(c)
        PROVE  LogsInv'
    <3>1. logs' = logs
      BY <2>25 DEF Removed, catalog
    <3> QED
      BY <1>0, <3>1
  <2>26. ASSUME NEW c \in Compressor, EndCompress(c)
        PROVE  LogsInv'
    <3>1. logs' = logs
      BY <2>26 DEF EndCompress, catalog
    <3> QED
      BY <1>0, <3>1
  <2>27. ASSUME NEW c \in Compressor, KilledCompress(c)
        PROVE  LogsInv'
    <3>1. logs' = logs
      BY <2>27 DEF KilledCompress, catalog
    <3> QED
      BY <1>0, <3>1
  <2>28. ASSUME NEW c \in Compressor, KilledRemoving(c)
        PROVE  LogsInv'
    <3>1. logs' = logs
      BY <2>28 DEF KilledRemoving, catalog
    <3> QED
      BY <1>0, <3>1
  <2>29. ASSUME NEW b \in Run, ExpireImage(b)
        PROVE  LogsInv'
    <3>1. logs' = logs
      BY <2>29 DEF ExpireImage, catalog
    <3> QED
      BY <1>0, <3>1
  <2>30. ASSUME NEW b \in Run, ExpireFiles(b)
        PROVE  LogsInv'
    <3>1. logs' = logs
      BY <2>30 DEF ExpireFiles, catalog
    <3> QED
      BY <1>0, <3>1
  <2>31. ASSUME Tick
        PROVE  LogsInv'
    <3>1. logs' = logs
      BY <2>31 DEF Tick, catalog
    <3> QED
      BY <1>0, <3>1
  <2>32. CASE UNCHANGED vars
    <3>1. logs' = logs
      BY <2>32 DEF vars, catalog
    <3> QED
      BY <1>0, <3>1
  <2> QED
    BY <2>1, <2>2, <2>3, <2>4, <2>5, <2>6, <2>7, <2>8, <2>9, <2>10, <2>11,
        <2>12, <2>13, <2>14, <2>15, <2>16, <2>17, <2>18, <2>19, <2>20, <2>21,
        <2>22, <2>23, <2>24, <2>25, <2>26, <2>27, <2>28, <2>29, <2>30, <2>31,
        <2>32
    DEF Next, DatabaseBackup, CompressDbxBak, RemoveDbxBak
<1> QED
  BY <1>1

KeepsInv == Fresh /\ Dated /\ OneAtATime /\ Kept /\ LogsInv

(* The parts together.                                                     *)
LEMMA KeepsStep == TypeOK /\ TypeOK' /\ KeepsInv /\ [Next]_vars => KeepsInv' /\ Stays
<1> SUFFICES ASSUME TypeOK, TypeOK', Fresh, Dated, OneAtATime, Kept, LogsInv, [Next]_vars
             PROVE  KeepsInv' /\ Stays
  BY DEF KeepsInv
<1>1. Persists /\ ReasonsStay
  BY PersistsStep, ReasonsStep
<1>2. Stays
  BY <1>1, StaysStep
<1>3. Fresh' /\ Dated' /\ OneAtATime'
  BY <1>1, FreshStep, DatedStep, OneAtATimeStep
<1>4. Kept'
  BY <1>2, KeptStep
<1>5. LogsInv'
  BY <1>1, LogsStep
<1> QED
  BY <1>2, <1>3, <1>4, <1>5 DEF KeepsInv

(* In the beginning there is nothing.                                      *)
LEMMA KeepsInit == Init => KeepsInv
<1> SUFFICES ASSUME Init PROVE KeepsInv
  OBVIOUS
<1>1. Fresh
  BY DEF Init, Fresh, NotStarted, Unfinished, Finished
<1>2. Dated /\ LogsInv
  BY DEF Init, Dated, LogsInv, Finished
<1>3. OneAtATime /\ Kept
  BY DEF Init, OneAtATime, Kept, WritesWhole, ImageFirst, TornByRemoval, NothingLost, At, Finished
<1> QED
  BY <1>1, <1>2, <1>3 DEF KeepsInv

(* The binary logs begin at a finished backup, registered or not, which can*)
(* be restored, or was begun more than three days ago, or met one of the   *)
(* events recorded in `reasons`.                                           *)
THEOREM LogsBeginAtAFinishedBackup == Spec => []LogsBeginAtABackup
<1>1. TypeOK /\ TypeOK' /\ KeepsInv /\ [Next]_vars => KeepsInv'
  BY KeepsStep
<1>2. KeepsInv => LogsBeginAtABackup
  BY DEF KeepsInv, Kept, LogsInv, NothingLost, LogsBeginAtABackup
<1> QED
  BY <1>1, <1>2, KeepsInit, RotationTypes, PTL DEF Spec

-----------------------------------------------------------------------------
(* What is lost does not come back.                                        *)
NoReturn ==
    \A b \in Run :
        /\ dir'[b] = "whole" => dir[b] = "whole" \/ ~Finished(b)
        /\ img'[b] = "whole" => img[b] = "whole" \/ dir[b] = "whole"

(* Only innobackupex makes a directory whole, and an image is whole only if*)
(* the directory was.                                                      *)
LEMMA NoReturnStep == TypeOK /\ Fresh /\ [Next]_vars => NoReturn
<1> SUFFICES ASSUME TypeOK, Fresh, [Next]_vars PROVE NoReturn
  OBVIOUS
<1>0. TreeTypes
  BY DEF TypeOK
<1>1. NoReturn
  <2>1. ASSUME NEW r \in Run, StartFull(r)
        PROVE  NoReturn
    BY <2>1, <1>0
    DEF StartFull, MakeDirectory, Set, catalog, compress, NoReturn,
        TreeTypes, Finished
  <2>2. ASSUME NEW r \in Run, StartIncremental(r)
        PROVE  NoReturn
    BY <2>2, <1>0
    DEF StartIncremental, Set, tree, catalog, compress, NoReturn, TreeTypes,
        Finished
  <2>3. ASSUME NEW r \in Run, ReadDirectory(r)
        PROVE  NoReturn
    BY <2>3, <1>0
    DEF ReadDirectory, Happens, Set, tree, catalog, compress, NoReturn, TreeTypes,
        Finished
  <2>4. ASSUME NEW r \in Run, ReadName(r)
        PROVE  NoReturn
    BY <2>4, <1>0
    DEF ReadName, Happens, Set, tree, catalog, compress, NoReturn, TreeTypes,
        Finished
  <2>5. ASSUME NEW r \in Run, Launch(r)
        PROVE  NoReturn
    BY <2>5, <1>0
    DEF Launch, MakeDirectory, Set, catalog, compress, NoReturn, TreeTypes,
        Finished
  <2>6. ASSUME NEW r \in Run, BaseRefused(r)
        PROVE  NoReturn
    BY <2>6, <1>0
    DEF BaseRefused, Set, tree, catalog, compress, NoReturn, TreeTypes,
        Finished
  <2>7. ASSUME NEW r \in Run, ToolWrites(r)
        PROVE  NoReturn
    BY <2>7, <1>0
    DEF ToolWrites, Set, catalog, backup, compress, NoReturn, TreeTypes,
        Finished
  <2>8. ASSUME NEW r \in Run, ToolSucceeds(r)
        PROVE  NoReturn
    <3>1. /\ pos[r] = 0 /\ img' = img
          /\ dir' = [dir EXCEPT ![r] = IF dir[r] = "open" THEN "whole" ELSE "torn"]
      BY <2>8, ToolSucceedsEffect
    <3> QED
      BY <1>0, <3>1 DEF NoReturn, TreeTypes, Finished
  <2>9. ASSUME NEW r \in Run, ToolFails(r)
        PROVE  NoReturn
    BY <2>9, <1>0
    DEF ToolFails, Set, catalog, compress, NoReturn, TreeTypes, Finished
  <2>10. ASSUME NEW r \in Run, Purge(r)
        PROVE  NoReturn
    BY <2>10, <1>0
    DEF Purge, Set, tree, compress, NoReturn, TreeTypes, Finished
  <2>11. ASSUME NEW r \in Run, PurgeFails(r)
        PROVE  NoReturn
    BY <2>11, <1>0
    DEF PurgeFails, Set, tree, catalog, compress, NoReturn, TreeTypes,
        Finished
  <2>12. ASSUME NEW r \in Run, Register(r)
        PROVE  NoReturn
    BY <2>12, <1>0
    DEF Register, Set, tree, compress, NoReturn, TreeTypes, Finished
  <2>13. ASSUME NEW r \in Run, RegisterFails(r)
        PROVE  NoReturn
    BY <2>13, <1>0
    DEF RegisterFails, Set, tree, catalog, compress, NoReturn, TreeTypes,
        Finished
  <2>14. ASSUME NEW r \in Run, RemoveBase(r)
        PROVE  NoReturn
    <3>1. dir' = [dir EXCEPT ![rname[r]] = "none"] /\ img' = img
      BY <2>14, RemoveBaseEffect
    <3> QED
      BY <1>0, <3>1 DEF NoReturn, TreeTypes
  <2>15. ASSUME NEW r \in Run, Killed(r)
        PROVE  NoReturn
    BY <2>15, <1>0
    DEF Killed, Set, tree, catalog, compress, NoReturn, TreeTypes, Finished
  <2>16. ASSUME NEW r \in Run, KilledInTool(r)
        PROVE  NoReturn
    BY <2>16, <1>0
    DEF KilledInTool, Set, catalog, compress, NoReturn, TreeTypes, Finished
  <2>17. ASSUME NEW r \in Run, KilledInRemove(r)
        PROVE  NoReturn
    <3>1. dir' = [dir EXCEPT ![rname[r]] = "torn"] /\ img' = img
      BY <2>17, KilledInRemoveEffect
    <3> QED
      BY <1>0, <3>1 DEF NoReturn, TreeTypes
  <2>18. ASSUME NEW c \in Compressor, StartCompress(c)
        PROVE  NoReturn
    BY <2>18, <1>0
    DEF StartCompress, Set, tree, catalog, backup, NoReturn, TreeTypes,
        Finished
  <2>19. ASSUME NEW c \in Compressor, NEW b \in Run, Skip(c, b)
        PROVE  NoReturn
    BY <2>19, <1>0
    DEF Skip, Set, tree, catalog, backup, NoReturn, TreeTypes, Finished
  <2>20. ASSUME NEW c \in Compressor, NEW b \in Run, Open(c, b)
        PROVE  NoReturn
    <3>1. dir' = dir /\ img' = [img EXCEPT ![b] = "short"]
      BY <2>20, OpenEffect
    <3> QED
      BY <1>0, <3>1 DEF NoReturn, TreeTypes
  <2>21. ASSUME NEW c \in Compressor, Copied(c)
        PROVE  NoReturn
    <3>1. dir' = dir /\ img' = [img EXCEPT ![cur[c]] =
                                  IF cok[c] /\ dir[cur[c]] = "whole" THEN "whole" ELSE "short"]
      BY <2>21 DEF Copied, Set
    <3> QED
      BY <1>0, <3>1 DEF NoReturn, TreeTypes
  <2>22. ASSUME NEW c \in Compressor, PipeFails(c)
        PROVE  NoReturn
    <3>1. dir' = dir /\ img' = [img EXCEPT ![cur[c]] = "short"]
      BY <2>22, PipeFailsEffect
    <3> QED
      BY <1>0, <3>1 DEF NoReturn, TreeTypes
  <2>23. ASSUME NEW c \in Compressor, CopyFails(c)
        PROVE  NoReturn
    BY <2>23, <1>0
    DEF CopyFails, Set, tree, catalog, backup, NoReturn, TreeTypes, Finished
  <2>24. ASSUME NEW c \in Compressor, Remove(c)
        PROVE  NoReturn
    BY <2>24, <1>0
    DEF Remove, Set, catalog, backup, NoReturn, TreeTypes, Finished
  <2>25. ASSUME NEW c \in Compressor, Removed(c)
        PROVE  NoReturn
    BY <2>25, <1>0
    DEF Removed, Set, catalog, backup, NoReturn, TreeTypes, Finished
  <2>26. ASSUME NEW c \in Compressor, EndCompress(c)
        PROVE  NoReturn
    BY <2>26, <1>0
    DEF EndCompress, Set, tree, catalog, backup, NoReturn, TreeTypes,
        Finished
  <2>27. ASSUME NEW c \in Compressor, KilledCompress(c)
        PROVE  NoReturn
    BY <2>27, <1>0
    DEF KilledCompress, Set, tree, catalog, backup, NoReturn, TreeTypes,
        Finished
  <2>28. ASSUME NEW c \in Compressor, KilledRemoving(c)
        PROVE  NoReturn
    <3>1. dir' = dir /\ img' = img
      BY <2>28, KilledRemovingEffect
    <3> QED
      BY <3>1 DEF NoReturn
  <2>29. ASSUME NEW b \in Run, ExpireImage(b)
        PROVE  NoReturn
    BY <2>29, <1>0
    DEF ExpireImage, Set, catalog, backup, compress, NoReturn, TreeTypes,
        Finished
  <2>30. ASSUME NEW b \in Run, ExpireFiles(b)
        PROVE  NoReturn
    BY <2>30, <1>0
    DEF ExpireFiles, Set, catalog, backup, compress, NoReturn, TreeTypes,
        Finished
  <2>31. ASSUME Tick
        PROVE  NoReturn
    BY <2>31, <1>0
    DEF Tick, tree, catalog, backup, compress, NoReturn, TreeTypes, Finished
  <2>32. CASE UNCHANGED vars
    BY <2>32, <1>0
    DEF vars, tree, catalog, backup, compress, NoReturn, TreeTypes, Finished
  <2> QED
    BY <2>1, <2>2, <2>3, <2>4, <2>5, <2>6, <2>7, <2>8, <2>9, <2>10, <2>11,
        <2>12, <2>13, <2>14, <2>15, <2>16, <2>17, <2>18, <2>19, <2>20, <2>21,
        <2>22, <2>23, <2>24, <2>25, <2>26, <2>27, <2>28, <2>29, <2>30, <2>31,
        <2>32
    DEF Next, DatabaseBackup, CompressDbxBak, RemoveDbxBak
<1> QED
  BY <1>1

(* The scripts implement the shelf: under the mapping of BackupRotation,   *)
(* what was finished can be restored unless it is excused (three days have *)
(* passed since it was begun, or one of the events of `reasons` happened), *)
(* nothing lost comes back, and an excuse stays one.                       *)
THEOREM RotationImplementsShelf == Spec => ShelfSpec
<1> DEFINE points  == {b \in Run : Restorable(b)}
           gone    == {b \in Run : Finished(b) /\ ~Restorable(b)}
           excused == {b \in Run : Excused(b)}
<1>1. Init => Shelf!Init
  BY DEF Init, Shelf!Init, Restorable, Excused, Finished
<1>2. TypeOK /\ TypeOK' /\ KeepsInv /\ [Next]_vars => Shelf!Next
  <2> SUFFICES ASSUME TypeOK, TypeOK', KeepsInv, [Next]_vars PROVE Shelf!Next
    OBVIOUS
  <2>1. KeepsInv' /\ Stays /\ Persists /\ NoReturn
    BY KeepsStep, PersistsStep, NoReturnStep DEF KeepsInv
  <2>2. excused \subseteq excused'
    BY <2>1 DEF Stays
  <2>3. gone' \subseteq excused'
    BY <2>1 DEF KeepsInv, Kept, NothingLost
  <2>4. \A b \in Run : Finished(b) /\ Restorable(b)' => Restorable(b)
    BY <2>1 DEF NoReturn, Restorable
  <2>5. gone \subseteq gone'
    BY <2>1, <2>4 DEF Persists
  <2>6. points \subseteq points' \cup gone'
    BY <2>1 DEF Persists, Restorable
  <2>7. points' \cap gone' = {}
    OBVIOUS
  <2> QED
    BY <2>2, <2>3, <2>5, <2>6, <2>7 DEF Shelf!Next
<1>3. TypeOK /\ TypeOK' /\ KeepsInv /\ [Next]_vars => KeepsInv'
  BY KeepsStep
<1> QED
  BY <1>1, <1>2, <1>3, KeepsInit, RotationTypes, PTL DEF Spec, ShelfSpec, Shelf!Spec
=============================================================================
