--------------------------- MODULE PdbRestoreProofs ---------------------------
(***************************************************************************)
(* Theorems about PdbRestore, for every set of backups, restores, targets  *)
(* and faults.  The invariants of PdbBackupProofs hold beside restores,    *)
(* which change none of its variables; one about the files is added to     *)
(* them, and above it come those about what is in a target.                *)
(***************************************************************************)
EXTENDS PdbRestore, PdbBackupProofs

-----------------------------------------------------------------------------
(* The files.                                                              *)

(* A tool that runs has the file at its path to itself or has spoilt it,   *)
(* and a whole file is that of a tool that ended well.                     *)
FilesInv ==
    /\ \A p \in Invocation : ToolRuns(p) =>
           files[PathOf(p)].state = "mixed" \/ files[PathOf(p)].by = p
    /\ \A path \in Path : files[path].state = "complete" =>
           /\ files[path].by \in Invocation
           /\ tool[files[path].by].state = "ok"
    /\ \A p \in Invocation : pc[p] = "idle" => name[p] = Null

BackupInv == TypeInv /\ BaseInv /\ SoloInv /\ ChainInv /\ FilesInv

(* There are no files and no names at first.                               *)
LEMMA FilesInvInit == Init => FilesInv
  BY DEF Init, FilesInv, ToolRuns

(* What a tool that ended well has done is never changed.                  *)
LEMMA OkToolKept ==
    ASSUME TypeInv, SoloInv, NEW p \in Invocation, Step(p),
           NEW q \in Invocation, tool[q].state = "ok"
    PROVE  tool'[q] = tool[q] /\ name'[q] = name[q]
  <1>1. CASE q # p
    BY <1>1, StepFrame
  <1>2. CASE q = p
    <2>1. pc[p] \in {"readCheckpoint", "insert", "done", "dead"}
      BY <1>2 DEF SoloInv, Solo
    <2>2. UNCHANGED <<tool, name>>
      BY <2>1 DEF Step, Start, ReadBaseName, ReadBaseLsn, Launch, ToolOpensCheckpoint,
         ToolWritesCheckpoint, ToolSucceeds, ToolFails, ReadCheckpoint, Insert, Crash,
         ToolRuns
    <2> QED
      BY <1>2, <2>2
  <1> QED
    BY <1>1, <1>2

(* A file that is opened is not whole, and is spoilt for whoever has it    *)
(* open.                                                                   *)
LEMMA LaunchOpens ==
    ASSUME TypeInv, NEW p \in Invocation, Launch(p)
    PROVE  /\ files'[PathOf(p)].state # "complete"
           /\ \A q \in Invocation \ {p} : ToolRuns(q) /\ PathOf(q) = PathOf(p) =>
                  files'[PathOf(p)].state = "mixed"
  <1>1. PathOf(p) \in Path
    BY PathType DEF Launch, Started
  <1>2. files'[PathOf(p)] =
            [state |-> IF \E q \in {r \in Invocation \ {p} : ToolRuns(r)} :
                              PathOf(q) = PathOf(p)
                       THEN "mixed" ELSE "partial", by |-> p]
    BY <1>1 DEF Launch, TypeInv, TypeOK
  <1> QED
    BY <1>2

(* Every step of an invocation keeps the files' invariant.                 *)
LEMMA FilesInvStep ==
    ASSUME TypeInv, SoloInv, ChainInv, FilesInv, NEW p \in Invocation, Step(p)
    PROVE  FilesInv'
  <1>1. ASSUME NEW q \in Invocation, ToolRuns(q)'
        PROVE  (files[PathOf(q)].state = "mixed" \/ files[PathOf(q)].by = q)'
    <2>1. CASE Launch(p) /\ q = p
      <3>1. PathOf(p)' = PathOf(p) /\ PathOf(p) \in Path
        BY <2>1, PathKept, PathType DEF Launch, Started
      <3>2. files'[PathOf(p)].by = p
        BY <2>1, <3>1 DEF Launch, TypeInv, TypeOK
      <3> QED
        BY <2>1, <3>1, <3>2
    <2>2. CASE ~(Launch(p) /\ q = p)
      <3>1. ToolRuns(q)
        BY <1>1, <2>2, StepPc, StepFrame DEF ToolRuns
      <3>2. PathOf(q)' = PathOf(q) /\ PathOf(q) \in Path
        BY <3>1, PathKept, PathType DEF ToolRuns, Started
      <3>3. files[PathOf(q)].state = "mixed" \/ files[PathOf(q)].by = q
        BY <3>1 DEF FilesInv
      <3>4. Launch(p) /\ PathOf(q) = PathOf(p) => files'[PathOf(q)].state = "mixed"
        BY <2>2, <3>1, LaunchOpens
      <3> QED
        BY <3>2, <3>3, <3>4, FilesStep
    <2> QED
      BY <2>1, <2>2
  <1>2. ASSUME NEW path \in Path, files'[path].state = "complete"
        PROVE  files'[path].by \in Invocation /\ tool'[files'[path].by].state = "ok"
    <2>1. CASE files'[path] = files[path]
      BY <1>2, <2>1, OkToolKept DEF FilesInv
    <2>2. CASE /\ ToolSucceeds(p) /\ path = PathOf(p)
               /\ files'[path].by = files[path].by
               /\ files[path].state = "mixed" => files'[path].state = "mixed"
      <3>1. files'[path].by = p
        BY <1>2, <2>2 DEF FilesInv, ToolSucceeds, ToolRuns
      <3>2. tool'[p].state = "ok"
        BY <2>2 DEF ToolSucceeds, TypeInv, TypeOK, ToolState
      <3> QED
        BY <3>1, <3>2
    <2> QED
      BY <1>2, <2>1, <2>2, FilesStep, LaunchOpens
  <1>3. ASSUME NEW q \in Invocation, pc'[q] = "idle" PROVE name'[q] = Null
    <2>1. q # p
      BY <1>3, StepPc
    <2> QED
      BY <1>3, <2>1, StepFrame DEF FilesInv
  <1> QED
    BY <1>1, <1>2, <1>3 DEF FilesInv

(* All the invariants of the backups hold at first ...                     *)
LEMMA BackupInvInit == Init => BackupInv
  BY TypeInvInit, BaseInvInit, SoloInvInit, ChainInvInit, FilesInvInit DEF BackupInv

(* ... and after every step.                                               *)
LEMMA BackupInvNext == BackupInv /\ [Next]_vars => BackupInv'
  <1> SUFFICES ASSUME BackupInv, [Next]_vars PROVE BackupInv'
    OBVIOUS
  <1>1. FilesInv'
    <2>1. CASE \E p \in Invocation : Step(p)
      BY <2>1, FilesInvStep DEF BackupInv
    <2>2. CASE UNCHANGED <<table, rows, ckpt, files, pc, cmd, name, base, meta,
                           tool, alone, hist>>
      BY <2>2 DEF BackupInv, FilesInv, ToolRuns, PathOf
    <2> QED
      BY <2>1, <2>2, OtherSteps DEF BackupInv
  <1>2. TypeInv' /\ BaseInv' /\ SoloInv' /\ ChainInv'
    BY TypeInvNext, BaseInvNext, SoloInvNext, ChainInvNext DEF BackupInv
  <1> QED
    BY <1>1, <1>2 DEF BackupInv

(* What a restore has read of hisdb and of the backups that ended well     *)
(* stays what it was, whatever the backups do.                             *)
LEMMA BackupsKeep ==
    ASSUME BackupInv, [Next]_vars
    PROVE  /\ Len(rows) \in Nat /\ Len(rows') \in Nat /\ Len(rows) <= Len(rows')
           /\ \A i \in 1 .. Len(rows) : rows'[i] = rows[i]
           /\ cmd' = cmd
           /\ \A q \in Invocation : tool[q].state = "ok" =>
                  tool'[q] = tool[q] /\ name'[q] = name[q]
  <1> USE DEF BackupInv
  <1>1. CASE \E p \in Invocation : Step(p)
    BY <1>1, RowsKept, OkToolKept, StepGlobals
  <1>2. CASE UNCHANGED <<table, rows, ckpt, files, pc, cmd, name, base, meta,
                         tool, alone, hist>>
    BY <1>2 DEF TypeInv, TypeOK
  <1> QED
    BY <1>1, <1>2, OtherSteps

-----------------------------------------------------------------------------
(* Types.                                                                  *)

HasJob == {"extract", "decompress", "apply", "remove", "success", "failed"}

(* A restore has a job as soon as it is past its first step, and not       *)
(* before; and is at the incremental backup only then.                     *)
RTypes ==
    /\ RTypeOK
    /\ job \in [Restorer -> Job \cup {Null}]
    /\ \A r \in Restorer :
          /\ job[r] = Null => rpc[r] \in {"idle", "refused"} /\ part[r] = "base"
          /\ job[r] # Null => rpc[r] \in HasJob /\ job[r] \in Job

(* What the commands leave behind is a directory.                          *)
LEMMA Directories ==
    /\ Empty \in Directory /\ Damaged \in Directory
    /\ TypeInv => \A q \in Invocation : Unpacked(q) \in Directory
    /\ Empty # Damaged /\ Empty.state = "empty" /\ Damaged.state = "damaged"
    /\ \A q \in Invocation : Unpacked(q) # Empty
  <1>1. 0 \in Lsn
    BY BoundAssumption DEF Lsn
  <1>2. ASSUME TypeInv, NEW q \in Invocation PROVE Unpacked(q) \in Directory
    <2>1. cmd[q].compress \in BOOLEAN /\ tool[q].to \in Lsn
      BY <1>2, CommandAssumption DEF TypeInv, TypeOK, ToolState, Form
    <2> QED
      BY <2>1 DEF Unpacked, Directory
  <1>3. Empty \in Directory /\ Damaged \in Directory
    BY <1>1 DEF Empty, Damaged, Directory
  <1>4. Empty.state = "empty" /\ Damaged.state = "damaged"
    BY DEF Empty, Damaged
  <1>5. ASSUME NEW q \in Invocation PROVE Unpacked(q).state = "extracted"
    BY DEF Unpacked
  <1> QED
    BY <1>2, <1>3, <1>4, <1>5

(* Extracting into a directory leaves it alone, spoils it if it was empty, *)
(* or puts into an empty one what is in a whole file.                      *)
LEMMA ExtractedCases ==
    ASSUME BackupInv, NEW path, NEW d \in Directory,
           NEW result \in Extracted(path, d)
    PROVE  /\ result.dir \in Directory
           /\ \/ result.dir = d
              \/ d = Empty /\ result.dir = Damaged
              \/ /\ d = Empty /\ path \in Path /\ files[path].state = "complete"
                 /\ files[path].by \in Invocation
                 /\ result.dir = Unpacked(files[path].by)
  <1>1. CASE FileStateAt(path) = "complete"
    <2>1. path \in Path /\ files[path].state = "complete"
      BY <1>1 DEF FileStateAt
    <2>2. files[path].by \in Invocation
      BY <2>1 DEF BackupInv, FilesInv
    <2>3. result = IF d = Empty THEN [ok |-> TRUE, dir |-> Unpacked(files[path].by)]
                   ELSE [ok |-> FALSE, dir |-> d]
      BY <1>1 DEF Extracted
    <2> QED
      BY <2>1, <2>2, <2>3, Directories DEF BackupInv
  <1>2. CASE FileStateAt(path) # "complete"
    <2>1. result.dir \in {d, IF d = Empty THEN Damaged ELSE d}
      BY <1>2 DEF Extracted
    <2> QED
      BY <2>1, Directories
  <1> QED
    BY <1>1, <1>2

(* Extracting a whole file into an empty directory works.                  *)
LEMMA ExtractedWhole ==
    ASSUME NEW path \in Path, files[path].state = "complete",
           NEW result \in Extracted(path, Empty)
    PROVE  result.ok /\ result.dir = Unpacked(files[path].by)
  BY DEF Extracted, FileStateAt

(* Putting something into a target changes that part of that target.       *)
LEMMA PutChanges ==
    ASSUME RTypes, NEW r \in Restorer, job[r] # Null,
           NEW x \in Part, NEW d \in Directory, Put(r, x, d)
    PROVE  /\ target' \in [Target -> [Part -> Directory]]
           /\ target'[job[r].into][x] = d
           /\ \A y \in Part \ {x} : target'[job[r].into][y] = Dirs(r)[y]
           /\ \A t \in Target \ {job[r].into} : target'[t] = target[t]
  <1>1. job[r].into \in Target
    BY DEF RTypes, Job
  <1> QED
    BY <1>1 DEF RTypes, RTypeOK, Put, Dirs

(* A restore that has a job has a directory to put things into.            *)
LEMMA DirsType ==
    ASSUME RTypes, NEW r \in Restorer, job[r] # Null
    PROVE  /\ job[r] \in Job /\ job[r].into \in Target
           /\ Dirs(r) \in [Part -> Directory]
           /\ Dirs(r).base \in Directory /\ Dirs(r).incr \in Directory
           /\ part[r] \in Part /\ Dirs(r)[part[r]] \in Directory
  <1>1. job[r] \in Job /\ job[r].into \in Target
    BY DEF RTypes, Job
  <1> QED
    BY <1>1 DEF RTypes, RTypeOK, Dirs, Part

(* The steps of a restore leave hisdb and the backups alone.               *)
LEMMA RStepKeeps ==
    ASSUME NEW r \in Restorer, RStep(r)
    PROVE  UNCHANGED vars
  BY DEF RStep, ReadContent, FindNothing, Extract, Decompress, ApplyBase,
     ApplyIncrement, RemoveIncrement, Unlucky

(* So, from the backups' side, every step is one of theirs or none.        *)
LEMMA RNextIsNext ==
    ASSUME [RNext]_allVars
    PROVE  /\ [Next]_vars
           /\ UNCHANGED rvars \/ \E r \in Restorer : RStep(r) /\ UNCHANGED vars
  BY RStepKeeps DEF RNext, allVars

(* Restores take nothing away from backups: what PdbBackup promises, hisdb *)
(* as a catalog, rows that are accurate and chains that are sound, holds   *)
(* beside any number of them, whatever they read and delete meanwhile.     *)
THEOREM BackupsBesideRestores ==
    RSpec => /\ CatalogSpec
             /\ [](LsnsOrdered /\ SoloBackupIsRecordedAccurately /\ ChainIsSound)
<1>1. RInit => Init
  BY DEF RInit
<1>2. [RNext]_allVars => [Next]_vars
  BY RNextIsNext
<1>3. RSpec => Spec
  BY <1>1, <1>2, PTL DEF RSpec, Spec
<1> QED
  BY <1>3, HisdbIsACatalog, LsnsStayOrdered, SoloBackupsAreAccurate,
     ChainsAreSound, PTL

(* A command that fails: where the restore ends.                           *)
LEMMA UnluckyStep ==
    ASSUME RTypes, NEW r \in Restorer, job[r] # Null, Unlucky(r)
    PROVE  /\ Put(r, part[r], Damaged) /\ part[r] \in Part
           /\ rpc' = [rpc EXCEPT ![r] = "failed"]
           /\ unlucky' = unlucky \cup {r}
           /\ job' = job /\ part' = part /\ UNCHANGED vars
  BY DirsType DEF Unlucky, RGoto

(* What a step of r does to the variables: it picks its row, or ends       *)
(* without one, or works in its own target.                                *)
RFrame(r) ==
    /\ unlucky \subseteq unlucky'
    /\ \A s \in Restorer \ {r} :
          /\ rpc'[s] = rpc[s] /\ job'[s] = job[s] /\ part'[s] = part[s]
          /\ s \in unlucky' <=> s \in unlucky
    /\ job[r] # Null =>
          /\ job'[r] = job[r]
          /\ \A t \in Target \ {job[r].into} : target'[t] = target[t]
    /\ job[r] = Null =>
          /\ target' = target /\ part' = part /\ unlucky' = unlucky
          /\ \/ rpc'[r] = "refused" /\ job' = job
             \/ rpc'[r] = "extract" /\ job'[r] \in Job
                /\ job'[r].id \in 1 .. Len(rows)

(* A row's fields, as a restore uses them.                                 *)
LEMMA RowForJob ==
    ASSUME TypeInv, NEW id \in 1 .. Len(rows), NEW from \in Dir \cup {Null},
           NEW into \in Target, ~Refused(rows[id].type)
    PROVE  LET row == rows[id]
               src == IF from = Null THEN row.dir ELSE from
               own == <<src, row.name>>
           IN  [id |-> id, from |-> from, into |-> into, type |-> row.type,
                incr |-> own,
                base |-> IF row.type = "full-backuped" THEN own
                         ELSE <<src, row.baseon>>] \in Job
  <1> DEFINE row == rows[id]
             src == IF from = Null THEN row.dir ELSE from
             own == <<src, row.name>>
  <1>1. row \in Row
    BY DEF TypeInv, TypeOK
  <1>2. /\ row.type \in Type \ {""} /\ row.dir \in Dir /\ row.name \in Name
        /\ row.baseon \in Name \cup {Null}
    BY <1>1 DEF Row, Refused
  <1>3. src \in Dir
    BY <1>2
  <1>4. own \in Path /\ own \in Dir \X (Name \cup {Null})
        /\ <<src, row.baseon>> \in Dir \X (Name \cup {Null})
    BY <1>2, <1>3 DEF Path
  <1>5. id \in Nat
    BY DEF TypeInv, TypeOK
  <1> QED
    BY <1>2, <1>4, <1>5 DEF Job

(* Every step of a restore keeps the types, and does no more than that.    *)
LEMMA RStepTypes ==
    ASSUME BackupInv, RTypes, NEW r \in Restorer, RStep(r)
    PROVE  RTypes' /\ RFrame(r)
  <1>0. /\ rows' = rows /\ UNCHANGED vars
        /\ rpc \in [Restorer -> {"idle", "refused", "extract", "decompress",
                                 "apply", "remove", "success", "failed"}]
        /\ part \in [Restorer -> Part] /\ unlucky \subseteq Restorer
        /\ job \in [Restorer -> Job \cup {Null}]
        /\ target \in [Target -> [Part -> Directory]]
    BY RStepKeeps DEF RTypes, RTypeOK, vars, store
  <1>a. ASSUME rpc[r] \notin {"idle", "refused"} PROVE job[r] # Null
    BY <1>a DEF RTypes
  (* the shape of all steps but ReadContent and FindNothing *)
  <1>b. ASSUME job[r] # Null, NEW l \in HasJob, rpc' = [rpc EXCEPT ![r] = l],
               job' = job,
               part' \in [Restorer -> Part],
               \A s \in Restorer \ {r} : part'[s] = part[s],
               unlucky' \subseteq Restorer, unlucky \subseteq unlucky',
               \A s \in Restorer \ {r} : s \in unlucky' <=> s \in unlucky,
               \/ target' = target
               \/ \E x \in Part, d \in Directory : Put(r, x, d)
        PROVE  RTypes' /\ RFrame(r)
    <2>1. /\ target' \in [Target -> [Part -> Directory]]
          /\ \A t \in Target \ {job[r].into} : target'[t] = target[t]
      BY <1>0, <1>b, PutChanges
    <2>2. rpc' \in [Restorer -> {"idle", "refused", "extract", "decompress",
                                 "apply", "remove", "success", "failed"}]
      BY <1>0, <1>b DEF HasJob
    <2>3. RFrame(r)
      BY <1>0, <1>b, <2>1 DEF RFrame
    <2>4. ASSUME NEW s \in Restorer
          PROVE  /\ job[s] = Null => rpc'[s] \in {"idle", "refused"} /\ part'[s] = "base"
                 /\ job[s] # Null => rpc'[s] \in HasJob /\ job[s] \in Job
                                     /\ job[s].id \in 1 .. Len(rows)
      BY <1>0, <1>b DEF RTypes, RTypeOK, HasJob
    <2> QED
      BY <1>0, <1>b, <2>1, <2>2, <2>3, <2>4 DEF RTypes, RTypeOK, HasJob
  <1>c. ASSUME job[r] # Null, Unlucky(r) PROVE RTypes' /\ RFrame(r)
    <2>1. /\ Put(r, part[r], Damaged) /\ part[r] \in Part /\ Damaged \in Directory
          /\ rpc' = [rpc EXCEPT ![r] = "failed"] /\ "failed" \in HasJob
          /\ unlucky' = unlucky \cup {r} /\ job' = job /\ part' = part
      BY <1>c, UnluckyStep, Directories DEF HasJob
    <2> QED
      BY <1>0, <1>b, <1>c, <2>1
  <1>1. CASE ReadContent(r)
    <2>0. rpc[r] = "idle" /\ job[r] = Null /\ target' = target /\ part' = part
          /\ unlucky' = unlucky
      BY <1>1 DEF ReadContent, RTypes, HasJob
    <2>1. PICK id \in 1 .. Len(rows), from \in Dir \cup {Null}, into \in Target :
            LET row == rows[id]
                src == IF from = Null THEN row.dir ELSE from
                own == <<src, row.name>>
            IN  IF Refused(row.type)
                THEN rpc' = [rpc EXCEPT ![r] = "refused"] /\ UNCHANGED job
                ELSE /\ rpc' = [rpc EXCEPT ![r] = "extract"]
                     /\ job' = [job EXCEPT ![r] =
                           [id   |-> id, from |-> from, into |-> into,
                            type |-> row.type, incr |-> own,
                            base |-> IF row.type = "full-backuped" THEN own
                                     ELSE <<src, row.baseon>>]]
      BY <1>1 DEF ReadContent, RGoto
    <2>2. CASE Refused(rows[id].type)
      BY <1>0, <2>0, <2>1, <2>2 DEF RTypes, RTypeOK, RFrame, HasJob
    <2>3. CASE ~Refused(rows[id].type)
      <3>1. PICK j \in Job : j.id = id /\ job' = [job EXCEPT ![r] = j]
        BY <2>1, <2>3, RowForJob DEF BackupInv
      <3>2. rpc' = [rpc EXCEPT ![r] = "extract"]
        BY <2>1, <2>3
      <3>3. RFrame(r)
        BY <1>0, <2>0, <3>1, <3>2 DEF RFrame
      <3>4. RTypeOK'
        BY <1>0, <2>0, <3>1, <3>2 DEF RTypes, RTypeOK
      <3>5. job' \in [Restorer -> Job \cup {Null}]
        BY <1>0, <3>1
      <3>6. ASSUME NEW s \in Restorer
            PROVE  /\ job'[s] = Null => rpc'[s] \in {"idle", "refused"} /\ part'[s] = "base"
                   /\ job'[s] # Null => rpc'[s] \in HasJob /\ job'[s] \in Job
        BY <1>0, <2>0, <3>1, <3>2, JobAssumption DEF RTypes, HasJob
      <3> QED
        BY <3>3, <3>4, <3>5, <3>6 DEF RTypes
    <2> QED
      BY <2>2, <2>3
  <1>2. CASE FindNothing(r)
    <2>1. job[r] = Null /\ rpc' = [rpc EXCEPT ![r] = "refused"]
          /\ UNCHANGED <<target, job, part, unlucky>>
      BY <1>2 DEF FindNothing, RGoto, RTypes, HasJob
    <2> QED
      BY <1>0, <2>1 DEF RTypes, RTypeOK, RFrame, HasJob
  <1>3. CASE Extract(r)
    <2>1. job[r] # Null
      BY <1>3, <1>a DEF Extract
    <2>2. CASE \E result \in Extracted(File(r), Dirs(r)[part[r]]) :
                   /\ Put(r, part[r], result.dir)
                   /\ RGoto(r, IF result.ok THEN "decompress" ELSE "failed")
               /\ UNCHANGED <<vars, job, part, unlucky>>
      <3>1. PICK result \in Extracted(File(r), Dirs(r)[part[r]]) :
                   /\ Put(r, part[r], result.dir)
                   /\ RGoto(r, IF result.ok THEN "decompress" ELSE "failed")
        BY <2>2
      <3>2. result.dir \in Directory /\ part[r] \in Part
        BY <2>1, <3>1, ExtractedCases, DirsType
      <3>3. PICK l \in HasJob : rpc' = [rpc EXCEPT ![r] = l]
        BY <3>1 DEF RGoto, HasJob
      <3> QED
        BY <1>0, <1>b, <2>1, <2>2, <3>1, <3>2, <3>3
    <2> QED
      BY <1>3, <1>c, <2>1, <2>2 DEF Extract
  <1>4. CASE Decompress(r)
    <2>1. job[r] # Null
      BY <1>4, <1>a DEF Decompress
    <2>2. [Dirs(r)[part[r]] EXCEPT !.packed = FALSE] \in Directory /\ part[r] \in Part
      BY <2>1, DirsType DEF Directory
    <2>3. rpc' = [rpc EXCEPT ![r] = "apply"] /\ "apply" \in HasJob
          /\ job' = job /\ part' = part
      BY <1>4 DEF Decompress, RGoto, HasJob
    <2>4. unlucky' \subseteq unlucky \cup {r} /\ unlucky \subseteq unlucky'
          /\ (target' = target \/ Put(r, part[r], [Dirs(r)[part[r]] EXCEPT !.packed = FALSE]))
      BY <1>4 DEF Decompress
    <2> QED
      BY <1>0, <1>b, <2>1, <2>2, <2>3, <2>4
  <1>5. CASE ApplyBase(r)
    <2>1. job[r] # Null
      BY <1>5, <1>a DEF ApplyBase
    <2>2. CASE /\ Put(r, "base", [Dirs(r).base EXCEPT !.state = "prepared"])
               /\ IF IsFull(job[r].type)
                  THEN RGoto(r, "success") /\ UNCHANGED part
                  ELSE RGoto(r, "extract") /\ part' = [part EXCEPT ![r] = "incr"]
               /\ UNCHANGED <<vars, job, unlucky>>
      <3>1. [Dirs(r).base EXCEPT !.state = "prepared"] \in Directory /\ "base" \in Part
        BY <2>1, DirsType DEF Directory, Part
      <3>2. PICK l \in HasJob : rpc' = [rpc EXCEPT ![r] = l]
        BY <2>2 DEF RGoto, HasJob
      <3>3. part' \in [Restorer -> Part] /\ \A s \in Restorer \ {r} : part'[s] = part[s]
        BY <1>0, <2>2 DEF Part
      <3> QED
        BY <1>0, <1>b, <2>1, <2>2, <3>1, <3>2, <3>3
    <2>3. CASE RGoto(r, "failed") /\ UNCHANGED <<vars, target, job, part, unlucky>>
      <3>1. rpc' = [rpc EXCEPT ![r] = "failed"] /\ "failed" \in HasJob
        BY <2>3 DEF RGoto, HasJob
      <3> QED
        BY <1>0, <1>b, <2>1, <2>3, <3>1
    <2> QED
      BY <1>5, <1>c, <2>1, <2>2, <2>3 DEF ApplyBase
  <1>6. CASE ApplyIncrement(r)
    <2>1. job[r] # Null
      BY <1>6, <1>a DEF ApplyIncrement
    <2>2. CASE /\ Put(r, "base", [Dirs(r).base EXCEPT !.to = Dirs(r).incr.to])
               /\ RGoto(r, "remove")
               /\ UNCHANGED <<vars, job, part, unlucky>>
      <3>1. [Dirs(r).base EXCEPT !.to = Dirs(r).incr.to] \in Directory /\ "base" \in Part
        BY <2>1, DirsType DEF Directory, Part
      <3>2. rpc' = [rpc EXCEPT ![r] = "remove"] /\ "remove" \in HasJob
        BY <2>2 DEF RGoto, HasJob
      <3> QED
        BY <1>0, <1>b, <2>1, <2>2, <3>1, <3>2
    <2>3. CASE RGoto(r, "failed") /\ UNCHANGED <<vars, target, job, part, unlucky>>
      <3>1. rpc' = [rpc EXCEPT ![r] = "failed"] /\ "failed" \in HasJob
        BY <2>3 DEF RGoto, HasJob
      <3> QED
        BY <1>0, <1>b, <2>1, <2>3, <3>1
    <2> QED
      BY <1>6, <1>c, <2>1, <2>2, <2>3 DEF ApplyIncrement
  <1>7. CASE RemoveIncrement(r)
    <2>1. job[r] # Null
      BY <1>7, <1>a DEF RemoveIncrement
    <2>2. /\ Put(r, "incr", Empty) /\ "incr" \in Part /\ Empty \in Directory
          /\ rpc' = [rpc EXCEPT ![r] = "success"] /\ "success" \in HasJob
          /\ UNCHANGED <<job, part, unlucky>>
      BY <1>7, Directories DEF RemoveIncrement, RGoto, HasJob, Part
    <2> QED
      BY <1>0, <1>b, <2>1, <2>2
  <1> QED
    BY <1>1, <1>2, <1>3, <1>4, <1>5, <1>6, <1>7 DEF RStep

(* Nothing has been read and every target is empty at first.               *)
LEMMA RTypesInit == RInit => RTypes
  <1> SUFFICES ASSUME RInit PROVE RTypes
    OBVIOUS
  <1>1. target \in [Target -> [Part -> Directory]]
    BY Directories DEF RInit
  <1>2. /\ rpc \in [Restorer -> {"idle"}] /\ part \in [Restorer -> Part]
        /\ job \in [Restorer -> Job \cup {Null}] /\ unlucky = {}
        /\ \A r \in Restorer : rpc[r] = "idle" /\ job[r] = Null /\ part[r] = "base"
    BY DEF RInit, Part
  <1> QED
    BY <1>1, <1>2 DEF RTypes, RTypeOK

(* The types hold after every step.                                        *)
LEMMA RTypesNext == BackupInv /\ RTypes /\ [RNext]_allVars => RTypes'
  <1> SUFFICES ASSUME BackupInv, RTypes, [RNext]_allVars PROVE RTypes'
    OBVIOUS
  <1>1. CASE UNCHANGED rvars
    <2>1. \A i \in 1 .. Len(rows) : i \in 1 .. Len(rows')
      BY RNextIsNext, BackupsKeep
    <2> QED
      BY <1>1, <2>1 DEF RTypes, RTypeOK, rvars
  <1>2. CASE \E r \in Restorer : RStep(r)
    BY <1>2, RStepTypes
  <1> QED
    BY <1>1, <1>2, RNextIsNext

(* A restore works on a row of hisdb, and every target holds a directory,  *)
(* whichever restores and backups run and whatever fails.                  *)
THEOREM RestoreTypes == RSpec => []RTypeOK
  <1>1. RInit => BackupInv /\ RTypes
    BY BackupInvInit, RTypesInit DEF RInit
  <1>2. BackupInv /\ RTypes /\ [RNext]_allVars => BackupInv' /\ RTypes'
    BY BackupInvNext, RTypesNext, RNextIsNext
  <1>3. RTypes => RTypeOK
    BY DEF RTypes
  <1> QED
    BY <1>1, <1>2, <1>3, PTL DEF RSpec

-----------------------------------------------------------------------------
(* What a restore that has its target for itself has in it.                *)

(* The directory r restores from, and what r has read: still what the row  *)
(* says.                                                                   *)
Source(r) == IF job[r].from = Null THEN rows[job[r].id].dir ELSE job[r].from

JobInv ==
    \A r \in Restorer : job[r] # Null =>
        /\ job[r].type = rows[job[r].id].type
        /\ job[r].incr = <<Source(r), rows[job[r].id].name>>
        /\ job[r].base = <<Source(r), IF IsFull(job[r].type)
                                      THEN rows[job[r].id].name
                                      ELSE rows[job[r].id].baseon>>

(* A directory that nobody restores into is empty.                         *)
UnusedInv ==
    \A t \in Target :
        (\A r \in Restorer : job[r] # Null => job[r].into # t)
        => target[t].base = Empty /\ target[t].incr = Empty

(* d holds the backup named n of somebody whose tool ended well, as it     *)
(* came out of its file.                                                   *)
Holds(d, n) ==
    /\ d.of \in Invocation
    /\ tool[d.of].state = "ok"
    /\ name[d.of] = n
    /\ d.to = tool[d.of].to

Prepared(d) == d.state = "prepared" /\ ~d.packed

(* The log in d has been applied up to the end of the backup named n.      *)
Reached(d, n) ==
    \E q \in Invocation : tool[q].state = "ok" /\ name[q] = n /\ d.to = tool[q].to

AtBase(r) ==
    part[r] = "base" =>
        /\ rpc[r] = "extract" => Dirs(r).base = Empty
        /\ rpc[r] # "failed" => Dirs(r).incr = Empty
        /\ rpc[r] \in {"decompress", "apply"} =>
               /\ Dirs(r).base.state # "prepared"
               /\ Dirs(r).base.state = "extracted" =>
                      Holds(Dirs(r).base, job[r].base[2])
        /\ rpc[r] = "success" => IsFull(job[r].type)
        /\ rpc[r] # "remove"

AtIncrement(r) ==
    part[r] = "incr" =>
        /\ ~IsFull(job[r].type)
        /\ rpc[r] \in {"extract", "decompress", "apply"} =>
               Prepared(Dirs(r).base) /\ Holds(Dirs(r).base, job[r].base[2])
        /\ rpc[r] = "extract" => Dirs(r).incr = Empty
        /\ rpc[r] \in {"decompress", "apply"} /\ Dirs(r).incr.state = "extracted" =>
               Holds(Dirs(r).incr, job[r].incr[2])

AtEnd(r) ==
    /\ rpc[r] \in {"remove", "success"} =>
           /\ Prepared(Dirs(r).base)
           /\ Dirs(r).base.of \in Invocation
           /\ tool[Dirs(r).base.of].state = "ok"
           /\ name[Dirs(r).base.of] = job[r].base[2]
           /\ Reached(Dirs(r).base, job[r].incr[2])
    /\ rpc[r] = "success" => Dirs(r).incr = Empty

Progress(r) == AtBase(r) /\ AtIncrement(r) /\ AtEnd(r)

ProgressInv == \A r \in Restorer : job[r] # Null /\ SoleUser(r) => Progress(r)

RestoreInv == BackupInv /\ RTypes /\ JobInv /\ UnusedInv /\ ProgressInv

(* No restore has a job and every target is empty at first.                *)
LEMMA RestoreInvInit == RInit => RestoreInv
  <1> SUFFICES ASSUME RInit PROVE RestoreInv
    OBVIOUS
  <1>1. \A r \in Restorer : job[r] = Null
    BY DEF RInit
  <1>2. \A t \in Target : target[t].base = Empty /\ target[t].incr = Empty
    BY DEF RInit, Part
  <1>3. BackupInv /\ RTypes
    BY BackupInvInit, RTypesInit DEF RInit
  <1> QED
    BY <1>1, <1>2, <1>3 DEF RestoreInv, JobInv, UnusedInv, ProgressInv

(* What comes out of a whole file is the backup whose name the file has.   *)
LEMMA UnpackedHolds ==
    ASSUME BackupInv, NEW path \in Path, files[path].state = "complete"
    PROVE  Holds(Unpacked(files[path].by), path[2])
  <1>1. files[path].by \in Invocation /\ tool[files[path].by].state = "ok"
    BY DEF BackupInv, FilesInv
  <1>2. PathOf(files[path].by) = path
    BY <1>1, NullAssumption DEF BackupInv, ChainInv, Owned
  <1>3. name[files[path].by] = path[2]
    BY <1>2 DEF PathOf
  <1> QED
    BY <1>1, <1>3 DEF Holds, Unpacked

(* Whoever has a target for itself after a step had it before, and a step  *)
(* of somebody else does not touch it.                                     *)
LEMMA StillSole ==
    ASSUME RTypes, NEW s \in Restorer, RFrame(s),
           NEW r \in Restorer, job[r] # Null, SoleUser(r)'
    PROVE  /\ job'[r] = job[r] /\ SoleUser(r)
           /\ r # s => /\ target'[job[r].into] = target[job[r].into]
                       /\ rpc'[r] = rpc[r] /\ part'[r] = part[r]
                       /\ r \in unlucky' <=> r \in unlucky
  <1>1. job'[r] = job[r]
    BY DEF RFrame
  <1>2. ASSUME NEW u \in Restorer \ {r}, job[u] # Null
        PROVE  job'[u] = job[u] /\ job[u].into # job[r].into
    <2>1. job'[u] = job[u]
      BY <1>2 DEF RFrame
    <2> QED
      BY <1>1, <1>2, <2>1 DEF SoleUser
  <1>3. SoleUser(r)
    BY <1>2 DEF SoleUser
  <1>4. ASSUME r # s
        PROVE  target'[job[r].into] = target[job[r].into]
    <2>1. job[r].into \in Target
      BY DirsType
    <2> QED
      BY <1>2, <1>4, <2>1 DEF RFrame
  <1> QED
    BY <1>1, <1>3, <1>4 DEF RFrame

(* Whoever has just got a target for itself finds it empty.                *)
LEMMA NewSole ==
    ASSUME RTypes, UnusedInv, NEW r \in Restorer, RFrame(r),
           job[r] = Null, job'[r] # Null, SoleUser(r)'
    PROVE  /\ Dirs(r).base' = Empty /\ Dirs(r).incr' = Empty
           /\ rpc'[r] = "extract" /\ part'[r] = "base"
           /\ unlucky' = unlucky
  <1>1. job'[r] \in Job /\ job'[r].into \in Target /\ target' = target
        /\ rpc'[r] = "extract" /\ part'[r] = "base" /\ unlucky' = unlucky
    BY DEF RFrame, RTypes, Job
  <1>2. \A u \in Restorer : job[u] # Null => job[u].into # job'[r].into
    BY DEF RFrame, SoleUser
  <1>3. target[job'[r].into].base = Empty /\ target[job'[r].into].incr = Empty
    BY <1>1, <1>2 DEF UnusedInv
  <1> QED
    BY <1>1, <1>3 DEF Dirs

(* A step of a restore keeps unused targets empty.                         *)
LEMMA UnusedInvStep ==
    ASSUME RTypes, UnusedInv, NEW r \in Restorer, RFrame(r)
    PROVE  UnusedInv'
  <1> SUFFICES ASSUME NEW t \in Target,
                      \A s \in Restorer : job'[s] # Null => job'[s].into # t
               PROVE  target'[t].base = Empty /\ target'[t].incr = Empty
    BY DEF UnusedInv
  <1>1. \A s \in Restorer : job[s] # Null => job'[s] = job[s]
    BY DEF RFrame
  <1>2. \A s \in Restorer : job[s] # Null => job[s].into # t
    BY <1>1
  <1>3. target'[t] = target[t]
    BY <1>2 DEF RFrame
  <1> QED
    BY <1>2, <1>3 DEF UnusedInv

(* A restore reads its row once, and hisdb keeps the row.                  *)
LEMMA JobInvStep ==
    ASSUME BackupInv, RTypes, JobInv, NEW r \in Restorer, RStep(r)
    PROVE  JobInv'
  <1> SUFFICES ASSUME NEW s \in Restorer, job'[s] # Null
               PROVE  (/\ job[s].type = rows[job[s].id].type
                       /\ job[s].incr = <<Source(s), rows[job[s].id].name>>
                       /\ job[s].base = <<Source(s), IF IsFull(job[s].type)
                                                     THEN rows[job[s].id].name
                                                     ELSE rows[job[s].id].baseon>>)'
    BY DEF JobInv
  <1>1. RFrame(r) /\ rows' = rows /\ job \in [Restorer -> Job \cup {Null}]
    BY RStepTypes, RStepKeeps DEF vars, store, RTypes
  <1>2. CASE job'[s] = job[s]
    BY <1>1, <1>2 DEF JobInv, Source
  <1>3. CASE job'[s] # job[s]
    <2>1. s = r /\ job[r] = Null
      BY <1>1, <1>3 DEF RFrame
    <2>2. ReadContent(r)
      <3>1. rpc[r] \in {"idle", "refused"}
        BY <2>1 DEF RTypes
      <3>2. CASE FindNothing(r)
        BY <1>3, <2>1, <3>2 DEF FindNothing
      <3> QED
        BY <3>1, <3>2 DEF RStep, Extract, Decompress, ApplyBase, ApplyIncrement,
           RemoveIncrement
    <2>3. PICK id \in 1 .. Len(rows), from \in Dir \cup {Null}, into \in Target :
            LET row == rows[id]
                src == IF from = Null THEN row.dir ELSE from
                own == <<src, row.name>>
            IN  job' = [job EXCEPT ![r] =
                           [id   |-> id, from |-> from, into |-> into,
                            type |-> row.type, incr |-> own,
                            base |-> IF row.type = "full-backuped" THEN own
                                     ELSE <<src, row.baseon>>]]
      BY <1>3, <2>1, <2>2 DEF ReadContent
    <2>4. LET row == rows[id]
              src == IF from = Null THEN row.dir ELSE from
              own == <<src, row.name>>
          IN  job'[r] = [id   |-> id, from |-> from, into |-> into,
                         type |-> row.type, incr |-> own,
                         base |-> IF row.type = "full-backuped" THEN own
                                  ELSE <<src, row.baseon>>]
      BY <1>1, <2>3
    <2> QED
      BY <1>1, <2>1, <2>4 DEF Source, IsFull
  <1> QED
    BY <1>2, <1>3

(* The steps of r, in terms of its own two directories.  Extracting, unless *)
(* xbstream itself fails, starts from an empty one.                        *)
LEMMA ExtractStep ==
    ASSUME RestoreInv, NEW r \in Restorer, job[r] # Null, SoleUser(r), Extract(r),
           job'[r] = job[r], r \notin unlucky' \/ rpc'[r] # "failed"
    PROVE  /\ rpc[r] = "extract" /\ part'[r] = part[r]
           /\ Dirs(r)[part[r]] = Empty
           /\ \A y \in Part \ {part[r]} : Dirs(r)'[y] = Dirs(r)[y]
           /\ \E result \in Extracted(File(r), Empty) :
                 /\ Dirs(r)'[part[r]] = result.dir
                 /\ rpc'[r] = IF result.ok THEN "decompress" ELSE "failed"
  <1>0. RTypes /\ BackupInv
    BY DEF RestoreInv
  <1>1. rpc[r] = "extract" /\ part[r] \in {"base", "incr"} /\ Progress(r)
        /\ rpc' = [rpc EXCEPT ![r] = rpc'[r]]
        /\ rpc \in [Restorer -> {"idle", "refused", "extract", "decompress",
                                 "apply", "remove", "success", "failed"}]
    BY DirsType DEF RestoreInv, RTypes, RTypeOK, ProgressInv, Extract, Unlucky, RGoto, Part
  <1>2. Dirs(r)[part[r]] = Empty
    BY <1>1 DEF Progress, AtBase, AtIncrement
  <1>3. ~Unlucky(r)
    <2> SUFFICES ASSUME Unlucky(r) PROVE FALSE
      OBVIOUS
    <2>1. rpc' = [rpc EXCEPT ![r] = "failed"] /\ unlucky' = unlucky \cup {r}
      BY DEF Unlucky, RGoto
    <2> QED
      BY <1>1, <2>1
  <1>4. PICK result \in Extracted(File(r), Dirs(r)[part[r]]) :
              /\ Put(r, part[r], result.dir)
              /\ RGoto(r, IF result.ok THEN "decompress" ELSE "failed")
              /\ part' = part
    BY <1>3 DEF Extract
  <1>5. result.dir \in Directory /\ part[r] \in Part
    BY <1>0, <1>4, DirsType, ExtractedCases
  <1>6. /\ Dirs(r)'[part[r]] = result.dir
        /\ \A y \in Part \ {part[r]} : Dirs(r)'[y] = Dirs(r)[y]
    BY <1>0, <1>4, <1>5, PutChanges DEF Dirs
  <1>7. rpc'[r] = IF result.ok THEN "decompress" ELSE "failed"
    BY <1>1, <1>4 DEF RGoto
  <1> QED
    BY <1>1, <1>2, <1>4, <1>6, <1>7

(* Decompressing unpacks the directory at hand, or fails unnoticed.        *)
LEMMA DecompressStep ==
    ASSUME RTypes, NEW r \in Restorer, job[r] # Null, Decompress(r),
           job'[r] = job[r]
    PROVE  /\ rpc[r] = "decompress" /\ rpc'[r] = "apply" /\ part'[r] = part[r]
           /\ \A y \in Part \ {part[r]} : Dirs(r)'[y] = Dirs(r)[y]
           /\ \/ Dirs(r)'[part[r]] = [Dirs(r)[part[r]] EXCEPT !.packed = FALSE]
              \/ Dirs(r)'[part[r]] = Dirs(r)[part[r]] /\ r \in unlucky'
  <1>1. /\ rpc[r] = "decompress" /\ rpc' = [rpc EXCEPT ![r] = "apply"] /\ part' = part
        /\ rpc \in [Restorer -> {"idle", "refused", "extract", "decompress",
                                 "apply", "remove", "success", "failed"}]
    BY DEF Decompress, RGoto, RTypes, RTypeOK
  <1>2. CASE Put(r, part[r], [Dirs(r)[part[r]] EXCEPT !.packed = FALSE])
    <2>1. [Dirs(r)[part[r]] EXCEPT !.packed = FALSE] \in Directory /\ part[r] \in Part
      BY DirsType DEF Directory
    <2> QED
      BY <1>1, <1>2, <2>1, PutChanges DEF Dirs
  <1>3. CASE target' = target /\ unlucky' = unlucky \cup {r}
    BY <1>1, <1>3 DEF Dirs
  <1> QED
    BY <1>2, <1>3 DEF Decompress

(* The log is applied to the base if innobackupex accepts it.              *)
LEMMA ApplyBaseStep ==
    ASSUME RTypes, NEW r \in Restorer, job[r] # Null, ApplyBase(r),
           job'[r] = job[r], r \notin unlucky' \/ rpc'[r] # "failed"
    PROVE  /\ rpc[r] = "apply" /\ part[r] = "base"
           /\ \/ /\ Preparable(Dirs(r).base)
                 /\ Dirs(r).base' = [Dirs(r).base EXCEPT !.state = "prepared"]
                 /\ Dirs(r).incr' = Dirs(r).incr
                 /\ IF IsFull(job[r].type)
                    THEN rpc'[r] = "success" /\ part'[r] = "base"
                    ELSE rpc'[r] = "extract" /\ part'[r] = "incr"
              \/ ~Preparable(Dirs(r).base) /\ rpc'[r] = "failed" /\ part'[r] = "base"
  <1>1. /\ rpc[r] = "apply" /\ part[r] = "base" /\ part \in [Restorer -> Part]
        /\ rpc \in [Restorer -> {"idle", "refused", "extract", "decompress",
                                 "apply", "remove", "success", "failed"}]
    BY DEF ApplyBase, RTypes, RTypeOK
  <1>2. CASE /\ Preparable(Dirs(r).base)
             /\ Put(r, "base", [Dirs(r).base EXCEPT !.state = "prepared"])
             /\ IF IsFull(job[r].type)
                THEN RGoto(r, "success") /\ UNCHANGED part
                ELSE RGoto(r, "extract") /\ part' = [part EXCEPT ![r] = "incr"]
    <2>1. [Dirs(r).base EXCEPT !.state = "prepared"] \in Directory
          /\ "base" \in Part /\ "incr" \in Part \ {"base"}
      BY DirsType DEF Directory, Part
    <2>2. Dirs(r).base' = [Dirs(r).base EXCEPT !.state = "prepared"]
          /\ Dirs(r).incr' = Dirs(r).incr
      BY <1>2, <2>1, PutChanges DEF Dirs
    <2> QED
      BY <1>1, <1>2, <2>2 DEF RGoto
  <1>3. CASE ~Preparable(Dirs(r).base) /\ RGoto(r, "failed") /\ part' = part
    BY <1>1, <1>3 DEF RGoto
  <1>4. CASE Unlucky(r)
    BY <1>1, <1>4, UnluckyStep
  <1> QED
    BY <1>2, <1>3, <1>4 DEF ApplyBase

(* The increment is applied if it starts where the base ends.              *)
LEMMA ApplyIncrementStep ==
    ASSUME RTypes, NEW r \in Restorer, job[r] # Null, ApplyIncrement(r),
           job'[r] = job[r], r \notin unlucky' \/ rpc'[r] # "failed"
    PROVE  /\ rpc[r] = "apply" /\ part[r] = "incr" /\ part'[r] = "incr"
           /\ \/ /\ Appliable(Dirs(r).base, Dirs(r).incr)
                 /\ Dirs(r).base' = [Dirs(r).base EXCEPT !.to = Dirs(r).incr.to]
                 /\ Dirs(r).incr' = Dirs(r).incr
                 /\ rpc'[r] = "remove"
              \/ ~Appliable(Dirs(r).base, Dirs(r).incr) /\ rpc'[r] = "failed"
  <1>1. /\ rpc[r] = "apply" /\ part[r] = "incr"
        /\ rpc \in [Restorer -> {"idle", "refused", "extract", "decompress",
                                 "apply", "remove", "success", "failed"}]
    BY DEF ApplyIncrement, RTypes, RTypeOK
  <1>2. CASE /\ Appliable(Dirs(r).base, Dirs(r).incr)
             /\ Put(r, "base", [Dirs(r).base EXCEPT !.to = Dirs(r).incr.to])
             /\ RGoto(r, "remove") /\ part' = part
    <2>1. [Dirs(r).base EXCEPT !.to = Dirs(r).incr.to] \in Directory
          /\ "base" \in Part /\ "incr" \in Part \ {"base"}
      BY DirsType DEF Directory, Part
    <2>2. Dirs(r).base' = [Dirs(r).base EXCEPT !.to = Dirs(r).incr.to]
          /\ Dirs(r).incr' = Dirs(r).incr
      BY <1>2, <2>1, PutChanges DEF Dirs
    <2> QED
      BY <1>1, <1>2, <2>2 DEF RGoto
  <1>3. CASE ~Appliable(Dirs(r).base, Dirs(r).incr) /\ RGoto(r, "failed") /\ part' = part
    BY <1>1, <1>3 DEF RGoto
  <1>4. CASE Unlucky(r)
    BY <1>1, <1>4, UnluckyStep
  <1> QED
    BY <1>2, <1>3, <1>4 DEF ApplyIncrement

(* At the end the increment's directory is removed.                        *)
LEMMA RemoveIncrementStep ==
    ASSUME RTypes, NEW r \in Restorer, job[r] # Null, RemoveIncrement(r),
           job'[r] = job[r]
    PROVE  /\ rpc[r] = "remove" /\ rpc'[r] = "success" /\ part'[r] = part[r]
           /\ Dirs(r).base' = Dirs(r).base /\ Dirs(r).incr' = Empty
  <1>1. /\ rpc[r] = "remove" /\ part' = part
        /\ rpc \in [Restorer -> {"idle", "refused", "extract", "decompress",
                                 "apply", "remove", "success", "failed"}]
        /\ Put(r, "incr", Empty) /\ rpc' = [rpc EXCEPT ![r] = "success"]
        /\ "incr" \in Part /\ "base" \in Part \ {"incr"} /\ Empty \in Directory
    BY Directories DEF RemoveIncrement, RTypes, RTypeOK, RGoto, Part
  <1> QED
    BY <1>1, PutChanges DEF Dirs

(* A restore that has failed stays where it was.                           *)
LEMMA FailedStep ==
    ASSUME RTypes, NEW r \in Restorer, job[r] # Null, RStep(r),
           rpc'[r] = "failed", part[r] = "base" \/ ~IsFull(job[r].type),
           job'[r] = job[r]
    PROVE  Progress(r)'
  <1>1. part'[r] = part[r] \/ ~IsFull(job[r].type)
    <2>1. CASE ApplyBase(r)
      <3>1. part' = part \/ ~IsFull(job[r].type)
        BY <2>1 DEF ApplyBase, Unlucky
      <3> QED
        BY <3>1
    <2>2. CASE ~ApplyBase(r)
      BY <2>2 DEF RStep, ReadContent, FindNothing, Extract, Decompress,
         ApplyIncrement, RemoveIncrement, Unlucky
    <2> QED
      BY <2>1, <2>2
  <1>2. ~IsFull(job[r].type) => ~IsFull(job[r].type)'
    BY DEF IsFull
  <1> QED
    BY <1>1, <1>2 DEF Progress, AtBase, AtIncrement, AtEnd

(* A step of r that does not fail keeps Progress.                          *)
LEMMA ProgressSelf ==
    ASSUME RestoreInv, NEW r \in Restorer, job[r] # Null, SoleUser(r), RStep(r),
           job'[r] = job[r]
    PROVE  Progress(r)'
  <1>0. /\ Progress(r) /\ RTypes /\ BackupInv
        /\ tool' = tool /\ name' = name /\ part[r] \in {"base", "incr"}
        /\ rpc[r] \in HasJob
    BY RStepKeeps, DirsType DEF RestoreInv, ProgressInv, vars, Part, RTypes
  <1>j. IsFull(job[r].type)' <=> IsFull(job[r].type)
    BY DEF IsFull
  <1>f. ASSUME rpc'[r] = "failed", rpc[r] \notin {"idle", "refused"} PROVE Progress(r)'
    BY <1>0, <1>f, FailedStep DEF Progress, AtIncrement
  <1>1. CASE Extract(r) /\ rpc'[r] # "failed"
    <2>1. /\ rpc[r] = "extract" /\ part'[r] = part[r] /\ rpc'[r] = "decompress"
          /\ \A y \in Part \ {part[r]} : Dirs(r)'[y] = Dirs(r)[y]
      BY <1>1, ExtractStep
    <2>2. PICK result \in Extracted(File(r), Empty) :
                 Dirs(r)'[part[r]] = result.dir
      BY <1>1, ExtractStep
    <2>3. /\ Dirs(r)'[part[r]].state # "prepared"
          /\ Dirs(r)'[part[r]].state = "extracted" =>
                 Holds(Dirs(r)'[part[r]], File(r)[2])
      <3>1. CASE result.dir \in {Empty, Damaged}
        BY <2>2, <3>1, Directories
      <3>2. CASE /\ File(r) \in Path /\ files[File(r)].state = "complete"
                 /\ result.dir = Unpacked(files[File(r)].by)
        <4>1. Holds(Unpacked(files[File(r)].by), File(r)[2])
          BY <1>0, <3>2, UnpackedHolds
        <4>2. Unpacked(files[File(r)].by).state = "extracted"
          BY DEF Unpacked
        <4> QED
          BY <2>2, <3>2, <4>1, <4>2
      <3> QED
        BY <1>0, <2>2, <3>1, <3>2, Directories, ExtractedCases
    <2>4. CASE part[r] = "base"
      <3>1. "incr" \in Part \ {"base"} /\ File(r) = job[r].base
        BY <2>4 DEF Part, File
      <3>2. AtBase(r)'
        BY <1>0, <2>1, <2>3, <2>4, <3>1 DEF Progress, AtBase, Holds, Dirs
      <3> QED
        BY <2>1, <2>4, <3>2 DEF Progress, AtIncrement, AtEnd
    <2>5. CASE part[r] = "incr"
      <3>1. "base" \in Part \ {"incr"} /\ File(r) = job[r].incr
        BY <2>5 DEF Part, File
      <3>2. Dirs(r)'.base = Dirs(r).base
        BY <2>1, <2>5, <3>1
      <3>3. AtIncrement(r)'
        BY <1>0, <1>j, <2>1, <2>3, <2>5, <3>1, <3>2
           DEF Progress, AtIncrement, Holds, Prepared
      <3> QED
        BY <2>1, <2>5, <3>3 DEF Progress, AtBase, AtEnd
    <2> QED
      BY <1>0, <2>4, <2>5
  <1>2. CASE Decompress(r)
    <2>1. /\ rpc[r] = "decompress" /\ rpc'[r] = "apply" /\ part'[r] = part[r]
          /\ \A y \in Part \ {part[r]} : Dirs(r)'[y] = Dirs(r)[y]
          /\ \/ Dirs(r)'[part[r]] = [Dirs(r)[part[r]] EXCEPT !.packed = FALSE]
             \/ Dirs(r)'[part[r]] = Dirs(r)[part[r]]
      BY <1>0, <1>2, DecompressStep
    <2>2. /\ Dirs(r)'[part[r]].state = Dirs(r)[part[r]].state
          /\ Dirs(r)'[part[r]].of = Dirs(r)[part[r]].of
          /\ Dirs(r)'[part[r]].to = Dirs(r)[part[r]].to
      <3>1. Dirs(r)[part[r]] \in Directory
        BY <1>0, DirsType
      <3> QED
        BY <2>1, <3>1 DEF Directory
    <2>4. CASE part[r] = "base"
      <3>1. "incr" \in Part \ {"base"}
        BY DEF Part
      <3>2. Dirs(r)'.incr = Dirs(r).incr
        BY <2>1, <2>4, <3>1
      <3>3. AtBase(r)'
        BY <1>0, <2>1, <2>2, <2>4, <3>2 DEF Progress, AtBase, Holds
      <3> QED
        BY <2>1, <2>4, <3>3 DEF Progress, AtIncrement, AtEnd
    <2>5. CASE part[r] = "incr"
      <3>1. "base" \in Part \ {"incr"}
        BY DEF Part
      <3>2. Dirs(r)'.base = Dirs(r).base
        BY <2>1, <2>5, <3>1
      <3>3. AtIncrement(r)'
        BY <1>0, <1>j, <2>1, <2>2, <2>5, <3>2 DEF Progress, AtIncrement, Holds, Prepared
      <3> QED
        BY <2>1, <2>5, <3>3 DEF Progress, AtBase, AtEnd
    <2> QED
      BY <1>0, <2>4, <2>5
  <1>3. CASE ApplyBase(r) /\ rpc'[r] # "failed"
    <2>1. /\ rpc[r] = "apply" /\ part[r] = "base" /\ Preparable(Dirs(r).base)
          /\ Dirs(r).base' = [Dirs(r).base EXCEPT !.state = "prepared"]
          /\ Dirs(r).incr' = Dirs(r).incr
          /\ IF IsFull(job[r].type)
             THEN rpc'[r] = "success" /\ part'[r] = "base"
             ELSE rpc'[r] = "extract" /\ part'[r] = "incr"
      BY <1>0, <1>3, ApplyBaseStep
    <2>2. Holds(Dirs(r).base, job[r].base[2]) /\ ~Dirs(r).base.packed
      BY <1>0, <2>1 DEF Progress, AtBase, Preparable
    <2>3. /\ Dirs(r).base'.state = "prepared" /\ ~Dirs(r).base'.packed
          /\ Dirs(r).base'.of = Dirs(r).base.of /\ Dirs(r).base'.to = Dirs(r).base.to
      <3>1. Dirs(r).base \in Directory
        BY <1>0, DirsType
      <3> QED
        BY <2>1, <2>2, <3>1 DEF Directory
    <2>4. (Prepared(Dirs(r).base) /\ Holds(Dirs(r).base, job[r].base[2]))'
      BY <1>0, <2>2, <2>3 DEF Prepared, Holds
    <2>5. Dirs(r).incr' = Empty
      BY <1>0, <2>1 DEF Progress, AtBase
    <2>6. CASE IsFull(job[r].type)
      <3>1. job[r].incr = job[r].base
        BY <2>6 DEF RestoreInv, JobInv
      <3>2. Reached(Dirs(r).base, job[r].incr[2])'
        BY <2>4, <3>1 DEF Holds, Reached
      <3>3. AtEnd(r)'
        BY <2>4, <2>5, <3>2 DEF AtEnd, Holds
      <3>4. AtBase(r)' /\ AtIncrement(r)'
        BY <1>j, <2>1, <2>5, <2>6 DEF AtBase, AtIncrement
      <3> QED
        BY <3>3, <3>4 DEF Progress
    <2>7. CASE ~IsFull(job[r].type)
      <3>1. AtBase(r)' /\ AtEnd(r)'
        BY <2>1, <2>7 DEF AtBase, AtEnd
      <3>2. AtIncrement(r)'
        BY <1>j, <2>1, <2>4, <2>5, <2>7 DEF AtIncrement
      <3> QED
        BY <3>1, <3>2 DEF Progress
    <2> QED
      BY <2>6, <2>7
  <1>4. CASE ApplyIncrement(r) /\ rpc'[r] # "failed"
    <2>1. /\ rpc[r] = "apply" /\ part[r] = "incr" /\ part'[r] = "incr"
          /\ Appliable(Dirs(r).base, Dirs(r).incr)
          /\ Dirs(r).base' = [Dirs(r).base EXCEPT !.to = Dirs(r).incr.to]
          /\ rpc'[r] = "remove"
      BY <1>0, <1>4, ApplyIncrementStep
    <2>2. /\ Prepared(Dirs(r).base) /\ Holds(Dirs(r).base, job[r].base[2])
          /\ Holds(Dirs(r).incr, job[r].incr[2]) /\ ~IsFull(job[r].type)
      BY <1>0, <2>1 DEF Progress, AtIncrement, Appliable
    <2>3. /\ Dirs(r).base'.state = "prepared" /\ ~Dirs(r).base'.packed
          /\ Dirs(r).base'.of = Dirs(r).base.of /\ Dirs(r).base'.to = Dirs(r).incr.to
      <3>1. Dirs(r).base \in Directory
        BY <1>0, DirsType
      <3> QED
        BY <2>1, <2>2, <3>1 DEF Directory, Prepared
    <2>4. AtEnd(r)'
      BY <1>0, <2>1, <2>2, <2>3 DEF AtEnd, Prepared, Holds, Reached
    <2> QED
      BY <1>j, <2>1, <2>2, <2>4 DEF Progress, AtBase, AtIncrement
  <1>5. CASE RemoveIncrement(r)
    <2>1. /\ rpc[r] = "remove" /\ rpc'[r] = "success" /\ part'[r] = part[r]
          /\ Dirs(r).base' = Dirs(r).base /\ Dirs(r).incr' = Empty
      BY <1>0, <1>5, RemoveIncrementStep
    <2>2. part[r] = "incr" /\ ~IsFull(job[r].type)
      BY <1>0, <2>1 DEF Progress, AtBase, AtIncrement
    <2>3. AtEnd(r)'
      BY <1>0, <2>1 DEF Progress, AtEnd, Prepared, Reached
    <2> QED
      BY <1>j, <2>1, <2>2, <2>3 DEF Progress, AtBase, AtIncrement
  <1>6. ~ReadContent(r) /\ ~FindNothing(r)
    BY <1>0 DEF ReadContent, FindNothing, HasJob
  <1>7. rpc[r] \notin {"idle", "refused"}
    BY <1>0 DEF HasJob
  <1> QED
    BY <1>f, <1>1, <1>2, <1>3, <1>4, <1>5, <1>6, <1>7 DEF RStep

(* A step of one restore keeps what ProgressInv says of all.               *)
LEMMA ProgressInvStep ==
    ASSUME RestoreInv, NEW s \in Restorer, RStep(s)
    PROVE  ProgressInv'
  <1> SUFFICES ASSUME NEW r \in Restorer, job'[r] # Null, SoleUser(r)'
               PROVE  Progress(r)'
    BY DEF ProgressInv
  <1>1. /\ RTypes /\ UnusedInv /\ RFrame(s) /\ tool' = tool /\ name' = name
    BY RStepTypes, RStepKeeps DEF RestoreInv, vars
  <1>2. CASE job[r] = Null
    <2>1. r = s
      BY <1>1, <1>2 DEF RFrame
    <2>2. /\ Dirs(r).base' = Empty /\ Dirs(r).incr' = Empty
          /\ rpc'[r] = "extract" /\ part'[r] = "base"
      BY <1>1, <1>2, <2>1, NewSole
    <2> QED
      BY <2>2 DEF Progress, AtBase, AtIncrement, AtEnd
  <1>3. CASE job[r] # Null
    <2>1. job'[r] = job[r] /\ SoleUser(r)
      BY <1>1, <1>3, StillSole
    <2>2. CASE r = s
      BY <1>3, <2>1, <2>2, ProgressSelf
    <2>3. CASE r # s
      <3>1. /\ target'[job[r].into] = target[job[r].into]
            /\ rpc'[r] = rpc[r] /\ part'[r] = part[r]
        BY <1>1, <1>3, <2>3, StillSole
      <3>2. Dirs(r)' = Dirs(r) /\ Progress(r)
        BY <1>3, <2>1, <3>1 DEF Dirs, RestoreInv, ProgressInv
      <3> QED
        BY <1>1, <2>1, <3>1, <3>2 DEF Progress, AtBase, AtIncrement, AtEnd,
           Holds, Prepared, Reached, IsFull
    <2> QED
      BY <2>2, <2>3
  <1> QED
    BY <1>2, <1>3

(* The invariants of the restores hold after every step.                   *)
LEMMA RestoreInvNext == RestoreInv /\ [RNext]_allVars => RestoreInv'
  <1> SUFFICES ASSUME RestoreInv, [RNext]_allVars PROVE RestoreInv'
    OBVIOUS
  <1>1. BackupInv' /\ RTypes'
    BY BackupInvNext, RTypesNext, RNextIsNext DEF RestoreInv
  <1>2. CASE UNCHANGED rvars
    <2>1. UNCHANGED <<target, rpc, job, part, unlucky>>
      BY <1>2 DEF rvars
    <2>2. /\ \A i \in 1 .. Len(rows) : rows'[i] = rows[i]
          /\ \A q \in Invocation : tool[q].state = "ok" =>
                 tool'[q] = tool[q] /\ name'[q] = name[q]
      BY RNextIsNext, BackupsKeep DEF RestoreInv
    <2>3. JobInv'
      <3> SUFFICES ASSUME NEW r \in Restorer, job[r] # Null
                   PROVE  rows'[job[r].id] = rows[job[r].id]
        BY <2>1 DEF RestoreInv, JobInv, Source
      <3>1. job[r].id \in 1 .. Len(rows)
        BY DEF RestoreInv, RTypes, RTypeOK, HasJob
      <3> QED
        BY <2>2, <3>1
    <2>4. UnusedInv'
      BY <2>1 DEF RestoreInv, UnusedInv
    <2>5. ProgressInv'
      <3> SUFFICES ASSUME NEW r \in Restorer, job[r] # Null, SoleUser(r)
                   PROVE  Progress(r)'
        BY <2>1 DEF ProgressInv, SoleUser
      <3>1. Progress(r)
        BY DEF RestoreInv, ProgressInv
      <3>2. AtBase(r)'
        BY <2>1, <2>2, <3>1 DEF Progress, AtBase, Holds, Dirs
      <3>3. AtIncrement(r)'
        BY <2>1, <2>2, <3>1 DEF Progress, AtIncrement, Holds, Prepared, Dirs, IsFull
      <3>4. AtEnd(r)'
        <4> SUFFICES ASSUME rpc[r] \in {"remove", "success"}
                     PROVE  /\ name'[Dirs(r).base.of] = name[Dirs(r).base.of]
                            /\ tool'[Dirs(r).base.of] = tool[Dirs(r).base.of]
                            /\ Reached(Dirs(r).base, job[r].incr[2])'
          BY <2>1, <3>1 DEF Progress, AtEnd, Prepared, Dirs
        <4>1. Reached(Dirs(r).base, job[r].incr[2])'
          BY <2>1, <2>2, <3>1 DEF Progress, AtEnd, Reached, Dirs
        <4> QED
          BY <2>2, <3>1, <4>1 DEF Progress, AtEnd
      <3> QED
        BY <3>2, <3>3, <3>4 DEF Progress
    <2> QED
      BY <1>1, <2>3, <2>4, <2>5 DEF RestoreInv
  <1>3. CASE \E r \in Restorer : RStep(r)
    <2>1. PICK r \in Restorer : RStep(r)
      BY <1>3
    <2>2. RFrame(r)
      BY <2>1, RStepTypes DEF RestoreInv
    <2> QED
      BY <1>1, <2>1, <2>2, JobInvStep, UnusedInvStep, ProgressInvStep DEF RestoreInv
  <1> QED
    BY <1>2, <1>3, RNextIsNext

(* What the row says that r restores, when that is the row of the          *)
(* undisturbed backup p.                                                   *)
LEMMA RestoredRow ==
    ASSUME RestoreInv, NEW r \in Restorer, NEW p \in Invocation, Restores(r, p)
    PROVE  /\ rows[job[r].id] = RowOf(p) /\ Described(p, RowOf(p))
           /\ RowOf(p) = meta[p] /\ pc[p] = "done" /\ tool[p].state = "ok"
           /\ job[r].type = CheckpointOf(p).type
           /\ IsFull(job[r].type) <=> cmd[p].kind = "full"
           /\ job[r].incr = <<Source(r), name[p]>>
           /\ job[r].base = <<Source(r), IF cmd[p].kind = "full" THEN name[p]
                                         ELSE RowOf(p).baseon>>
  <1>1. rows[job[r].id] = RowOf(p) /\ SoloBackup(p) /\ job[r] # Null
    BY DEF Restores, RowOf
  <1>2. RowOf(p) = meta[p] /\ pc[p] = "done" /\ Described(p, RowOf(p))
    BY <1>1 DEF RestoreInv, BackupInv, SoloInv, Solo, RowKept, SoloBackup, Recorded, RowOf
  <1>3. job[r].type = CheckpointOf(p).type /\ RowOf(p).name = name[p]
    BY <1>1, <1>2 DEF RestoreInv, JobInv, Described
  <1>4. IsFull(job[r].type) <=> cmd[p].kind = "full"
    BY <1>3 DEF IsFull, CheckpointOf
  <1> QED
    BY <1>1, <1>2, <1>3, <1>4 DEF RestoreInv, JobInv, SoloBackup

(* What a restore that has its target for itself leaves in it when it      *)
(* prints success is the database as the row describes it, however many    *)
(* backups and restores run and whatever fails.                            *)
THEOREM RestoresAreFaithful == RSpec => []SuccessIsFaithful
  <1>1. RestoreInv => SuccessIsFaithful
    <2> SUFFICES ASSUME RestoreInv, NEW r \in Restorer, NEW p \in Invocation,
                        rpc[r] = "success", Restores(r, p)
                 PROVE  /\ Dirs(r).base.state = "prepared" /\ ~Dirs(r).base.packed
                        /\ Dirs(r).base.to = RowOf(p).to
                        /\ name[Dirs(r).base.of] =
                               IF cmd[p].kind = "full" THEN RowOf(p).name
                               ELSE RowOf(p).baseon
                        /\ Dirs(r).incr = Empty
      BY DEF SuccessIsFaithful
    <2>1. AtEnd(r) /\ NameIsUnique(p)
      BY DEF RestoreInv, ProgressInv, Progress, Restores
    <2>2. /\ Described(p, RowOf(p)) /\ job[r].incr[2] = name[p]
          /\ job[r].base[2] = IF cmd[p].kind = "full" THEN name[p] ELSE RowOf(p).baseon
      BY RestoredRow
    <2>3. Reached(Dirs(r).base, name[p])
      BY <2>1, <2>2 DEF AtEnd
    <2>4. Dirs(r).base.to = tool[p].to
      BY <2>1, <2>3 DEF Reached, NameIsUnique
    <2> QED
      BY <2>1, <2>2, <2>4 DEF AtEnd, Prepared, Described
  <1> QED
    BY <1>1, RestoreInvInit, RestoreInvNext, PTL DEF RSpec

-----------------------------------------------------------------------------
(* A restore of what nothing has disturbed does not fail by itself.        *)

(* q is the backup that a restore of p has to start from.                  *)
BaseOf(p, q) ==
    \/ cmd[p].kind = "full" /\ q = p
    \/ /\ cmd[p].kind = "incremental"
       /\ SoloBackup(q) /\ NameIsUnique(q) /\ cmd[q].kind = "full"
       /\ hist[p].nameRow = hist[q].row /\ hist[p].lsnRow = hist[q].row
       /\ cmd[p].dir = cmd[q].dir

Undisturbed(r, p, q) ==
    Restores(r, p) /\ job[r].from = Null /\ BaseOf(p, q) /\ r \notin unlucky

OnTheWay(r, p, q) ==
    /\ rpc[r] # "failed"
    /\ part[r] = "base" /\ rpc[r] \in {"decompress", "apply"} =>
           Dirs(r).base.state = "extracted" /\ Dirs(r).base.of = q
    /\ part[r] = "base" /\ rpc[r] = "apply" => ~Dirs(r).base.packed
    /\ part[r] = "incr" /\ rpc[r] \in {"extract", "decompress", "apply"} =>
           Dirs(r).base.of = q
    /\ part[r] = "incr" /\ rpc[r] \in {"decompress", "apply"} =>
           Dirs(r).incr.state = "extracted" /\ Dirs(r).incr.of = p
    /\ part[r] = "incr" /\ rpc[r] = "apply" => ~Dirs(r).incr.packed

SoundInv ==
    \A r \in Restorer, p, q \in Invocation :
        Undisturbed(r, p, q) => OnTheWay(r, p, q)

(* The two files such a restore reads are whole, and the increment starts  *)
(* where its base ends.                                                    *)
LEMMA FilesToRestore ==
    ASSUME RestoreInv, NEW r \in Restorer, NEW p \in Invocation,
           NEW q \in Invocation, Undisturbed(r, p, q)
    PROVE  /\ job[r].base \in Path
           /\ files[job[r].base] = [state |-> "complete", by |-> q]
           /\ job[r].incr \in Path
           /\ files[job[r].incr] = [state |-> "complete", by |-> p]
           /\ cmd[q].kind = "full"
           /\ cmd[p].kind # "full" =>
                  cmd[p].kind = "incremental" /\ tool[p].from = tool[q].to
  <1>0. TypeInv /\ BaseInv /\ SoloInv /\ ChainInv /\ SoloBackup(p) /\ NameIsUnique(p)
        /\ Restores(r, p) /\ BaseOf(p, q) /\ Source(r) = RowOf(p).dir
    BY RestoredRow DEF RestoreInv, BackupInv, Undisturbed, Restores, Source
  <1>1. /\ job[r].incr = <<RowOf(p).dir, name[p]>> /\ RowOf(p).name = name[p]
        /\ job[r].base = <<RowOf(p).dir, IF cmd[p].kind = "full" THEN name[p]
                                         ELSE RowOf(p).baseon>>
        /\ pc[p] = "done" /\ RowOf(p) = meta[p]
        /\ Described(p, RowOf(p))
    BY <1>0, RestoredRow DEF Described
  <1>2. PathOf(p) \in Path /\ files[PathOf(p)] = [state |-> "complete", by |-> p]
    BY <1>0, <1>1, PathType, UniqueFile DEF Started
  <1>3. CASE cmd[p].kind = "full"
    <2>1. RowOf(p).dir = cmd[p].dir /\ q = p
      BY <1>0, <1>1, <1>3 DEF ChainInv, Chain, Started, BaseOf
    <2> QED
      BY <1>1, <1>2, <1>3, <2>1 DEF PathOf
  <1>4. CASE cmd[p].kind # "full"
    <2>1. /\ cmd[p].kind = "incremental"
          /\ SoloBackup(q) /\ NameIsUnique(q) /\ cmd[q].kind = "full"
          /\ hist[p].nameRow = hist[q].row /\ hist[p].lsnRow = hist[q].row
          /\ cmd[p].dir = cmd[q].dir
      BY <1>0, <1>4 DEF BaseOf
    <2>2. /\ RowOf(p).from = RowOf(q).to
          /\ <<RowOf(p).dir, RowOf(p).baseon>> = PathOf(q)
          /\ <<RowOf(p).dir, RowOf(p).name>> = PathOf(p)
      BY <1>0, <2>1, ChainPaths
    <2>3. pc[q] = "done" /\ Described(q, RowOf(q))
      BY <1>0, <2>1 DEF SoloInv, Solo, RowKept, SoloBackup, Recorded, RowOf
    <2>4. PathOf(q) \in Path /\ files[PathOf(q)] = [state |-> "complete", by |-> q]
      BY <1>0, <2>1, <2>3, PathType, UniqueFile DEF Started
    <2>5. tool[p].from = tool[q].to
      BY <1>1, <2>2, <2>3 DEF Described
    <2> QED
      BY <1>1, <1>2, <1>4, <2>1, <2>2, <2>4, <2>5
  <1> QED
    BY <1>3, <1>4

(* A backup that is undisturbed after a step, and whose row is not new,    *)
(* was so before.                                                          *)
LEMMA SoloBefore ==
    ASSUME BackupInv, [Next]_vars, NEW p \in Invocation,
           SoloBackup(p)', hist'[p].row <= Len(rows)
    PROVE  /\ SoloBackup(p) /\ hist'[p] = hist[p]
           /\ NameIsUnique(p)' => NameIsUnique(p)
  <1>0. TypeInv /\ SoloInv /\ FilesInv
    BY DEF BackupInv
  <1>1. ASSUME NEW s \in Invocation, Step(s)
        PROVE  /\ SoloBackup(p) /\ hist'[p] = hist[p]
               /\ NameIsUnique(p)' => NameIsUnique(p)
    <2>1. s # p
      <3> SUFFICES ASSUME s = p PROVE FALSE
        OBVIOUS
      <3>1. Insert(p)
        <4>1. pc'[p] = "done" /\ pc \in [Invocation -> Label]
          BY <1>0 DEF SoloBackup, Recorded, TypeInv, TypeOK
        <4> QED
          BY <1>1, <4>1 DEF Step, Start, ReadBaseName, ReadBaseLsn, Launch,
             ToolOpensCheckpoint, ToolWritesCheckpoint, ToolSucceeds, ToolFails,
             ReadCheckpoint, Crash, Goto
      <3>2. CASE rows' = rows /\ hist' = hist
        <4>1. hist[p].row # 0
          BY <3>2 DEF SoloBackup, Recorded
        <4> QED
          BY <1>0, <3>1, <4>1 DEF SoloInv, RowKept, Insert
      <3>3. CASE hist' = [hist EXCEPT ![p].row = Len(rows) + 1]
        <4>1. hist'[p].row = Len(rows) + 1 /\ Len(rows) \in Nat
          BY <1>0, <3>3 DEF TypeInv, TypeOK, History
        <4> QED
          BY <4>1
      <3> QED
        BY <3>1, <3>2, <3>3 DEF Insert
    <2>2. /\ pc'[p] = pc[p] /\ name'[p] = name[p] /\ tool'[p] = tool[p]
          /\ hist'[p] = hist[p]
      BY <1>0, <1>1, <2>1, StepFrame
    <2>3. p \in alone
      <3>1. CASE Launch(s)
        BY <2>1, <3>1 DEF Launch, SoloBackup
      <3>2. CASE alone' = alone
        BY <3>2 DEF SoloBackup
      <3> QED
        BY <1>1, <3>1, <3>2 DEF Step, Start, ReadBaseName, ReadBaseLsn,
           ToolOpensCheckpoint, ToolWritesCheckpoint, ToolSucceeds, ToolFails,
           ReadCheckpoint, Insert, Crash
    <2>4. SoloBackup(p)
      BY <2>2, <2>3 DEF SoloBackup, Recorded
    <2>5. ASSUME NameIsUnique(p)', NEW q \in Invocation \ {p} PROVE name[q] # name[p]
      <3>1. CASE q # s
        BY <1>0, <1>1, <2>2, <2>5, <3>1, StepFrame DEF NameIsUnique
      <3>2. CASE q = s /\ Started(q)
        <4>1. name'[q] = name[q]
          BY <1>0, <1>1, <3>2, PathKept DEF PathOf
        <4> QED
          BY <2>2, <2>5, <4>1 DEF NameIsUnique
      <3>3. CASE ~Started(q)
        <4>1. name[q] = Null
          BY <1>0, <3>3 DEF FilesInv, Started
        <4>2. name[p] \in Name
          BY <1>0, <2>4 DEF TypeInv, Started, SoloBackup, Recorded
        <4> QED
          BY <4>1, <4>2, NullAssumption
      <3> QED
        BY <3>1, <3>2, <3>3
    <2> QED
      BY <2>2, <2>4, <2>5 DEF NameIsUnique
  <1>2. CASE UNCHANGED <<table, rows, ckpt, files, pc, cmd, name, base, meta,
                         tool, alone, hist>>
    BY <1>2 DEF SoloBackup, Recorded, NameIsUnique
  <1> QED
    BY <1>0, <1>1, <1>2, OtherSteps

(* A backup meanwhile does not make a restore undisturbed.                 *)
LEMMA UndisturbedBefore ==
    ASSUME RestoreInv, [Next]_vars, UNCHANGED rvars, NEW r \in Restorer,
           NEW p \in Invocation, NEW q \in Invocation, Undisturbed(r, p, q)'
    PROVE  Undisturbed(r, p, q)
  <1>0. BackupInv /\ UNCHANGED <<target, rpc, job, part, unlucky>> /\ cmd' = cmd
        /\ job[r] # Null /\ job[r].id \in 1 .. Len(rows) /\ Len(rows) \in Nat
    BY BackupsKeep DEF RestoreInv, rvars, Undisturbed, Restores, RTypes, RTypeOK, HasJob
  <1>1. SoloBackup(p) /\ NameIsUnique(p) /\ hist'[p] = hist[p]
    BY <1>0, SoloBefore DEF Undisturbed, Restores
  <1>2. Restores(r, p)
    BY <1>0, <1>1 DEF Undisturbed, Restores, SoleUser
  <1>3. BaseOf(p, q)
    <2>1. CASE cmd[p].kind = "full" /\ q = p
      BY <2>1 DEF BaseOf
    <2>2. CASE (/\ cmd[p].kind = "incremental"
                /\ SoloBackup(q) /\ NameIsUnique(q) /\ cmd[q].kind = "full"
                /\ hist[p].nameRow = hist[q].row /\ hist[p].lsnRow = hist[q].row
                /\ cmd[p].dir = cmd[q].dir)'
      <3>1. hist[p].nameRow \in 0 .. Len(rows)
        BY <1>0 DEF BackupInv, ChainInv, Chain
      <3>2. SoloBackup(q) /\ NameIsUnique(q) /\ hist'[q] = hist[q]
        BY <1>0, <1>1, <2>2, <3>1, SoloBefore
      <3> QED
        BY <1>0, <1>1, <2>2, <3>2 DEF BaseOf
    <2> QED
      BY <1>0, <2>1, <2>2 DEF Undisturbed, BaseOf
  <1> QED
    BY <1>0, <1>2, <1>3 DEF Undisturbed

(* A restore's own step keeps it on its way.                               *)
LEMMA OnTheWaySelf ==
    ASSUME RestoreInv, NEW r \in Restorer, NEW p \in Invocation,
           NEW q \in Invocation, Undisturbed(r, p, q), OnTheWay(r, p, q),
           RStep(r), job'[r] = job[r], r \notin unlucky'
    PROVE  OnTheWay(r, p, q)'
  <1>0. /\ RTypes /\ BackupInv /\ job[r] # Null /\ SoleUser(r) /\ Progress(r)
        /\ part[r] \in {"base", "incr"} /\ rpc[r] \in HasJob
    BY DirsType DEF RestoreInv, ProgressInv, Undisturbed, Restores, RTypes, Part
  <1>w. /\ job[r].base \in Path
        /\ files[job[r].base] = [state |-> "complete", by |-> q]
        /\ job[r].incr \in Path
        /\ files[job[r].incr] = [state |-> "complete", by |-> p]
        /\ cmd[q].kind = "full"
        /\ cmd[p].kind # "full" =>
               cmd[p].kind = "incremental" /\ tool[p].from = tool[q].to
        /\ IsFull(job[r].type) <=> cmd[p].kind = "full"
    BY FilesToRestore, RestoredRow DEF Undisturbed
  <1>1. CASE Extract(r)
    <2>1. /\ rpc[r] = "extract" /\ part'[r] = part[r]
          /\ \A y \in Part \ {part[r]} : Dirs(r)'[y] = Dirs(r)[y]
      BY <1>0, <1>1, ExtractStep
    <2>2. PICK result \in Extracted(File(r), Empty) :
                 /\ Dirs(r)'[part[r]] = result.dir
                 /\ rpc'[r] = IF result.ok THEN "decompress" ELSE "failed"
      BY <1>0, <1>1, ExtractStep
    <2>3. /\ File(r) \in Path /\ files[File(r)].state = "complete"
          /\ files[File(r)].by = IF part[r] = "base" THEN q ELSE p
      BY <1>w DEF File
    <2>4. rpc'[r] = "decompress" /\ Dirs(r)'[part[r]] = Unpacked(files[File(r)].by)
      BY <2>2, <2>3, ExtractedWhole
    <2>5. /\ Dirs(r)'[part[r]].state = "extracted"
          /\ Dirs(r)'[part[r]].of = IF part[r] = "base" THEN q ELSE p
      BY <2>3, <2>4 DEF Unpacked
    <2>6. part[r] = "incr" => Dirs(r)'.base = Dirs(r).base
      BY <2>1 DEF Part
    <2> QED
      BY <1>0, <2>1, <2>4, <2>5, <2>6 DEF OnTheWay
  <1>2. CASE Decompress(r)
    <2>1. /\ rpc[r] = "decompress" /\ rpc'[r] = "apply" /\ part'[r] = part[r]
          /\ \A y \in Part \ {part[r]} : Dirs(r)'[y] = Dirs(r)[y]
          /\ Dirs(r)'[part[r]] = [Dirs(r)[part[r]] EXCEPT !.packed = FALSE]
      BY <1>0, <1>2, DecompressStep
    <2>2. /\ Dirs(r)'[part[r]].state = Dirs(r)[part[r]].state
          /\ Dirs(r)'[part[r]].of = Dirs(r)[part[r]].of
          /\ ~Dirs(r)'[part[r]].packed
      <3>1. Dirs(r)[part[r]] \in Directory
        BY <1>0, DirsType
      <3> QED
        BY <2>1, <3>1 DEF Directory
    <2>3. part[r] = "incr" => Dirs(r)'.base = Dirs(r).base
      BY <2>1 DEF Part
    <2> QED
      BY <1>0, <2>1, <2>2, <2>3 DEF OnTheWay
  <1>3. CASE ApplyBase(r)
    <2>1. rpc[r] = "apply" /\ part[r] = "base" /\ Preparable(Dirs(r).base)
      BY <1>0, <1>3, <1>w, ApplyBaseStep DEF OnTheWay, Preparable
    <2>2. /\ Dirs(r).base' = [Dirs(r).base EXCEPT !.state = "prepared"]
          /\ \/ rpc'[r] = "success" /\ part'[r] = "base"
             \/ rpc'[r] = "extract" /\ part'[r] = "incr"
      BY <1>0, <1>3, <2>1, ApplyBaseStep
    <2>3. Dirs(r).base'.of = Dirs(r).base.of
      BY <1>0, <2>2, DirsType DEF Directory
    <2> QED
      BY <2>1, <2>2, <2>3 DEF OnTheWay
  <1>4. CASE ApplyIncrement(r)
    <2>1. rpc[r] = "apply" /\ part[r] = "incr" /\ part'[r] = "incr"
      BY <1>0, <1>4, ApplyIncrementStep
    <2>2. Prepared(Dirs(r).base) /\ Holds(Dirs(r).base, job[r].base[2])
          /\ cmd[p].kind # "full"
      BY <1>0, <1>w, <2>1 DEF Progress, AtIncrement
    <2>3. Appliable(Dirs(r).base, Dirs(r).incr)
      BY <1>w, <2>1, <2>2 DEF OnTheWay, Appliable, Prepared, Holds
    <2>4. rpc'[r] = "remove"
      BY <1>0, <1>4, <2>3, ApplyIncrementStep
    <2> QED
      BY <2>1, <2>4 DEF OnTheWay
  <1>5. CASE RemoveIncrement(r)
    <2>1. rpc'[r] = "success"
      BY <1>0, <1>5, RemoveIncrementStep
    <2> QED
      BY <2>1 DEF OnTheWay
  <1>6. ~ReadContent(r) /\ ~FindNothing(r)
    BY <1>0 DEF ReadContent, FindNothing, HasJob
  <1> QED
    BY <1>1, <1>2, <1>3, <1>4, <1>5, <1>6 DEF RStep

(* A step of a restore keeps every restore on its way.                     *)
LEMMA SoundInvStep ==
    ASSUME RestoreInv, SoundInv, NEW s \in Restorer, RStep(s)
    PROVE  SoundInv'
  <1> SUFFICES ASSUME NEW r \in Restorer, NEW p \in Invocation, NEW q \in Invocation,
                      Undisturbed(r, p, q)'
               PROVE  OnTheWay(r, p, q)'
    BY DEF SoundInv
  <1>1. /\ RTypes /\ UnusedInv /\ RFrame(s) /\ UNCHANGED vars
    BY RStepTypes, RStepKeeps DEF RestoreInv
  <1>2. /\ job'[r] # Null /\ SoleUser(r)' /\ r \notin unlucky'
        /\ SoloBackup(p) /\ NameIsUnique(p) /\ hist[p].row = job'[r].id
        /\ job'[r].from = Null /\ BaseOf(p, q)
    BY <1>1 DEF vars, store, env, Undisturbed, Restores, SoloBackup, Recorded,
       NameIsUnique, BaseOf
  <1>3. CASE job[r] = Null
    <2>1. r = s
      BY <1>1, <1>2, <1>3 DEF RFrame
    <2>2. rpc'[r] = "extract" /\ part'[r] = "base"
      BY <1>1, <1>2, <1>3, <2>1, NewSole
    <2> QED
      BY <2>2 DEF OnTheWay
  <1>4. CASE job[r] # Null
    <2>1. job'[r] = job[r] /\ SoleUser(r)
      BY <1>1, <1>2, <1>4, StillSole
    <2>2. Undisturbed(r, p, q) /\ OnTheWay(r, p, q)
      BY <1>1, <1>2, <1>4, <2>1 DEF Undisturbed, Restores, RFrame, SoundInv
    <2>3. CASE r = s
      BY <1>2, <2>1, <2>2, <2>3, OnTheWaySelf
    <2>4. CASE r # s
      <3>1. /\ target'[job[r].into] = target[job[r].into]
            /\ rpc'[r] = rpc[r] /\ part'[r] = part[r]
        BY <1>1, <1>2, <1>4, <2>4, StillSole
      <3>2. Dirs(r)' = Dirs(r)
        BY <2>1, <3>1 DEF Dirs
      <3> QED
        BY <2>2, <3>1, <3>2 DEF OnTheWay
    <2> QED
      BY <2>3, <2>4
  <1> QED
    BY <1>3, <1>4

(* A restore of an undisturbed full backup, or of an undisturbed           *)
(* incremental one with its base, fails only if an external command does.  *)
THEOREM SoundBackupsDoRestore == RSpec => []SoundBackupsRestore
  <1>1. RInit => SoundInv
    BY DEF RInit, SoundInv, Undisturbed, Restores
  <1>2. RestoreInv /\ SoundInv /\ [RNext]_allVars => SoundInv'
    <2> SUFFICES ASSUME RestoreInv, SoundInv, [RNext]_allVars PROVE SoundInv'
      OBVIOUS
    <2>1. CASE UNCHANGED rvars
      <3> SUFFICES ASSUME NEW r \in Restorer, NEW p \in Invocation,
                          NEW q \in Invocation, Undisturbed(r, p, q)'
                   PROVE  OnTheWay(r, p, q)'
        BY DEF SoundInv
      <3>1. OnTheWay(r, p, q)
        BY <2>1, RNextIsNext, UndisturbedBefore DEF SoundInv
      <3> QED
        BY <2>1, <3>1 DEF OnTheWay, Dirs, rvars
    <2>2. CASE \E r \in Restorer : RStep(r)
      BY <2>2, SoundInvStep
    <2> QED
      BY <2>1, <2>2, RNextIsNext
  <1>3. RestoreInv /\ SoundInv => SoundBackupsRestore
    <2> SUFFICES ASSUME RestoreInv, SoundInv PROVE SoundBackupsRestore
      OBVIOUS
    <2>1. ASSUME NEW p \in Invocation PROVE cmd[p].kind \in {"full", "incremental"}
      <3>1. cmd \in [Invocation -> Command]
        BY DEF RestoreInv, BackupInv, TypeInv, TypeOK
      <3>2. cmd[p] \in Form
        BY <3>1, CommandAssumption
      <3> QED
        BY <3>2 DEF Form, Kind
    <2>2. ASSUME NEW r \in Restorer, NEW p \in Invocation, NEW q \in Invocation,
                 Restores(r, p), job[r].from = Null, BaseOf(p, q),
                 rpc[r] = "failed"
          PROVE  r \in unlucky
      BY <2>2 DEF SoundInv, Undisturbed, OnTheWay
    <2> QED
      BY <2>1, <2>2 DEF SoundBackupsRestore, BaseOf
  <1> QED
    BY <1>1, <1>2, <1>3, RestoreInvInit, RestoreInvNext, PTL DEF RSpec
=============================================================================
