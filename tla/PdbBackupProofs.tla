--------------------------- MODULE PdbBackupProofs ---------------------------
(***************************************************************************)
(* Theorems about PdbBackup, for every set of invocations, commands and    *)
(* faults and every bound.  The invariants are proved in layers, each one  *)
(* inductive relative to those before it.                                  *)
(***************************************************************************)
EXTENDS PdbBackup, TLAPS

USE DEF Form, Lsn, Stamp, IncrementalLsn, CreateHisdbObjects

-----------------------------------------------------------------------------
(* What the helpers return.                                                *)

(* The name of a backup is a name.                                         *)
LEMMA NameOfType ==
    ASSUME NEW c \in Command, clock \in Stamp
    PROVE  NameOf(c) \in Name
  BY CommandAssumption DEF NameOf, Name

(* The META that Start builds is a row.                                    *)
LEMMA NewMetaType ==
    ASSUME NEW c \in Command, clock \in Stamp
    PROVE  NewMeta(c) \in Row
  <1>1. NameOf(c) \in Name
    BY NameOfType
  <1>2. c.dir \in Dir /\ 0 \in Lsn
    BY CommandAssumption, BoundAssumption
  <1> QED
    BY <1>1, <1>2 DEF NewMeta, Row, Type

(* A SELECT returns the number of a full backup's row, or none.            *)
LEMMA SelectedRowType ==
    ASSUME NEW i \in SelectedRow
    PROVE  i = 0 \/ i \in FullRows
  BY DEF SelectedRow

(* Whatever a SELECT returns, it can be remembered as a number.            *)
LEMMA SelectedRowIsNat ==
    ASSUME rows \in Seq(Row), NEW i \in SelectedRow
    PROVE  /\ i \in Nat
           /\ i # 0 => i \in 1 .. Len(rows) /\ rows[i] \in Row
  BY SelectedRowType DEF FullRows

(* Fetching keeps META a row.                                              *)
LEMMA FetchedType ==
    ASSUME rows \in Seq(Row), NEW m \in Row, NEW i \in SelectedRow
    PROVE  Fetched(m, i) \in Row
  <1>1. CASE i = 0
    BY <1>1 DEF Fetched
  <1>2. CASE i # 0
    <2>1. rows[i] \in Row
      BY <1>2, SelectedRowIsNat
    <2>2. m.compressed \in BOOLEAN
      BY DEF Row
    <2> QED
      BY <1>2, <2>1, <2>2 DEF Fetched, Row
  <1> QED
    BY <1>1, <1>2

(* Reading the checkpoint keeps META a row.                                *)
LEMMA WithCheckpointType ==
    ASSUME TypeOK, NEW m \in Row
    PROVE  WithCheckpoint(m) \in Row
  <1>1. CASE ckpt = Null
    BY <1>1 DEF WithCheckpoint
  <1>2. CASE ckpt # Null
    <2>1. ckpt \in Invocation
      BY <1>2 DEF TypeOK
    <2>2. /\ CheckpointOf(ckpt).type \in Type
          /\ CheckpointOf(ckpt).from \in Lsn
          /\ CheckpointOf(ckpt).to \in Lsn
      BY <2>1 DEF TypeOK, CheckpointOf, Type, ToolState
    <2> QED
      BY <1>2, <2>2 DEF WithCheckpoint, Row
  <1> QED
    BY <1>1, <1>2

(* So do the assignments before the INSERT.                                *)
LEMMA CompletedType ==
    ASSUME TypeOK, NEW p \in Invocation, NEW m \in Row, name[p] \in Name
    PROVE  Completed(p, m) \in Row
  <1>1. cmd[p].compress \in BOOLEAN
    BY CommandAssumption DEF TypeOK
  <1>2. base[p] \in Name \cup {Null}
    BY DEF TypeOK
  <1> QED
    BY <1>1, <1>2 DEF Completed, Row

(* Updates of one field of a record keep its type.                         *)
LEMMA HistoryUpdate ==
    ASSUME NEW h \in History, NEW i \in Nat
    PROVE  /\ [h EXCEPT !.nameRow = i] \in History
           /\ [h EXCEPT !.lsnRow = i] \in History
           /\ [h EXCEPT !.row = i] \in History
  BY DEF History

(* The same for the tool's outcome.                                        *)
LEMMA ToolUpdate ==
    ASSUME NEW t \in ToolState
    PROVE  /\ \A l \in Lsn : [t EXCEPT !.to = l] \in ToolState
           /\ [t EXCEPT !.state = "ok"] \in ToolState
           /\ [t EXCEPT !.state = "failed"] \in ToolState
  BY DEF ToolState

(* The same for a file's state.                                            *)
LEMMA FileUpdate ==
    ASSUME NEW f \in FileState, NEW s \in {"mixed", "complete"}
    PROVE  [f EXCEPT !.state = s] \in FileState
  BY DEF FileState

-----------------------------------------------------------------------------
(* Type correctness.  META and the name exist from Start on.               *)

Started(p) == pc[p] # "idle"

TypeInv ==
    /\ TypeOK
    /\ \A p \in Invocation : Started(p) => name[p] \in Name /\ meta[p] \in Row

(* The types hold in the initial states.                                   *)
LEMMA TypeInvInit == Init => TypeInv
  <1> SUFFICES ASSUME Init PROVE TypeInv
    OBVIOUS
  <1>1. 0 \in Lsn /\ 0 \in Stamp
    BY BoundAssumption
  <1>2. << >> \in Seq(Row)
    OBVIOUS
  <1> QED
    BY <1>1, <1>2 DEF Init, TypeInv, TypeOK, Started, Label,
                      FileState, ToolState, History

(* An invocation that has started has a path to write to.                  *)
LEMMA PathType ==
    ASSUME TypeInv, NEW p \in Invocation, Started(p)
    PROVE  PathOf(p) \in Path
  <1>1. cmd[p].dir \in Dir
    BY CommandAssumption DEF TypeInv, TypeOK
  <1> QED
    BY <1>1 DEF TypeInv, PathOf, Path

(* Each step of an invocation keeps the types.                             *)
LEMMA TypeInvStep ==
    ASSUME TypeInv, NEW p \in Invocation, Step(p)
    PROVE  TypeInv'
  <1> USE DEF TypeInv, TypeOK, Started, Goto, Label, store, env
  <1>1. CASE Start(p)
    <2>1. NameOf(cmd[p]) \in Name
      BY NameOfType
    <2>2. NewMeta(cmd[p]) \in Row
      BY NewMetaType
    <2> QED
      BY <1>1, <2>1, <2>2 DEF Start
  <1>2. CASE ReadBaseName(p)
    <2>1. PICK i \in SelectedRow :
              /\ meta' = [meta EXCEPT ![p] = Fetched(@, i)]
              /\ base' = [base EXCEPT ![p] = Fetched(meta[p], i).name]
              /\ hist' = [hist EXCEPT ![p].nameRow = i]
      BY <1>2 DEF ReadBaseName
    <2>2. Fetched(meta[p], i) \in Row
      BY <1>2, FetchedType DEF ReadBaseName
    <2>3. Fetched(meta[p], i).name \in Name
      BY <2>2 DEF Row
    <2>4. [hist[p] EXCEPT !.nameRow = i] \in History
      BY SelectedRowIsNat, HistoryUpdate
    <2> QED
      BY <1>2, <2>1, <2>2, <2>3, <2>4 DEF ReadBaseName
  <1>3. CASE ReadBaseLsn(p)
    <2>1. PICK i \in SelectedRow :
              /\ meta' = [meta EXCEPT ![p] = Fetched(@, i)]
              /\ hist' = [hist EXCEPT ![p].lsnRow = i]
      BY <1>3 DEF ReadBaseLsn
    <2>2. Fetched(meta[p], i) \in Row
      BY <1>3, FetchedType DEF ReadBaseLsn
    <2>3. [hist[p] EXCEPT !.lsnRow = i] \in History
      BY SelectedRowIsNat, HistoryUpdate
    <2> QED
      BY <1>3, <2>1, <2>2, <2>3 DEF ReadBaseLsn
  <1>4. CASE Launch(p)
    <2>1. [state |-> "running", from |-> meta[p].to, to |-> meta[p].to] \in ToolState
      BY <1>4 DEF Launch, Row, ToolState
    <2>2. \A s \in {"mixed", "partial"} : [state |-> s, by |-> p] \in FileState
      BY DEF FileState
    <2> QED
      BY <1>4, <2>1, <2>2 DEF Launch
  <1>5. CASE ToolOpensCheckpoint(p)
    <2>1. [tool[p] EXCEPT !.to = lsn] \in ToolState
      BY ToolUpdate
    <2> QED
      BY <1>5, <2>1 DEF ToolOpensCheckpoint
  <1>6. CASE ToolWritesCheckpoint(p)
    BY <1>6 DEF ToolWritesCheckpoint
  <1>7. CASE ToolSucceeds(p)
    <2>1. PathOf(p) \in Path
      BY <1>7, PathType DEF ToolSucceeds
    <2>2. [tool[p] EXCEPT !.state = "ok"] \in ToolState
      BY ToolUpdate
    <2>3. \A s \in {"mixed", "complete"} :
              [files[PathOf(p)] EXCEPT !.state = s] \in FileState
      BY <2>1, FileUpdate
    <2>4. files' \in [Path -> FileState]
      BY <1>7, <2>1, <2>3 DEF ToolSucceeds
    <2> QED
      BY <1>7, <2>2, <2>4 DEF ToolSucceeds
  <1>8. CASE ToolFails(p)
    <2>1. [tool[p] EXCEPT !.state = "failed"] \in ToolState
      BY ToolUpdate
    <2> QED
      BY <1>8, <2>1 DEF ToolFails, ToolRuns
  <1>9. CASE ReadCheckpoint(p)
    <2>1. name[p] \in Name /\ meta[p] \in Row
      BY <1>9 DEF ReadCheckpoint
    <2>2. Completed(p, WithCheckpoint(meta[p])) \in Row
      BY <2>1, WithCheckpointType, CompletedType
    <2> QED
      BY <1>9, <2>2 DEF ReadCheckpoint
  <1>10. CASE Insert(p)
    <2>1. meta[p] \in Row
      BY <1>10 DEF Insert
    <2>2. Append(rows, meta[p]) \in Seq(Row)
      BY <2>1
    <2>3. [hist[p] EXCEPT !.row = Len(rows) + 1] \in History
      <3>1. Len(rows) + 1 \in Nat
        OBVIOUS
      <3> QED
        BY <3>1, HistoryUpdate
    <2>4. CASE rows' = Append(rows, meta[p])
               /\ hist' = [hist EXCEPT ![p].row = Len(rows) + 1]
      BY <1>10, <2>2, <2>3, <2>4 DEF Insert
    <2>5. CASE UNCHANGED <<rows, hist>>
      BY <1>10, <2>5 DEF Insert
    <2> QED
      BY <1>10, <2>4, <2>5 DEF Insert
  <1>11. CASE Crash(p)
    BY <1>11 DEF Crash
  <1> QED
    BY <1>1, <1>2, <1>3, <1>4, <1>5, <1>6, <1>7, <1>8, <1>9, <1>10, <1>11 DEF Step

(* So does every step.                                                     *)
LEMMA TypeInvNext == TypeInv /\ [Next]_vars => TypeInv'
  <1> SUFFICES ASSUME TypeInv, [Next]_vars PROVE TypeInv'
    OBVIOUS
  <1>1. ASSUME NEW p \in Invocation, Step(p) PROVE TypeInv'
    BY <1>1, TypeInvStep
  <1>2. CASE Write
    BY <1>2, BoundAssumption DEF Write, TypeInv, TypeOK, Started, store
  <1>3. CASE Tick
    BY <1>3, BoundAssumption DEF Tick, TypeInv, TypeOK, Started, store
  <1>4. CASE UNCHANGED vars
    BY <1>4 DEF vars, TypeInv, TypeOK, Started, store, env
  <1> QED
    BY <1>1, <1>2, <1>3, <1>4 DEF Next

(* The variables of PdbBackup always have their types.                     *)
THEOREM TypeCorrect == Spec => []TypeOK
  <1>1. TypeInv => TypeOK
    BY DEF TypeInv
  <1> QED
    BY <1>1, TypeInvInit, TypeInvNext, PTL DEF Spec

-----------------------------------------------------------------------------
(* The invariants of the layers above type correctness.                    *)

Ordered(r) == r.from <= r.to /\ r.to <= lsn

(* Rows, META and the requests made to innobackupex are ranges of the redo *)
(* log that has been written; rows are copies of META and META is read     *)
(* from rows and from the checkpoints of tools, so that none of the three  *)
(* is invariant without the others.                                        *)
LsnInv ==
    /\ \A i \in 1 .. Len(rows) : Ordered(rows[i])
    /\ \A p \in Invocation : Ordered(tool[p])
    /\ \A p \in Invocation : Started(p) => Ordered(meta[p])

FullNames == {rows[i].name : i \in FullRows}

Based == {"readLsn", "launch", "backup", "checkpoint", "stream",
          "readCheckpoint", "insert", "done"}

(* Where an incremental backup's base comes from, and that a full backup   *)
(* never gets one.                                                         *)
BaseInv ==
    \A p \in Invocation :
        /\ pc[p] \in {"readName", "readLsn"} => cmd[p].kind = "incremental"
        /\ pc[p] = "readName" => meta[p].name = name[p]
        /\ Started(p) /\ cmd[p].kind = "full" =>
               meta[p].baseon = Null /\ meta[p].name = name[p]
        /\ pc[p] \in Based /\ cmd[p].kind = "incremental" =>
               base[p] \in {name[p]} \cup FullNames
        /\ pc[p] \in {"insert", "done"} /\ cmd[p].kind = "incremental" =>
               meta[p].baseon = base[p] /\ meta[p].name = name[p]

Described(p, m) ==
    /\ m.name = name[p]
    /\ m.compressed = cmd[p].compress
    /\ m.type = CheckpointOf(p).type
    /\ m.from = tool[p].from
    /\ m.to = tool[p].to

(* An innobackupex that runs alone leaves its own checkpoint and a file    *)
(* that nothing else wrote into; META then describes it; and the row that  *)
(* an invocation inserted stays what its META is.                          *)
Solo(p) ==
    /\ p \in alone => pc[p] \notin {"idle", "readName", "readLsn", "launch"}
    /\ p \in alone /\ InTool(p) => \A q \in Invocation \ {p} : ~ToolRuns(q)
    /\ tool[p].state = "ok" => pc[p] \in {"readCheckpoint", "insert", "done", "dead"}
    /\ p \in alone /\ pc[p] = "stream" => ckpt = p
    /\ p \in alone /\ pc[p] = "readCheckpoint" /\ tool[p].state = "ok" => ckpt = p
    /\ p \in alone /\ tool[p].state = "ok" /\ pc[p] \in {"insert", "done"} =>
           Described(p, meta[p])

SoloFile(p) ==
    /\ p \in alone /\ (ToolRuns(p) \/ tool[p].state = "ok")
                 /\ files[PathOf(p)].by = p =>
           files[PathOf(p)].state # "mixed"
    /\ tool[p].state = "ok" /\ files[PathOf(p)].state # "mixed"
                 /\ files[PathOf(p)].by = p =>
           files[PathOf(p)].state = "complete"

RowKept(p) ==
    hist[p].row # 0 =>
        /\ pc[p] = "done"
        /\ hist[p].row \in 1 .. Len(rows)
        /\ rows[hist[p].row] = meta[p]

SoloInv == \A p \in Invocation : Solo(p) /\ SoloFile(p) /\ RowKept(p)

(* What an incremental backup took from the rows its SELECTs returned, and *)
(* who opened the file at its path.                                        *)
Chain(p) ==
    /\ hist[p].nameRow \in 0 .. Len(rows) /\ hist[p].lsnRow \in 0 .. Len(rows)
    /\ hist[p].lsnRow # 0 => pc[p] \notin {"idle", "readName", "readLsn"}
    /\ hist[p].nameRow # 0 => base[p] = rows[hist[p].nameRow].name
    /\ hist[p].lsnRow # 0 => meta[p].dir = rows[hist[p].lsnRow].dir
    /\ hist[p].lsnRow # 0 /\ pc[p] = "launch" =>
           meta[p].to = rows[hist[p].lsnRow].to
    /\ hist[p].lsnRow # 0 /\ tool[p].state \in {"running", "ok"} =>
           tool[p].from = rows[hist[p].lsnRow].to
    /\ tool[p].state \in {"running", "ok"} => files[PathOf(p)].by # Null
    /\ Started(p) /\ cmd[p].kind = "full" => meta[p].dir = cmd[p].dir
    /\ pc[p] \in {"idle", "readName", "readLsn", "launch"} => tool[p].state = "none"
    /\ ToolRuns(p) => tool[p].state = "running"

Owned(path) ==
    files[path].by # Null =>
        Started(files[path].by) /\ PathOf(files[path].by) = path

ChainInv ==
    /\ \A p \in Invocation : Chain(p)
    /\ \A path \in Path : Owned(path)

-----------------------------------------------------------------------------
(* A step of one invocation changes no local variable of another one.      *)
LEMMA StepFrame ==
    ASSUME TypeInv, NEW p \in Invocation, Step(p), NEW q \in Invocation, q # p
    PROVE  /\ pc'[q] = pc[q] /\ name'[q] = name[q] /\ base'[q] = base[q]
           /\ meta'[q] = meta[q] /\ tool'[q] = tool[q] /\ hist'[q] = hist[q]
  <1> USE DEF TypeInv, TypeOK, Goto, store, env
  <1>1. CASE Start(p)
    BY <1>1 DEF Start
  <1>2. CASE ReadBaseName(p)
    BY <1>2 DEF ReadBaseName
  <1>3. CASE ReadBaseLsn(p)
    BY <1>3 DEF ReadBaseLsn
  <1>4. CASE Launch(p)
    BY <1>4 DEF Launch
  <1>5. CASE ToolOpensCheckpoint(p)
    BY <1>5 DEF ToolOpensCheckpoint
  <1>6. CASE ToolWritesCheckpoint(p)
    BY <1>6 DEF ToolWritesCheckpoint
  <1>7. CASE ToolSucceeds(p)
    BY <1>7 DEF ToolSucceeds
  <1>8. CASE ToolFails(p)
    BY <1>8 DEF ToolFails
  <1>9. CASE ReadCheckpoint(p)
    BY <1>9 DEF ReadCheckpoint
  <1>10. CASE Insert(p)
    BY <1>10 DEF Insert
  <1>11. CASE Crash(p)
    BY <1>11 DEF Crash
  <1> QED
    BY <1>1, <1>2, <1>3, <1>4, <1>5, <1>6, <1>7, <1>8, <1>9, <1>10, <1>11 DEF Step

(* What no step of an invocation changes, and how the table may change.    *)
LEMMA StepGlobals ==
    ASSUME TypeInv, NEW p \in Invocation, Step(p)
    PROVE  /\ cmd' = cmd /\ lsn' = lsn
           /\ \/ rows' = rows
              \/ /\ Insert(p)
                 /\ rows' = Append(rows, meta[p])
                 /\ hist'[p].row = Len(rows) + 1
  <1> USE DEF TypeInv, TypeOK, Goto, store, env
  <1>1. CASE Insert(p)
    <2>1. CASE rows' = Append(rows, meta[p])
               /\ hist' = [hist EXCEPT ![p].row = Len(rows) + 1]
      <3>1. hist'[p] = [hist[p] EXCEPT !.row = Len(rows) + 1]
        BY <2>1
      <3>2. [hist[p] EXCEPT !.row = Len(rows) + 1].row = Len(rows) + 1
        BY DEF History
      <3> QED
        BY <1>1, <2>1, <3>1, <3>2 DEF Insert
    <2>2. CASE UNCHANGED <<rows, hist>>
      BY <1>1, <2>2 DEF Insert
    <2> QED
      BY <1>1, <2>1, <2>2 DEF Insert
  <1>2. CASE ~Insert(p)
    BY <1>2 DEF Step, Start, ReadBaseName, ReadBaseLsn, Launch, ToolOpensCheckpoint,
                ToolWritesCheckpoint, ToolSucceeds, ToolFails, ReadCheckpoint, Crash
  <1> QED
    BY <1>1, <1>2

(* Earlier rows keep their numbers, and a new one is the inserted META.    *)
LEMMA RowsKept ==
    ASSUME TypeInv, NEW p \in Invocation, Step(p)
    PROVE  /\ Len(rows) \in Nat /\ Len(rows') \in Nat /\ Len(rows) <= Len(rows')
           /\ \A i \in 1 .. Len(rows) : rows'[i] = rows[i]
           /\ \A i \in 1 .. Len(rows') : i > Len(rows) =>
                  pc[p] = "insert" /\ rows'[i] = meta[p]
  <1>1. CASE rows' = rows
    BY <1>1 DEF TypeInv, TypeOK
  <1>2. CASE rows' = Append(rows, meta[p]) /\ Insert(p)
    <2>1. meta[p] \in Row /\ rows \in Seq(Row) /\ pc[p] = "insert"
      BY <1>2 DEF TypeInv, TypeOK, Started, Insert
    <2> QED
      BY <1>2, <2>1
  <1> QED
    BY <1>1, <1>2, StepGlobals

(* The fields of a row, so that no proof has to expand Row.                *)
LEMMA RowFields ==
    ASSUME NEW r \in Row
    PROVE  r.from \in Nat /\ r.to \in Nat /\ r.name \in Name /\ r.dir \in Dir
  BY BoundAssumption DEF Row

(* The fields of a tool's state.                                           *)
LEMMA ToolFields ==
    ASSUME NEW t \in ToolState
    PROVE  t.from \in Nat /\ t.to \in Nat
  BY BoundAssumption DEF ToolState

(* The name and the range of what is fetched are a row's, or META's own.   *)
LEMMA FetchedFields ==
    ASSUME rows \in Seq(Row), NEW m \in Row, NEW i \in SelectedRow
    PROVE  /\ i = 0 => Fetched(m, i) = m
           /\ i # 0 => /\ Fetched(m, i).name = rows[i].name
                       /\ Fetched(m, i).dir = rows[i].dir
                       /\ Fetched(m, i).from = rows[i].from
                       /\ Fetched(m, i).to = rows[i].to
  <1>1. CASE i = 0
    BY <1>1 DEF Fetched
  <1>2. CASE i # 0
    BY <1>2, SelectedRowIsNat DEF Fetched, Row
  <1> QED
    BY <1>1, <1>2

-----------------------------------------------------------------------------
(* The log sequence numbers.                                               *)

(* At first there is no row and every tool's range is empty.               *)
LEMMA LsnInvInit == Init => LsnInv
  <1> SUFFICES ASSUME Init PROVE LsnInv
    OBVIOUS
  <1>1. Len(rows) = 0 /\ lsn = 0
    BY DEF Init
  <1> QED
    BY <1>1 DEF Init, LsnInv, Ordered, Started

(* One step at a time: META, the tool, and then the rows.                  *)
LEMMA LsnInvStep ==
    ASSUME TypeInv, LsnInv, NEW p \in Invocation, Step(p)
    PROVE  LsnInv'
  <1> USE DEF Ordered, Started
  <1>1. cmd' = cmd /\ lsn' = lsn /\ lsn \in Nat
    BY StepGlobals, BoundAssumption DEF TypeInv, TypeOK
  <1>2. ASSUME NEW q \in Invocation, q # p
        PROVE  Ordered(tool[q])' /\ (Started(q) => Ordered(meta[q]))'
    BY <1>1, <1>2, StepFrame DEF LsnInv
  <1>3. Ordered(tool[p])'
    <2> USE DEF TypeInv, TypeOK
    <2>1. CASE Launch(p)
      <3>1. tool'[p] = [state |-> "running", from |-> meta[p].to, to |-> meta[p].to]
        BY <2>1 DEF Launch
      <3>2. meta[p] \in Row /\ Ordered(meta[p])
        BY <2>1 DEF Launch, LsnInv
      <3> QED
        BY <1>1, <3>1, <3>2, RowFields
    <2>2. CASE ToolOpensCheckpoint(p)
      <3>1. tool'[p] = [tool[p] EXCEPT !.to = lsn]
        BY <2>2 DEF ToolOpensCheckpoint
      <3>2. tool'[p].from = tool[p].from /\ tool'[p].to = lsn
        BY <3>1 DEF ToolState
      <3> QED
        BY <1>1, <3>2, ToolFields DEF LsnInv
    <2>3. CASE ToolSucceeds(p) \/ ToolFails(p)
      <3>1. \E s \in {"ok", "failed"} : tool'[p] = [tool[p] EXCEPT !.state = s]
        BY <2>3 DEF ToolSucceeds, ToolFails
      <3>2. tool'[p].from = tool[p].from /\ tool'[p].to = tool[p].to
        BY <3>1 DEF ToolState
      <3> QED
        BY <1>1, <3>2 DEF LsnInv
    <2>4. CASE tool' = tool
      BY <1>1, <2>4 DEF LsnInv
    <2> QED
      BY <2>1, <2>2, <2>3, <2>4 DEF Step, Start, ReadBaseName, ReadBaseLsn,
         ToolWritesCheckpoint, ReadCheckpoint, Insert, Crash
  <1>4. Started(p)' => Ordered(meta[p])'
    <2> USE DEF TypeInv, TypeOK
    <2>1. CASE Start(p)
      <3>1. meta'[p] = NewMeta(cmd[p])
        BY <2>1 DEF Start
      <3>2. NewMeta(cmd[p]).from = 0 /\ NewMeta(cmd[p]).to = 0
        BY DEF NewMeta
      <3> QED
        BY <1>1, <3>1, <3>2
    <2>2. CASE ReadBaseName(p) \/ ReadBaseLsn(p)
      <3>1. PICK i \in SelectedRow : meta'[p] = Fetched(meta[p], i)
        BY <2>2 DEF ReadBaseName, ReadBaseLsn
      <3>2. meta[p] \in Row /\ Ordered(meta[p])
        BY <2>2 DEF ReadBaseName, ReadBaseLsn, LsnInv
      <3>3. i # 0 => Ordered(rows[i])
        BY SelectedRowIsNat DEF LsnInv
      <3> QED
        BY <1>1, <3>1, <3>2, <3>3, FetchedFields
    <2>3. CASE ReadCheckpoint(p)
      <3>1. meta'[p] = Completed(p, WithCheckpoint(meta[p]))
        BY <2>3 DEF ReadCheckpoint
      <3>2. meta[p] \in Row /\ Ordered(meta[p])
        BY <2>3 DEF ReadCheckpoint, LsnInv
      <3>3. WithCheckpoint(meta[p]) \in Row
        BY <3>2, WithCheckpointType
      <3>4. Ordered(WithCheckpoint(meta[p]))
        <4>1. CASE ckpt = Null
          BY <4>1, <3>2 DEF WithCheckpoint
        <4>2. CASE ckpt # Null
          <5>1. ckpt \in Invocation
            BY <4>2
          <5>2. /\ WithCheckpoint(meta[p]).from = tool[ckpt].from
                /\ WithCheckpoint(meta[p]).to = tool[ckpt].to
            BY <4>2, <3>2 DEF WithCheckpoint, CheckpointOf, Row
          <5> QED
            BY <5>1, <5>2 DEF LsnInv
        <4> QED
          BY <4>1, <4>2
      <3>5. /\ meta'[p].from = WithCheckpoint(meta[p]).from
            /\ meta'[p].to = WithCheckpoint(meta[p]).to
        BY <3>1, <3>3 DEF Completed, Row
      <3> QED
        BY <1>1, <3>4, <3>5
    <2>4. CASE meta' = meta /\ Started(p)
      BY <1>1, <2>4 DEF LsnInv
    <2> QED
      BY <2>1, <2>2, <2>3, <2>4 DEF Step, Launch, ToolOpensCheckpoint,
         ToolWritesCheckpoint, ToolSucceeds, ToolFails, ToolRuns, Insert, Crash
  <1>5. ASSUME NEW i \in 1 .. Len(rows') PROVE Ordered(rows[i])'
    <2>1. CASE i <= Len(rows)
      BY <1>1, <2>1, RowsKept DEF LsnInv
    <2>2. CASE i > Len(rows)
      BY <1>1, <2>2, RowsKept DEF LsnInv
    <2> QED
      BY <2>1, <2>2, RowsKept
  <1> QED
    BY <1>2, <1>3, <1>4, <1>5 DEF LsnInv

(* The invariant of the log sequence numbers is inductive.                 *)
LEMMA LsnInvNext == TypeInv /\ LsnInv /\ [Next]_vars => LsnInv'
  <1> SUFFICES ASSUME TypeInv, LsnInv, [Next]_vars PROVE LsnInv'
    OBVIOUS
  <1>1. ASSUME NEW p \in Invocation, Step(p) PROVE LsnInv'
    BY <1>1, LsnInvStep
  <1>2. CASE Write
    <2>1. /\ UNCHANGED <<rows, tool, meta, pc>>
          /\ lsn \in Nat /\ lsn' = lsn + 1
      BY <1>2, BoundAssumption DEF Write, store, TypeInv, TypeOK
    <2>2. \A i \in 1 .. Len(rows) : rows[i].to \in Nat
      BY RowFields DEF TypeInv, TypeOK
    <2>3. \A p \in Invocation : tool[p].to \in Nat /\ (Started(p) => meta[p].to \in Nat)
      BY RowFields, ToolFields DEF TypeInv, TypeOK
    <2> QED
      BY <2>1, <2>2, <2>3 DEF LsnInv, Ordered, Started
  <1>3. CASE Tick
    BY <1>3 DEF Tick, LsnInv, Ordered, Started, store
  <1>4. CASE UNCHANGED vars
    BY <1>4 DEF vars, LsnInv, Ordered, Started, store, env
  <1> QED
    BY <1>1, <1>2, <1>3, <1>4 DEF Next

(* Every range in hisdb and every request to innobackupex is one the       *)
(* server's log has been through.                                          *)
THEOREM LsnsStayOrdered == Spec => []LsnsOrdered
  <1>1. LsnInv => LsnsOrdered
    BY DEF LsnInv, LsnsOrdered, Ordered
  <1> QED
    BY <1>1, TypeInvInit, TypeInvNext, LsnInvInit, LsnInvNext, PTL DEF Spec

-----------------------------------------------------------------------------
(* The base of an incremental backup, and the refinement of BackupCatalog. *)

(* What the SELECT finds is what the catalog calls a full backup.          *)
LEMMA FullRowsAreFullNames ==
    ASSUME NEW i \in FullRows
    PROVE  rows[i].name \in FullNames
  BY DEF FullNames

(* A name that is a full backup's once is one ever after.                  *)
LEMMA FullNamesGrow ==
    ASSUME TypeInv, NEW p \in Invocation, Step(p)
    PROVE  FullNames \subseteq FullNames'
  <1> SUFFICES ASSUME NEW i \in FullRows PROVE rows[i].name \in FullNames'
    BY DEF FullNames
  <1>1. i \in 1 .. Len(rows) /\ rows[i].type = "full-backuped"
    BY DEF FullRows
  <1>2. i \in 1 .. Len(rows') /\ rows'[i] = rows[i]
    BY <1>1, RowsKept
  <1>3. i \in FullRows'
    BY <1>1, <1>2 DEF FullRows
  <1> QED
    BY <1>2, <1>3 DEF FullNames

(* No base has been looked up at first.                                    *)
LEMMA BaseInvInit == Init => BaseInv
  BY DEF Init, BaseInv, Started, Based

(* Where an incremental backup's base comes from, step by step.            *)
LEMMA BaseInvStep ==
    ASSUME TypeInv, BaseInv, NEW p \in Invocation, Step(p)
    PROVE  BaseInv'
  <1> DEFINE Part(q) ==
        /\ pc[q] \in {"readName", "readLsn"} => cmd[q].kind = "incremental"
        /\ pc[q] = "readName" => meta[q].name = name[q]
        /\ Started(q) /\ cmd[q].kind = "full" =>
               meta[q].baseon = Null /\ meta[q].name = name[q]
        /\ pc[q] \in Based /\ cmd[q].kind = "incremental" =>
               base[q] \in {name[q]} \cup FullNames
        /\ pc[q] \in {"insert", "done"} /\ cmd[q].kind = "incremental" =>
               meta[q].baseon = base[q] /\ meta[q].name = name[q]
  <1>1. cmd' = cmd /\ FullNames \subseteq FullNames'
    BY StepGlobals, FullNamesGrow
  <1>2. Part(p)
    BY DEF BaseInv
  <1>3. cmd[p].kind \in {"full", "incremental"}
    BY CommandAssumption DEF TypeInv, TypeOK, Kind
  <1>4. ASSUME NEW q \in Invocation, q # p
        PROVE  Part(q)'
    <2>1. Part(q)
      BY DEF BaseInv
    <2> QED
      BY <1>1, <1>4, <2>1, StepFrame DEF Started
  <1>5. Part(p)'
    <2> USE DEF TypeInv, TypeOK, Goto, Started, Based
    <2>1. CASE Start(p)
      <3>1. meta'[p] = NewMeta(cmd[p]) /\ name'[p] = NameOf(cmd[p])
        BY <2>1 DEF Start
      <3>2. NewMeta(cmd[p]).baseon = Null /\ NewMeta(cmd[p]).name = NameOf(cmd[p])
        BY DEF NewMeta
      <3>3. pc'[p] = IF cmd[p].kind = "full" THEN "launch" ELSE "readName"
        BY <2>1 DEF Start
      <3>4. cmd[p].kind = "full" => pc'[p] = "launch"
        BY <3>3
      <3>5. cmd[p].kind = "incremental" => pc'[p] = "readName"
        BY <3>3
      <3> QED
        BY <1>1, <1>3, <3>1, <3>2, <3>4, <3>5
    <2>2. CASE ReadBaseName(p)
      <3>1. PICK i \in SelectedRow : /\ meta'[p] = Fetched(meta[p], i)
                                    /\ base'[p] = Fetched(meta[p], i).name
        BY <2>2 DEF ReadBaseName
      <3>2. pc[p] = "readName" /\ pc'[p] = "readLsn" /\ name' = name
        BY <2>2 DEF ReadBaseName
      <3>3. cmd[p].kind = "incremental" /\ meta[p].name = name[p]
        BY <1>2, <3>2
      <3>4. base'[p] \in {name[p]} \cup FullNames
        <4>1. CASE i = 0
          BY <3>1, <3>2, <3>3, <4>1, FetchedFields
        <4>2. CASE i # 0
          BY <3>1, <3>2, <4>2, FetchedFields, SelectedRowType, FullRowsAreFullNames
        <4> QED
          BY <4>1, <4>2
      <3> QED
        BY <1>1, <3>2, <3>3, <3>4
    <2>3. CASE ReadBaseLsn(p)
      <3>1. pc[p] = "readLsn" /\ pc'[p] = "launch" /\ name' = name /\ base' = base
        BY <2>3 DEF ReadBaseLsn
      <3> QED
        BY <1>1, <1>2, <3>1
    <2>4. CASE Launch(p) \/ ToolOpensCheckpoint(p) \/ ToolWritesCheckpoint(p)
                 \/ ToolSucceeds(p) \/ ToolFails(p)
      <3>1. /\ pc[p] \in {"launch", "backup", "checkpoint", "stream"}
            /\ pc'[p] \in {"backup", "checkpoint", "stream", "readCheckpoint"}
            /\ UNCHANGED <<name, base, meta>>
        BY <2>4 DEF Launch, ToolOpensCheckpoint, ToolWritesCheckpoint,
                    ToolSucceeds, ToolFails, ToolRuns
      <3> QED
        BY <1>1, <1>2, <3>1
    <2>5. CASE ReadCheckpoint(p)
      <3>1. /\ pc[p] = "readCheckpoint" /\ pc'[p] = "insert"
            /\ name' = name /\ base' = base
            /\ meta'[p] = Completed(p, WithCheckpoint(meta[p]))
            /\ meta[p] \in Row
        BY <2>5 DEF ReadCheckpoint
      <3>2. WithCheckpoint(meta[p]) \in Row
        BY <3>1, WithCheckpointType
      <3>3. /\ WithCheckpoint(meta[p]).baseon = meta[p].baseon
            /\ WithCheckpoint(meta[p]).name = meta[p].name
        BY <3>1 DEF WithCheckpoint, Row
      <3>4. CASE cmd[p].kind = "full"
        <4>1. /\ meta'[p].baseon = meta[p].baseon
              /\ meta'[p].name = meta[p].name
          BY <3>1, <3>2, <3>3, <3>4 DEF Completed, Row
        <4> QED
          BY <1>1, <1>2, <3>1, <3>4, <4>1
      <3>5. CASE cmd[p].kind = "incremental"
        <4>1. meta'[p].baseon = base[p] /\ meta'[p].name = name[p]
          BY <3>1, <3>2, <3>5 DEF Completed, Row
        <4> QED
          BY <1>1, <1>2, <3>1, <3>5, <4>1
      <3> QED
        BY <1>3, <3>4, <3>5
    <2>6. CASE Insert(p)
      <3>1. /\ pc[p] = "insert" /\ pc'[p] = "done"
            /\ UNCHANGED <<name, base, meta>>
        BY <2>6 DEF Insert
      <3> QED
        BY <1>1, <1>2, <3>1
    <2>7. CASE Crash(p)
      <3>1. /\ pc[p] # "idle" /\ pc'[p] = "dead"
            /\ UNCHANGED <<name, base, meta>>
        BY <2>7 DEF Crash
      <3> QED
        BY <1>1, <1>2, <3>1
    <2> QED
      BY <2>1, <2>2, <2>3, <2>4, <2>5, <2>6, <2>7 DEF Step
  <1> QED
    BY <1>4, <1>5 DEF BaseInv

(* The steps of the environment change nothing these invariants are about. *)
LEMMA OtherSteps ==
    ASSUME TypeInv, [Next]_vars
    PROVE  \/ \E p \in Invocation : Step(p)
           \/ UNCHANGED <<table, rows, ckpt, files, pc, cmd, name, base, meta,
                          tool, alone, hist>>
  BY DEF Next, Write, Tick, vars, store, env

(* The invariant of the bases is inductive.                                *)
LEMMA BaseInvNext == TypeInv /\ BaseInv /\ [Next]_vars => BaseInv'
  <1> SUFFICES ASSUME TypeInv, BaseInv, [Next]_vars PROVE BaseInv'
    OBVIOUS
  <1>1. ASSUME NEW p \in Invocation, Step(p) PROVE BaseInv'
    BY <1>1, BaseInvStep
  <1>2. CASE UNCHANGED <<table, rows, ckpt, files, pc, cmd, name, base, meta,
                         tool, alone, hist>>
    BY <1>2 DEF BaseInv, Started, FullNames, FullRows
  <1> QED
    BY <1>1, <1>2, OtherSteps

(* An initial hisdb is an initial catalog.                                 *)
LEMMA CatalogInit == Init => Catalog!Init
  BY DEF Init, Catalog!Init

(* A step of PdbBackup is a Record of the catalog or leaves it alone.      *)
LEMMA CatalogStep ==
    TypeInv /\ LsnInv /\ BaseInv /\ [Next]_vars => [Catalog!Record]_rows
  <1> SUFFICES ASSUME TypeInv, LsnInv, BaseInv, [Next]_vars
               PROVE  Catalog!Record \/ rows' = rows
    OBVIOUS
  <1>1. ASSUME NEW p \in Invocation, Step(p)
        PROVE  Catalog!Record \/ rows' = rows
    <2>1. CASE Insert(p) /\ rows' = Append(rows, meta[p])
      <3>1. pc[p] = "insert" /\ meta[p] \in Row /\ rows \in Seq(Row)
        BY <2>1 DEF Insert, TypeInv, TypeOK, Started
      <3>2. Len(rows') = Len(rows) + 1 /\ rows'[Len(rows) + 1] = meta[p]
        BY <2>1, <3>1
      <3>3. meta[p].from <= meta[p].to
        BY <3>1 DEF LsnInv, Ordered, Started
      <3>4. meta[p].baseon \in {Null, meta[p].name} \cup FullNames
        <4>1. cmd[p].kind \in {"full", "incremental"}
          BY CommandAssumption DEF TypeInv, TypeOK, Kind
        <4> QED
          BY <3>1, <4>1 DEF BaseInv, Started, Based
      <3>5. FullNames = Catalog!FullNames
        BY DEF FullNames, FullRows, Catalog!FullNames
      <3> QED
        BY <2>1, <3>2, <3>3, <3>4, <3>5 DEF Catalog!Record, Catalog!Acceptable
    <2> QED
      BY <1>1, <2>1, StepGlobals
  <1> QED
    BY <1>1, OtherSteps

(* hisdb is a catalog: rows are only ever appended, each is a range of the *)
(* log, and the base it names was recorded before it.                      *)
THEOREM HisdbIsACatalog == Spec => CatalogSpec
  BY TypeInvInit, TypeInvNext, LsnInvInit, LsnInvNext, BaseInvInit, BaseInvNext,
     CatalogInit, CatalogStep, PTL DEF Spec, CatalogSpec, Catalog!Spec

-----------------------------------------------------------------------------
(* Backups that run alone.                                                 *)

(* Nothing has run alone, or at all, in the initial states.                *)
LEMMA SoloInvInit == Init => SoloInv
  <1> SUFFICES ASSUME Init, NEW p \in Invocation
               PROVE  Solo(p) /\ SoloFile(p) /\ RowKept(p)
    BY DEF SoloInv
  <1>1. tool[p].state = "none" /\ hist[p].row = 0 /\ pc[p] = "idle" /\ alone = {}
    BY DEF Init
  <1> QED
    BY <1>1 DEF Solo, SoloFile, RowKept, ToolRuns

(* A step of p moves it from one program point to the next.                *)
LEMMA StepPc ==
    ASSUME TypeInv, NEW p \in Invocation, Step(p)
    PROVE  /\ pc[p] \notin {"done", "dead"}
           /\ pc'[p] # "idle"
           /\ pc' = [pc EXCEPT ![p] = pc'[p]]
           /\ Launch(p) \/ (alone' = alone /\ (ToolRuns(p)' => ToolRuns(p)))
  <1> USE DEF TypeInv, TypeOK, Goto, ToolRuns
  <1>1. CASE Start(p)
    BY <1>1 DEF Start
  <1>2. CASE ~Start(p)
    BY <1>2 DEF Step, ReadBaseName, ReadBaseLsn, Launch, ToolOpensCheckpoint,
          ToolWritesCheckpoint, ToolSucceeds, ToolFails, ReadCheckpoint, Insert, Crash
  <1> QED
    BY <1>1, <1>2

(* Launching drops every invocation in its window out of alone, and joins  *)
(* it only when no other tool runs.                                        *)
LEMMA LaunchAlone ==
    ASSUME TypeInv, NEW p \in Invocation, Launch(p)
    PROVE  /\ \A q \in Invocation : q # p /\ q \in alone' => q \in alone /\ ~InTool(q)
           /\ p \in alone' => \/ p \in alone
                             \/ \A q \in Invocation \ {p} : ~ToolRuns(q)
  BY DEF Launch

(* A step of one invocation keeps what SoloInv says of another one.        *)
LEMMA SoloOthers ==
    ASSUME TypeInv, SoloInv, NEW p \in Invocation, Step(p),
           NEW q \in Invocation, q # p
    PROVE  Solo(q)'
  <1>1. /\ pc'[q] = pc[q] /\ name'[q] = name[q] /\ meta'[q] = meta[q]
        /\ tool'[q] = tool[q] /\ cmd' = cmd
    BY StepFrame, StepGlobals
  <1>2. Solo(q)
    BY DEF SoloInv
  <1>3. q \in alone' => q \in alone
    BY StepPc, LaunchAlone
  <1>4. InTool(q)' = InTool(q) /\ CheckpointOf(q)' = CheckpointOf(q)
    BY <1>1 DEF InTool, ToolRuns, CheckpointOf
  <1>5. q \in alone' /\ InTool(q) => ~Launch(p) /\ ~ToolRuns(p)
    BY <1>2, <1>3, LaunchAlone DEF Solo
  <1>6. ASSUME q \in alone', InTool(q)
        PROVE  ckpt' = ckpt /\ \A r \in Invocation \ {q} : ~ToolRuns(r)'
    <2>1. ~Launch(p) /\ ~ToolRuns(p)
      BY <1>5, <1>6
    <2>2. ckpt' = ckpt
      BY <2>1 DEF Step, Start, ReadBaseName, ReadBaseLsn, ToolOpensCheckpoint,
         ToolWritesCheckpoint, ToolSucceeds, ToolFails, ReadCheckpoint, Insert,
         Crash, ToolRuns
    <2>3. ~ToolRuns(p)'
      BY <2>1, StepPc
    <2>4. \A r \in Invocation \ {q} : ~ToolRuns(r)
      BY <1>2, <1>3, <1>6 DEF Solo
    <2>5. \A r \in Invocation \ {q, p} : ~ToolRuns(r)'
      BY <2>4, StepFrame DEF ToolRuns
    <2> QED
      BY <2>2, <2>3, <2>5
  <1> QED
    BY <1>1, <1>2, <1>3, <1>4, <1>6 DEF Solo, Described, InTool, ToolRuns

(* A step of an invocation keeps what SoloInv says of itself.              *)
LEMMA SoloSelf ==
    ASSUME TypeInv, BaseInv, SoloInv, NEW p \in Invocation, Step(p)
    PROVE  Solo(p)'
  <1> USE DEF TypeInv, TypeOK, Goto
  <1>1. Solo(p)
    BY DEF SoloInv
  <1>2. cmd' = cmd
    BY StepGlobals
  <1>3. CASE Start(p) \/ ReadBaseName(p) \/ ReadBaseLsn(p)
    <2>1. /\ pc[p] \in {"idle", "readName", "readLsn"}
          /\ tool' = tool /\ alone' = alone
      BY <1>3 DEF Start, ReadBaseName, ReadBaseLsn
    <2> QED
      BY <1>1, <2>1 DEF Solo
  <1>4. CASE Launch(p)
    <2>1. pc[p] = "launch" /\ pc'[p] = "backup" /\ tool'[p].state = "running"
      BY <1>4 DEF Launch
    <2>2. p \in alone' => \A q \in Invocation \ {p} : ~ToolRuns(q)
      BY <1>1, <1>4, <2>1, LaunchAlone DEF Solo
    <2>3. \A q \in Invocation \ {p} : ToolRuns(q)' = ToolRuns(q)
      BY StepFrame DEF ToolRuns
    <2> QED
      BY <2>1, <2>2, <2>3 DEF Solo
  <1>5. ASSUME ~Launch(p), pc[p] \in {"backup", "checkpoint", "stream", "readCheckpoint"},
               alone' = alone
        PROVE  p \in alone' => \A q \in Invocation \ {p} : ~ToolRuns(q)'
    <2>1. p \in alone => \A q \in Invocation \ {p} : ~ToolRuns(q)
      BY <1>1, <1>5 DEF Solo, InTool, ToolRuns
    <2> QED
      BY <1>5, <2>1, StepFrame DEF ToolRuns
  <1>6. CASE ToolOpensCheckpoint(p)
    <2>1. /\ pc[p] = "backup" /\ pc'[p] = "checkpoint" /\ alone' = alone
          /\ tool'[p].state = tool[p].state
      BY <1>6 DEF ToolOpensCheckpoint, ToolState
    <2>2. ~Launch(p)
      BY <2>1 DEF Launch
    <2> QED
      BY <1>1, <1>5, <2>1, <2>2 DEF Solo
  <1>7. CASE ToolWritesCheckpoint(p)
    <2>1. /\ pc[p] = "checkpoint" /\ pc'[p] = "stream" /\ alone' = alone
          /\ tool' = tool /\ ckpt' = p
      BY <1>7 DEF ToolWritesCheckpoint
    <2>2. ~Launch(p)
      BY <2>1 DEF Launch
    <2> QED
      BY <1>1, <1>5, <2>1, <2>2 DEF Solo
  <1>8. CASE ToolSucceeds(p)
    <2>1. /\ pc[p] = "stream" /\ pc'[p] = "readCheckpoint" /\ alone' = alone
          /\ ckpt' = ckpt
      BY <1>8 DEF ToolSucceeds
    <2>2. ~Launch(p)
      BY <2>1 DEF Launch
    <2> QED
      BY <1>1, <1>5, <2>1, <2>2 DEF Solo
  <1>9. CASE ToolFails(p)
    <2>1. /\ pc[p] = "launch" \/ ToolRuns(p)
          /\ pc'[p] = "readCheckpoint" /\ alone' = alone
          /\ tool'[p].state = "failed"
      BY <1>9 DEF ToolFails, ToolState
    <2>2. p \in alone => pc[p] # "launch"
      BY <1>1 DEF Solo
    <2>3. p \in alone' => \A q \in Invocation \ {p} : ~ToolRuns(q)'
      <3>1. CASE pc[p] = "launch"
        BY <2>1, <2>2, <3>1
      <3>2. CASE pc[p] # "launch"
        <4>1. ~Launch(p) /\ pc[p] \in {"backup", "checkpoint", "stream"}
          BY <2>1, <3>2 DEF Launch, ToolRuns
        <4> QED
          BY <1>5, <2>1, <4>1
      <3> QED
        BY <3>1, <3>2
    <2> QED
      BY <2>1, <2>3 DEF Solo
  <1>10. CASE ReadCheckpoint(p)
    <2>1. /\ pc[p] = "readCheckpoint" /\ pc'[p] = "insert" /\ alone' = alone
          /\ tool' = tool /\ name' = name
          /\ meta'[p] = Completed(p, WithCheckpoint(meta[p]))
          /\ meta[p] \in Row
      BY <1>10 DEF ReadCheckpoint, Started
    <2>2. WithCheckpoint(meta[p]) \in Row
      BY <2>1, WithCheckpointType
    <2>3. ASSUME p \in alone, tool[p].state = "ok"
          PROVE  Described(p, meta'[p])
      <3>1. ckpt = p /\ ckpt # Null
        BY <1>1, <2>1, <2>3, NullAssumption DEF Solo
      <3>2. /\ WithCheckpoint(meta[p]).type = CheckpointOf(p).type
            /\ WithCheckpoint(meta[p]).from = CheckpointOf(p).from
            /\ WithCheckpoint(meta[p]).to = CheckpointOf(p).to
            /\ WithCheckpoint(meta[p]).name = meta[p].name
        BY <2>1, <3>1 DEF WithCheckpoint, Row
      <3>3. CheckpointOf(p).from = tool[p].from /\ CheckpointOf(p).to = tool[p].to
        BY DEF CheckpointOf
      <3>4. /\ meta'[p].type = CheckpointOf(p).type
            /\ meta'[p].from = tool[p].from
            /\ meta'[p].to = tool[p].to
            /\ meta'[p].compressed = cmd[p].compress
        BY <2>1, <2>2, <3>2, <3>3 DEF Completed, Row
      <3>5. meta'[p].name = name[p]
        <4>1. cmd[p].kind \in {"full", "incremental"}
          BY CommandAssumption DEF Kind
        <4>2. cmd[p].kind = "full" => meta[p].name = name[p]
          BY <2>1 DEF BaseInv, Started
        <4>3. CASE cmd[p].kind = "full"
          BY <2>1, <2>2, <3>2, <4>2, <4>3 DEF Completed, Row
        <4>4. CASE cmd[p].kind = "incremental"
          BY <2>1, <2>2, <4>4 DEF Completed, Row
        <4> QED
          BY <4>1, <4>3, <4>4
      <3> QED
        BY <3>4, <3>5 DEF Described
    <2>4. CheckpointOf(p)' = CheckpointOf(p)
      BY <1>2, <2>1 DEF CheckpointOf
    <2> QED
      BY <1>1, <1>2, <2>1, <2>3, <2>4 DEF Solo, Described, InTool, ToolRuns
  <1>11. CASE Insert(p)
    <2>1. /\ pc[p] = "insert" /\ pc'[p] = "done" /\ alone' = alone
          /\ UNCHANGED <<tool, name, meta>>
      BY <1>11 DEF Insert
    <2> QED
      BY <1>1, <1>2, <2>1 DEF Solo, Described, InTool, ToolRuns, CheckpointOf
  <1>12. CASE Crash(p)
    <2>1. pc[p] # "idle" /\ pc'[p] = "dead" /\ alone' = alone /\ tool' = tool
      BY <1>12 DEF Crash
    <2> QED
      BY <1>1, <2>1 DEF Solo, InTool, ToolRuns
  <1> QED
    BY <1>3, <1>4, <1>6, <1>7, <1>8, <1>9, <1>10, <1>11, <1>12 DEF Step

(* How a step may change a file: launching opens it, and a tool that ends  *)
(* well completes it unless another one wrote into it.                     *)
LEMMA FilesStep ==
    ASSUME TypeInv, NEW p \in Invocation, Step(p), NEW path \in Path
    PROVE  \/ files'[path] = files[path]
           \/ /\ Launch(p) /\ path = PathOf(p)
              /\ files'[path].by = p
              /\ (\A q \in Invocation \ {p} : ~ToolRuns(q)) =>
                     files'[path].state = "partial"
           \/ /\ ToolSucceeds(p) /\ path = PathOf(p)
              /\ files'[path].by = files[path].by
              /\ files[path].state = "mixed" => files'[path].state = "mixed"
              /\ files[path].state # "mixed" => files'[path].state = "complete"
  <1> USE DEF TypeInv, TypeOK
  <1>1. CASE Launch(p)
    <2>1. CASE path = PathOf(p)
      <3>1. PICK s : /\ files'[path] = [state |-> s, by |-> p]
                     /\ (\A q \in Invocation \ {p} : ~ToolRuns(q)) => s = "partial"
        BY <1>1, <2>1 DEF Launch
      <3> QED
        BY <1>1, <2>1, <3>1
    <2>2. CASE path # PathOf(p)
      BY <1>1, <2>2 DEF Launch
    <2> QED
      BY <2>1, <2>2
  <1>2. CASE ToolSucceeds(p)
    <2>1. CASE path = PathOf(p)
      <3>1. files'[path] = [files[path] EXCEPT !.state =
                                IF files[path].state = "mixed" THEN "mixed" ELSE "complete"]
        BY <1>2, <2>1 DEF ToolSucceeds
      <3> QED
        BY <1>2, <2>1, <3>1 DEF FileState
    <2>2. CASE path # PathOf(p)
      BY <1>2, <2>2 DEF ToolSucceeds
    <2> QED
      BY <2>1, <2>2
  <1>3. CASE ~Launch(p) /\ ~ToolSucceeds(p)
    BY <1>3 DEF Step, Start, ReadBaseName, ReadBaseLsn, ToolOpensCheckpoint,
          ToolWritesCheckpoint, ToolFails, ReadCheckpoint, Insert, Crash
  <1> QED
    BY <1>1, <1>2, <1>3

(* The outcome of p's tool, by step.                                       *)
LEMMA ToolStep ==
    ASSUME TypeInv, NEW p \in Invocation, Step(p)
    PROVE  /\ Launch(p) => tool'[p].state = "running"
           /\ ~Launch(p) => /\ tool'[p].from = tool[p].from
                            /\ tool'[p].state # tool[p].state =>
                                   ToolSucceeds(p) \/ tool'[p].state = "failed"
  <1> USE DEF TypeInv, TypeOK, ToolState
  <1>1. CASE Launch(p)
    BY <1>1 DEF Launch
  <1>2. CASE ToolOpensCheckpoint(p)
    BY <1>2 DEF ToolOpensCheckpoint, Launch
  <1>3. CASE ToolSucceeds(p)
    BY <1>3 DEF ToolSucceeds, Launch
  <1>4. CASE ToolFails(p)
    <2>1. tool'[p] = [tool[p] EXCEPT !.state = "failed"]
      BY <1>4 DEF ToolFails
    <2>2. tool'[p].state = "failed" /\ tool'[p].from = tool[p].from
      BY <2>1
    <2>3. ~Launch(p)
      <3>1. ASSUME Launch(p) PROVE tool'[p].state = "running"
        BY <3>1 DEF Launch
      <3> QED
        BY <2>2, <3>1
    <2> QED
      BY <2>2, <2>3
  <1>5. CASE tool' = tool
    BY <1>5 DEF Launch
  <1> QED
    BY <1>1, <1>2, <1>3, <1>4, <1>5 DEF Step, Start, ReadBaseName, ReadBaseLsn,
       ToolWritesCheckpoint, ReadCheckpoint, Insert, Crash

(* The file of a tool that runs alone stays its own and unmixed.           *)
LEMMA SoloFileStep ==
    ASSUME TypeInv, SoloInv, NEW p \in Invocation, Step(p), NEW q \in Invocation
    PROVE  SoloFile(q)'
  <1>1. Solo(q) /\ SoloFile(q)
    BY DEF SoloInv
  <1>2. CASE q # p
    <2>1. /\ ToolRuns(q)' = ToolRuns(q) /\ tool'[q] = tool[q]
          /\ PathOf(q)' = PathOf(q) /\ pc'[q] = pc[q]
      BY <1>2, StepFrame, StepGlobals DEF ToolRuns, PathOf
    <2>2. q \in alone' => q \in alone
      BY <1>2, StepPc, LaunchAlone
    <2>3. CASE ToolRuns(q) \/ tool[q].state = "ok"
      <3>1. PathOf(q) \in Path
        BY <1>1, <2>3, PathType DEF Solo, Started, ToolRuns
      <3> QED
        BY <1>1, <1>2, <2>1, <2>2, <3>1, FilesStep DEF SoloFile
    <2>4. CASE ~(ToolRuns(q) \/ tool[q].state = "ok")
      BY <2>1, <2>4 DEF SoloFile
    <2> QED
      BY <2>3, <2>4
  <1>3. CASE q = p
    <2>1. CASE Launch(p)
      <3>1. PathOf(p)' = PathOf(p) /\ PathOf(p) \in Path /\ ~ToolSucceeds(p)
        BY <2>1, PathType DEF Launch, PathOf, Started, ToolSucceeds
      <3>2. p \in alone' => \A r \in Invocation \ {p} : ~ToolRuns(r)
        BY <1>1, <1>3, <2>1, LaunchAlone DEF Solo, Launch
      <3>3. (\A r \in Invocation \ {p} : ~ToolRuns(r)) =>
                files'[PathOf(p)].state = "partial"
        BY <2>1, <3>1 DEF Launch, TypeInv, TypeOK
      <3>4. tool'[p].state = "running"
        BY <2>1, ToolStep
      <3> QED
        BY <1>3, <3>1, <3>2, <3>3, <3>4 DEF SoloFile
    <2>2. CASE ToolSucceeds(p)
      <3>1. /\ PathOf(p)' = PathOf(p) /\ PathOf(p) \in Path /\ ~Launch(p)
            /\ ToolRuns(p) /\ alone' = alone
        BY <2>2, PathType DEF Launch, PathOf, Started, ToolSucceeds, ToolRuns
      <3>2. /\ files'[PathOf(p)].by = files[PathOf(p)].by
            /\ files[PathOf(p)].state = "mixed" => files'[PathOf(p)].state = "mixed"
            /\ files[PathOf(p)].state # "mixed" => files'[PathOf(p)].state = "complete"
        <4>1. files'[PathOf(p)] = [files[PathOf(p)] EXCEPT !.state =
                   IF files[PathOf(p)].state = "mixed" THEN "mixed" ELSE "complete"]
          BY <2>2, <3>1 DEF ToolSucceeds, TypeInv, TypeOK
        <4> QED
          BY <3>1, <4>1 DEF TypeInv, TypeOK, FileState
      <3> QED
        BY <1>1, <1>3, <3>1, <3>2 DEF SoloFile
    <2>3. CASE ~Launch(p) /\ ~ToolSucceeds(p)
      <3>1. /\ alone' = alone /\ (ToolRuns(p)' => ToolRuns(p))
            /\ tool'[p].state = "ok" => tool[p].state = "ok"
        BY <2>3, StepPc, ToolStep
      <3>2. CASE ToolRuns(p) \/ tool[p].state = "ok"
        <4>1. ~Start(p) /\ PathOf(p) \in Path
          BY <1>1, <1>3, <3>2, PathType DEF Start, Solo, ToolRuns, Started
        <4>2. PathOf(p)' = PathOf(p)
          BY <4>1, StepGlobals DEF PathOf, Step, ReadBaseName, ReadBaseLsn, Launch,
             ToolOpensCheckpoint, ToolWritesCheckpoint, ToolSucceeds, ToolFails,
             ReadCheckpoint, Insert, Crash
        <4>3. files'[PathOf(p)] = files[PathOf(p)]
          BY <2>3, <4>1, FilesStep
        <4> QED
          BY <1>1, <1>3, <3>1, <4>2, <4>3 DEF SoloFile
      <3>3. CASE ~(ToolRuns(p) \/ tool[p].state = "ok")
        BY <1>3, <3>1, <3>3 DEF SoloFile
      <3> QED
        BY <3>2, <3>3
    <2> QED
      BY <2>1, <2>2, <2>3
  <1> QED
    BY <1>2, <1>3

(* The row an invocation has inserted stays what its META is.              *)
LEMMA RowKeptStep ==
    ASSUME TypeInv, SoloInv, NEW p \in Invocation, Step(p), NEW q \in Invocation
    PROVE  RowKept(q)'
  <1>1. RowKept(q)
    BY DEF SoloInv
  <1>2. CASE q # p
    BY <1>1, <1>2, StepFrame, RowsKept DEF RowKept
  <1>3. CASE q = p /\ Insert(p)
    <2>1. /\ pc[p] = "insert" /\ pc'[p] = "done" /\ meta' = meta
          /\ meta[p] \in Row /\ rows \in Seq(Row)
      BY <1>3 DEF Insert, Goto, TypeInv, TypeOK, Started
    <2>2. hist[p].row = 0
      BY <1>1, <1>3, <2>1 DEF RowKept
    <2>3. CASE hist' = hist
      BY <1>3, <2>2, <2>3 DEF RowKept
    <2>4. CASE rows' = Append(rows, meta[p]) /\ hist'[p].row = Len(rows) + 1
      <3>1. /\ Len(rows) + 1 \in 1 .. Len(rows')
            /\ rows'[Len(rows) + 1] = meta[p]
        BY <2>1, <2>4
      <3> QED
        BY <1>3, <2>1, <2>4, <3>1 DEF RowKept
    <2> QED
      <3>1. CASE UNCHANGED <<rows, hist>>
        BY <2>3, <3>1
      <3>2. CASE hist' = [hist EXCEPT ![p].row = Len(rows) + 1]
                 /\ rows' = Append(rows, meta[p])
        <4>1. hist'[p].row = Len(rows) + 1
          BY <3>2 DEF TypeInv, TypeOK, History
        <4> QED
          BY <2>4, <3>2, <4>1
      <3> QED
        BY <1>3, <3>1, <3>2 DEF Insert
  <1>4. CASE q = p /\ ~Insert(p)
    <2>1. hist[p].row = 0
      BY <1>1, <1>4, StepPc DEF RowKept
    <2>2. hist'[p].row = hist[p].row
      <3>1. CASE ReadBaseName(p)
        BY <3>1 DEF ReadBaseName, TypeInv, TypeOK, History
      <3>2. CASE ReadBaseLsn(p)
        BY <3>2 DEF ReadBaseLsn, TypeInv, TypeOK, History
      <3>3. CASE ~ReadBaseName(p) /\ ~ReadBaseLsn(p)
        BY <1>4, <3>3 DEF Step, Start, Launch, ToolOpensCheckpoint,
           ToolWritesCheckpoint, ToolSucceeds, ToolFails, ReadCheckpoint, Crash
      <3> QED
        BY <3>1, <3>2, <3>3
    <2> QED
      BY <1>4, <2>1, <2>2 DEF RowKept
  <1> QED
    BY <1>2, <1>3, <1>4

(* The invariant of the backups that run alone is inductive.               *)
LEMMA SoloInvNext == TypeInv /\ BaseInv /\ SoloInv /\ [Next]_vars => SoloInv'
  <1> SUFFICES ASSUME TypeInv, BaseInv, SoloInv, [Next]_vars PROVE SoloInv'
    OBVIOUS
  <1>1. ASSUME NEW p \in Invocation, Step(p) PROVE SoloInv'
    <2> SUFFICES ASSUME NEW q \in Invocation
                 PROVE  Solo(q)' /\ SoloFile(q)' /\ RowKept(q)'
      BY DEF SoloInv
    <2>1. Solo(q)'
      BY <1>1, SoloSelf, SoloOthers
    <2> QED
      BY <1>1, <2>1, SoloFileStep, RowKeptStep
  <1>2. CASE UNCHANGED <<table, rows, ckpt, files, pc, cmd, name, base, meta,
                         tool, alone, hist>>
    BY <1>2 DEF SoloInv, Solo, SoloFile, RowKept, Described, CheckpointOf,
                PathOf, InTool, ToolRuns
  <1> QED
    BY <1>1, <1>2, OtherSteps

(* The row of a backup that ran alone describes its own file.              *)
THEOREM SoloBackupsAreAccurate == Spec => []SoloBackupIsRecordedAccurately
  <1>1. SoloInv => SoloBackupIsRecordedAccurately
    <2> SUFFICES ASSUME SoloInv, NEW p \in Invocation, SoloBackup(p)
                 PROVE  /\ Described(p, RowOf(p))
                        /\ files[PathOf(p)].by = p => files[PathOf(p)].state = "complete"
      BY DEF SoloBackupIsRecordedAccurately, Described
    <2>1. Solo(p) /\ SoloFile(p) /\ RowKept(p)
      BY DEF SoloInv
    <2>2. RowOf(p) = meta[p] /\ pc[p] = "done"
      BY <2>1 DEF RowKept, RowOf, SoloBackup, Recorded
    <2> QED
      BY <2>1, <2>2 DEF Solo, SoloFile, SoloBackup
  <1> QED
    BY <1>1, TypeInvInit, TypeInvNext, BaseInvInit, BaseInvNext, SoloInvInit,
       SoloInvNext, PTL DEF Spec

-----------------------------------------------------------------------------
(* An incremental backup and its base.                                     *)

(* No row has been selected and no file opened at first.                   *)
LEMMA ChainInvInit == Init => ChainInv
  <1> SUFFICES ASSUME Init PROVE ChainInv
    OBVIOUS
  <1>1. ASSUME NEW p \in Invocation PROVE Chain(p)
    <2>1. /\ hist[p].nameRow = 0 /\ hist[p].lsnRow = 0 /\ tool[p].state = "none"
          /\ ~Started(p) /\ ~ToolRuns(p) /\ pc[p] # "launch" /\ Len(rows) = 0
      BY DEF Init, Started, ToolRuns
    <2> QED
      BY <2>1 DEF Chain
  <1>2. ASSUME NEW path \in Path PROVE Owned(path)
    BY DEF Init, Owned
  <1> QED
    BY <1>1, <1>2 DEF ChainInv

(* Once built, the name of a backup and hence its path never change.       *)
LEMMA PathKept ==
    ASSUME TypeInv, NEW p \in Invocation, Step(p), NEW q \in Invocation, Started(q)
    PROVE  Started(q)' /\ PathOf(q)' = PathOf(q)
  <1>1. CASE q # p
    BY <1>1, StepFrame, StepGlobals DEF Started, PathOf
  <1>2. CASE q = p
    <2>1. Started(p)'
      BY StepPc DEF Started
    <2>2. name' = name
      BY <1>2 DEF Started, Step, Start, ReadBaseName, ReadBaseLsn, Launch,
         ToolOpensCheckpoint, ToolWritesCheckpoint, ToolSucceeds, ToolFails,
         ReadCheckpoint, Insert, Crash
    <2> QED
      BY <1>2, <2>1, <2>2, StepGlobals DEF PathOf
  <1> QED
    BY <1>1, <1>2

(* A file is opened only at the path of the invocation that opens it.      *)
LEMMA OwnedStep ==
    ASSUME TypeInv, ChainInv, NEW p \in Invocation, Step(p), NEW path \in Path
    PROVE  Owned(path)'
  <1>1. Owned(path)
    BY DEF ChainInv
  <1>2. CASE files'[path].by = files[path].by
    <2> SUFFICES ASSUME files[path].by # Null PROVE Owned(path)'
      BY <1>2 DEF Owned
    <2>1. files[path].by \in Invocation
      BY DEF TypeInv, TypeOK, FileState
    <2> QED
      BY <1>1, <1>2, <2>1, PathKept DEF Owned
  <1>3. CASE Launch(p) /\ path = PathOf(p) /\ files'[path].by = p
    <2>1. Started(p)
      BY <1>3 DEF Launch, Started
    <2> QED
      BY <1>3, <2>1, PathKept DEF Owned
  <1> QED
    BY <1>2, <1>3, FilesStep

(* Nobody's file gets lost: it can only be opened by another invocation.   *)
LEMMA FileStaysOpened ==
    ASSUME TypeInv, NEW p \in Invocation, Step(p), NEW path \in Path,
           files[path].by # Null
    PROVE  files'[path].by # Null
  BY FilesStep, NullAssumption

(* Row numbers stay row numbers, and their rows stay what they are.        *)
LEMMA RowNumbers ==
    ASSUME TypeInv, NEW p \in Invocation, Step(p), NEW i \in 0 .. Len(rows)
    PROVE  i \in 0 .. Len(rows') /\ (i # 0 => rows'[i] = rows[i])
  BY RowsKept

(* A step of one invocation keeps what ChainInv says of another one.       *)
LEMMA ChainOthers ==
    ASSUME TypeInv, ChainInv, NEW p \in Invocation, Step(p),
           NEW q \in Invocation, q # p
    PROVE  Chain(q)'
  <1>1. Chain(q)
    BY DEF ChainInv
  <1>2. /\ pc'[q] = pc[q] /\ base'[q] = base[q] /\ meta'[q] = meta[q]
        /\ tool'[q] = tool[q] /\ hist'[q] = hist[q] /\ cmd' = cmd
    BY StepFrame, StepGlobals
  <1>3. tool[q].state \in {"running", "ok"} => files'[PathOf(q)'].by # Null
    <2> SUFFICES ASSUME tool[q].state \in {"running", "ok"}
                 PROVE  files'[PathOf(q)'].by # Null
      OBVIOUS
    <2>1. Started(q)
      BY <1>1 DEF Chain, Started
    <2> QED
      BY <1>1, <2>1, PathKept, PathType, FileStaysOpened DEF Chain
  <1>4. /\ hist[q].nameRow \in 0 .. Len(rows')
        /\ hist[q].nameRow # 0 => rows'[hist[q].nameRow] = rows[hist[q].nameRow]
        /\ hist[q].lsnRow \in 0 .. Len(rows')
        /\ hist[q].lsnRow # 0 => rows'[hist[q].lsnRow] = rows[hist[q].lsnRow]
    BY <1>1, RowNumbers DEF Chain
  <1> QED
    BY <1>1, <1>2, <1>3, <1>4 DEF Chain, Started, ToolRuns

(* A step of an invocation keeps what ChainInv says of itself.             *)
LEMMA ChainSelf ==
    ASSUME TypeInv, BaseInv, ChainInv, NEW p \in Invocation, Step(p)
    PROVE  Chain(p)'
  <1> USE DEF TypeInv, TypeOK, Goto, Started
  <1>1. Chain(p)
    BY DEF ChainInv
  <1>2. cmd' = cmd
    BY StepGlobals
  <1>3. CASE Start(p)
    <2>1. /\ pc[p] = "idle" /\ pc'[p] \in {"launch", "readName"}
          /\ UNCHANGED <<rows, files, tool, hist>>
          /\ meta'[p] = NewMeta(cmd[p])
      BY <1>3 DEF Start
    <2>2. hist[p].lsnRow = 0 /\ tool[p].state = "none"
      BY <1>1, <2>1 DEF Chain
    <2>3. hist[p].nameRow # 0 => base'[p] = rows[hist[p].nameRow].name
      BY <1>1, <1>3 DEF Chain, Start
    <2>4. NewMeta(cmd[p]).dir = cmd[p].dir
      BY DEF NewMeta
    <2> QED
      BY <1>1, <1>2, <2>1, <2>2, <2>3, <2>4 DEF Chain, ToolRuns
  <1>4. CASE ReadBaseName(p)
    <2>1. PICK i \in SelectedRow : /\ base'[p] = Fetched(meta[p], i).name
                                  /\ hist'[p] = [hist[p] EXCEPT !.nameRow = i]
      BY <1>4 DEF ReadBaseName
    <2>2. /\ pc[p] = "readName" /\ pc'[p] = "readLsn" /\ meta[p] \in Row
          /\ UNCHANGED <<rows, files, tool>>
      BY <1>4 DEF ReadBaseName, store
    <2>3. hist'[p].nameRow = i /\ hist'[p].lsnRow = hist[p].lsnRow
      BY <2>1 DEF History
    <2>4. i \in 0 .. Len(rows) /\ (i # 0 => base'[p] = rows[i].name)
      BY <2>1, <2>2, SelectedRowIsNat, FetchedFields
    <2>5. hist[p].lsnRow = 0 /\ tool[p].state = "none" /\ cmd[p].kind # "full"
      BY <1>1, <2>2 DEF Chain, BaseInv
    <2> QED
      BY <1>2, <2>2, <2>3, <2>4, <2>5 DEF Chain, ToolRuns
  <1>5. CASE ReadBaseLsn(p)
    <2>1. PICK i \in SelectedRow : /\ meta'[p] = Fetched(meta[p], i)
                                  /\ hist'[p] = [hist[p] EXCEPT !.lsnRow = i]
      BY <1>5 DEF ReadBaseLsn
    <2>2. /\ pc[p] = "readLsn" /\ pc'[p] = "launch" /\ meta[p] \in Row
          /\ UNCHANGED <<rows, files, tool, base>>
      BY <1>5 DEF ReadBaseLsn, store
    <2>3. hist'[p].lsnRow = i /\ hist'[p].nameRow = hist[p].nameRow
      BY <2>1 DEF History
    <2>4. /\ i \in 0 .. Len(rows)
          /\ i # 0 => meta'[p].dir = rows[i].dir /\ meta'[p].to = rows[i].to
      BY <2>1, <2>2, SelectedRowIsNat, FetchedFields
    <2>5. tool[p].state = "none" /\ cmd[p].kind # "full"
      BY <1>1, <2>2 DEF Chain, BaseInv
    <2> QED
      BY <1>1, <1>2, <2>2, <2>3, <2>4, <2>5 DEF Chain, ToolRuns
  <1>6. CASE Launch(p)
    <2>1. /\ pc[p] = "launch" /\ pc'[p] = "backup"
          /\ UNCHANGED <<rows, base, meta, hist>>
          /\ tool'[p] = [state |-> "running", from |-> meta[p].to, to |-> meta[p].to]
      BY <1>6 DEF Launch, store
    <2>2. PathOf(p)' = PathOf(p) /\ PathOf(p) \in Path
      BY <2>1, PathKept, PathType
    <2>3. files'[PathOf(p)].by = p /\ p # Null
      BY <1>6, <2>2, NullAssumption DEF Launch
    <2> QED
      BY <1>1, <1>2, <2>1, <2>2, <2>3 DEF Chain
  <1>7. ASSUME UNCHANGED <<rows, base, hist>>, pc[p] \notin {"idle", "readName", "readLsn"},
               pc'[p] \notin {"idle", "readName", "readLsn", "launch"},
               meta'[p].dir = meta[p].dir, ~Launch(p),
               ToolRuns(p)' => tool'[p].state = tool[p].state
        PROVE  Chain(p)'
    <2>1. /\ tool'[p].from = tool[p].from
          /\ tool'[p].state \in {"running", "ok"} => tool[p].state \in {"running", "ok"}
          /\ ToolRuns(p)' => tool'[p].state = "running"
      <3>1. ToolSucceeds(p) => tool[p].state = "running"
        BY <1>1 DEF Chain, ToolSucceeds, ToolRuns
      <3>2. ToolRuns(p)' => ToolRuns(p)
        BY <1>7, StepPc
      <3> QED
        BY <1>1, <1>7, <3>1, <3>2, ToolStep DEF Chain
    <2>2. tool[p].state \in {"running", "ok"} => files'[PathOf(p)'].by # Null
      <3> SUFFICES ASSUME tool[p].state \in {"running", "ok"}
                   PROVE  files'[PathOf(p)'].by # Null
        OBVIOUS
      <3> QED
        BY <1>1, <1>7, PathKept, PathType, FileStaysOpened DEF Chain
    <2> QED
      BY <1>1, <1>2, <1>7, <2>1, <2>2 DEF Chain
  <1>8. CASE ToolOpensCheckpoint(p)
    <2>1. tool'[p].state = tool[p].state
      BY <1>8 DEF ToolOpensCheckpoint, ToolState
    <2>2. /\ UNCHANGED <<rows, base, hist, meta>>
          /\ pc[p] = "backup" /\ pc'[p] = "checkpoint"
      BY <1>8 DEF ToolOpensCheckpoint, store
    <2>3. ~Launch(p)
      BY <2>2 DEF Launch
    <2> QED
      BY <1>7, <2>1, <2>2, <2>3
  <1>9. CASE ToolWritesCheckpoint(p)
    BY <1>7, <1>9 DEF ToolWritesCheckpoint, Launch, store
  <1>10. CASE ToolSucceeds(p)
    BY <1>7, <1>10 DEF ToolSucceeds, ToolRuns, Launch, store
  <1>11. CASE ToolFails(p)
    <2>1. ~Launch(p)
      <3>1. tool'[p].state = "failed"
        BY <1>11 DEF ToolFails, ToolState
      <3>2. Launch(p) => tool'[p].state = "running"
        BY ToolStep
      <3> QED
        BY <3>1, <3>2
    <2>2. /\ UNCHANGED <<rows, base, hist, meta>>
          /\ pc[p] \notin {"idle", "readName", "readLsn"}
          /\ pc'[p] = "readCheckpoint" /\ ~ToolRuns(p)'
      BY <1>11 DEF ToolFails, ToolRuns, store
    <2> QED
      BY <1>7, <2>1, <2>2
  <1>12. CASE ReadCheckpoint(p)
    <2>1. meta'[p] = Completed(p, WithCheckpoint(meta[p])) /\ meta[p] \in Row
      BY <1>12 DEF ReadCheckpoint
    <2>2. WithCheckpoint(meta[p]) \in Row
      BY <2>1, WithCheckpointType
    <2>3. WithCheckpoint(meta[p]).dir = meta[p].dir
      BY <2>1 DEF WithCheckpoint, Row
    <2>4. meta'[p].dir = meta[p].dir
      BY <2>1, <2>2, <2>3 DEF Completed, Row
    <2>5. /\ UNCHANGED <<rows, base, hist>>
          /\ pc[p] = "readCheckpoint" /\ pc'[p] = "insert"
          /\ ~Launch(p) /\ ~ToolRuns(p)'
      BY <1>12 DEF ReadCheckpoint, Launch, ToolRuns, store
    <2> QED
      BY <1>7, <2>4, <2>5
  <1>13. CASE Insert(p)
    <2>1. /\ pc[p] = "insert" /\ pc'[p] = "done"
          /\ UNCHANGED <<files, base, meta, tool>>
      BY <1>13 DEF Insert
    <2>2. hist'[p].nameRow = hist[p].nameRow /\ hist'[p].lsnRow = hist[p].lsnRow
      BY <1>13 DEF Insert, History
    <2>3. /\ hist[p].nameRow \in 0 .. Len(rows')
          /\ hist[p].nameRow # 0 => rows'[hist[p].nameRow] = rows[hist[p].nameRow]
          /\ hist[p].lsnRow \in 0 .. Len(rows')
          /\ hist[p].lsnRow # 0 => rows'[hist[p].lsnRow] = rows[hist[p].lsnRow]
      BY <1>1, RowNumbers DEF Chain
    <2>4. PathOf(p)' = PathOf(p)
      BY <2>1, PathKept
    <2> QED
      BY <1>1, <1>2, <2>1, <2>2, <2>3, <2>4 DEF Chain, ToolRuns
  <1>14. CASE Crash(p)
    <2>1. CASE pc[p] \in {"readName", "readLsn", "launch"}
      <3>1. tool[p].state = "none" /\ UNCHANGED <<rows, files, base, meta, tool, hist>>
            /\ pc'[p] = "dead"
        BY <1>1, <1>14, <2>1 DEF Chain, Crash, store
      <3> QED
        BY <1>1, <1>2, <2>1, <3>1 DEF Chain, ToolRuns
    <2>2. CASE pc[p] \notin {"readName", "readLsn", "launch"}
      BY <1>7, <1>14, <2>2 DEF Crash, ToolRuns, Launch, store
    <2> QED
      BY <2>1, <2>2
  <1> QED
    BY <1>3, <1>4, <1>5, <1>6, <1>8, <1>9, <1>10, <1>11, <1>12, <1>13, <1>14 DEF Step

(* The invariant of the chains is inductive.                               *)
LEMMA ChainInvNext == TypeInv /\ BaseInv /\ ChainInv /\ [Next]_vars => ChainInv'
  <1> SUFFICES ASSUME TypeInv, BaseInv, ChainInv, [Next]_vars PROVE ChainInv'
    OBVIOUS
  <1>1. ASSUME NEW p \in Invocation, Step(p) PROVE ChainInv'
    <2>1. \A q \in Invocation : Chain(q)'
      BY <1>1, ChainSelf, ChainOthers
    <2>2. \A path \in Path : Owned(path)'
      BY <1>1, OwnedStep
    <2> QED
      BY <2>1, <2>2 DEF ChainInv
  <1>2. CASE UNCHANGED <<table, rows, ckpt, files, pc, cmd, name, base, meta,
                         tool, alone, hist>>
    BY <1>2 DEF ChainInv, Chain, Owned, PathOf, Started, ToolRuns
  <1> QED
    BY <1>1, <1>2, OtherSteps

(* The file at the path of an undisturbed backup with a name of its own is *)
(* its own and whole.                                                      *)
LEMMA UniqueFile ==
    ASSUME TypeInv, SoloInv, ChainInv, NEW p \in Invocation,
           SoloBackup(p), NameIsUnique(p)
    PROVE  files[PathOf(p)] = [state |-> "complete", by |-> p]
  <1>1. Started(p) /\ PathOf(p) \in Path
    BY PathType DEF SoloBackup, Recorded, Started
  <1>2. files[PathOf(p)] \in FileState
    BY <1>1 DEF TypeInv, TypeOK
  <1>3. files[PathOf(p)].by # Null /\ files[PathOf(p)].by \in Invocation
    BY <1>2 DEF ChainInv, Chain, SoloBackup, FileState
  <1>4. name[files[PathOf(p)].by] = name[p]
    BY <1>1, <1>3 DEF ChainInv, Owned, PathOf
  <1>5. files[PathOf(p)].by = p
    BY <1>3, <1>4 DEF NameIsUnique
  <1>6. files[PathOf(p)].state = "complete"
    BY <1>5 DEF SoloInv, SoloFile, SoloBackup
  <1> QED
    BY <1>2, <1>5, <1>6 DEF FileState

(* What the row of an undisturbed incremental backup names, when both its  *)
(* SELECTs returned the row of one undisturbed full backup of the same     *)
(* directory: that one's file and its own.                                 *)
LEMMA ChainPaths ==
    ASSUME TypeInv, BaseInv, SoloInv, ChainInv,
           NEW p \in Invocation, NEW q \in Invocation,
           SoloBackup(p), SoloBackup(q),
           cmd[p].kind = "incremental", cmd[q].kind = "full",
           hist[p].nameRow = hist[q].row, hist[p].lsnRow = hist[q].row,
           cmd[p].dir = cmd[q].dir
    PROVE  /\ RowOf(p).from = RowOf(q).to
           /\ <<RowOf(p).dir, RowOf(p).baseon>> = PathOf(q)
           /\ <<RowOf(p).dir, RowOf(p).name>> = PathOf(p)
  <1>1. /\ pc[p] = "done" /\ RowOf(p) = meta[p] /\ Described(p, meta[p])
        /\ pc[q] = "done" /\ RowOf(q) = meta[q] /\ Described(q, meta[q])
    BY DEF SoloInv, Solo, RowKept, SoloBackup, Recorded, RowOf
  <1>2. hist[p].nameRow # 0 /\ hist[p].lsnRow # 0 /\ tool[p].state = "ok"
    BY DEF SoloBackup, Recorded
  <1>3. base[p] = meta[q].name /\ meta[p].dir = meta[q].dir /\ tool[p].from = meta[q].to
    BY <1>1, <1>2 DEF ChainInv, Chain, RowOf
  <1>4. meta[q].dir = cmd[q].dir
    BY <1>1 DEF ChainInv, Chain, Started
  <1>5. meta[p].baseon = base[p]
    BY <1>1 DEF BaseInv
  <1> QED
    BY <1>1, <1>3, <1>4, <1>5 DEF PathOf, Described

(* An undisturbed incremental backup that read one undisturbed full backup *)
(* of the same directory can be restored from what its row says.           *)
THEOREM ChainsAreSound == Spec => []ChainIsSound
  <1>1. TypeInv /\ BaseInv /\ SoloInv /\ ChainInv => ChainIsSound
    BY ChainPaths, UniqueFile DEF ChainIsSound
  <1> QED
    BY <1>1, TypeInvInit, TypeInvNext, BaseInvInit, BaseInvNext, SoloInvInit,
       SoloInvNext, ChainInvInit, ChainInvNext, PTL DEF Spec
=============================================================================
