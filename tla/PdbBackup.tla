------------------------------ MODULE PdbBackup ------------------------------
(***************************************************************************)
(* The `pdb backup` command, run by several processes on one machine (cron *)
(* and operators start it independently, nothing locks them out of each    *)
(* other).  An invocation names its backup after the current second, looks *)
(* its base up in hisdb when it is incremental, runs innobackupex through  *)
(* system() with the backup streamed into <dir>/<name>, reads the          *)
(* xtrabackup_checkpoints file that innobackupex leaves in the one         *)
(* extra-lsndir of the configuration, and inserts a row into hisdb.  The   *)
(* code ignores the result of every one of these steps.                    *)
(*                                                                         *)
(* The eight forms of the command (all / one database, full / incremental, *)
(* plain / compress) are one sequence of steps with those three values as  *)
(* parameters.  innobackupex is external: its actions are what the code    *)
(* relies on, in the order in which xtrabackup performs them.              *)
(***************************************************************************)
EXTENDS Naturals, Sequences

CONSTANTS
    Invocation,   \* runs of the program: one process each, never restarted
    Scope,        \* what can be backed up: the whole server, a database
    Dir,          \* the directories backups are written to
    Command,      \* the command lines considered
    Faults,       \* what may go wrong: a subset of {"tool", "sql", "crash"}
    MaxLsn,       \* bound on the server's log sequence number
    MaxClock,     \* bound on the seconds that pass
    Null          \* an empty string of META; also an absent checkpoint file

Kind  == {"full", "incremental"}
Lsn   == 0 .. MaxLsn
Stamp == 0 .. MaxClock

(* <first_name>.<host>.<type><online><compress><encrypt>.<timestamp>.001   *)
Name == [scope : Scope, kind : Kind, compress : BOOLEAN, stamp : Stamp]
Path == Dir \X Name

(* pdb backup {all | db <name>} {full | incremental} online [compress] to  *)
(* <dir>: the forms that run a backup.                                     *)
Form == [scope : Scope, kind : Kind, compress : BOOLEAN, dir : Dir]

(* backup_type in xtrabackup_checkpoints, metadata_type in hisdb; "" is    *)
(* the zeroed META.                                                        *)
Type == {"", "full-backuped", "incremental"}

(* A row of t_xtra_backup_metadata.  is_deleted is left out: no statement  *)
(* of the program ever sets it.                                            *)
Row == [type : Type, compressed : BOOLEAN, from : Lsn, to : Lsn,
        dir : Dir, name : Name, baseon : Name \cup {Null}]

ASSUME NullAssumption    == Null \notin Invocation \cup Name \cup Dir
ASSUME CommandAssumption == Command \subseteq Form
ASSUME BoundAssumption   == MaxLsn \in Nat /\ MaxClock \in Nat
ASSUME FaultAssumption   == Faults \subseteq {"tool", "sql", "crash"}

VARIABLES
    table,   \* does t_xtra_backup_metadata exist
    rows,    \* its rows, in the order of their id
    ckpt,    \* whose innobackupex wrote xtrabackup_checkpoints; Null if the
             \*   file is absent or has been opened for writing and is empty
    files,   \* the backup files: what state they are in and who opened them
    lsn,     \* the server's log sequence number
    clock,   \* time(), in seconds
    pc,      \* where each invocation is
    cmd,     \* its command line
    name,    \* ibackup_file_name
    base,    \* ibaseon_backup
    meta,    \* META *meta
    tool,    \* its innobackupex: outcome, and the range of the redo log
             \*   [from, to] the backup it writes covers
    alone,   \* history: the invocations during which, from system() to the
             \*   end of read_xtrabackup_checkpoint_file, no other one had an
             \*   innobackupex running
    hist     \* history: the rows its two SELECTs returned and the row it
             \*   inserted (0: none)

store == <<table, rows>>
env   == <<lsn, clock>>
vars  == <<store, ckpt, files, env, pc, cmd, name, base, meta, tool, alone, hist>>

-----------------------------------------------------------------------------
(* The program's helpers.                                                  *)

NameOf(c) == [scope |-> c.scope, kind |-> c.kind, compress |-> c.compress,
              stamp |-> clock]

(* Defect: a form of the command that forgets base_backup_directory.       *)
NewMetaWithoutDir(c) == [type |-> "", compressed |-> FALSE, from |-> 0, to |-> 0,
                         dir |-> Null, name |-> NameOf(c), baseon |-> Null]

(* META as main() zeroes it, with the two fields that are filled in before *)
(* anything is read.                                                       *)
NewMeta(c) == [type |-> "", compressed |-> FALSE, from |-> 0, to |-> 0,
               dir |-> c.dir, name |-> NameOf(c), baseon |-> Null]

(* Defect: the WHERE clause is lost.                                       *)
AnyRows == 1 .. Len(rows)

(* WHERE metadata_type = 'full-backuped' and is_deleted = 0                *)
FullRows == {i \in 1 .. Len(rows) : rows[i].type = "full-backuped"}

(* ORDER BY id DESC LIMIT 1; 0 stands for an answer without a row, which   *)
(* is also what an error of sqlite looks like to the caller.               *)
SelectedRow ==
    LET newest == {i \in FullRows : \A j \in FullRows : j <= i}
    IN  newest \cup {i \in {0} : newest = {} \/ "sql" \in Faults}

(* The callback overwrites every field but is_compressed; it is not called *)
(* when there is no row.                                                   *)
Fetched(m, i) == IF i = 0 THEN m
                 ELSE [rows[i] EXCEPT !.compressed = m.compressed]

(* What xtrabackup_checkpoints says when q's innobackupex wrote it.        *)
CheckpointOf(q) ==
    [type |-> IF cmd[q].kind = "full" THEN "full-backuped" ELSE "incremental",
     from |-> tool[q].from, to |-> tool[q].to]

(* Defects: the two numbers are read in the wrong order; the numbers are   *)
(* not read at all.                                                        *)
SwappedCheckpoint(m) ==
    IF ckpt = Null THEN m
    ELSE [m EXCEPT !.type = CheckpointOf(ckpt).type,
                   !.from = CheckpointOf(ckpt).to,
                   !.to   = CheckpointOf(ckpt).from]
TypeOfCheckpoint(m) ==
    IF ckpt = Null THEN m ELSE [m EXCEPT !.type = CheckpointOf(ckpt).type]

(* read_xtrabackup_checkpoint_file: without a file, or with an empty one,  *)
(* it returns an error nobody looks at and leaves META as it is.           *)
WithCheckpoint(m) ==
    IF ckpt = Null THEN m
    ELSE [m EXCEPT !.type = CheckpointOf(ckpt).type,
                   !.from = CheckpointOf(ckpt).from,
                   !.to   = CheckpointOf(ckpt).to]

(* Defects: an incremental backup keeps its base's name; it writes down    *)
(* its own name as its base's.                                             *)
CompletedWithoutName(p, m) ==
    LET n == [m EXCEPT !.compressed = cmd[p].compress]
    IN  IF cmd[p].kind = "full" THEN n ELSE [n EXCEPT !.baseon = base[p]]
CompletedBasedOnItself(p, m) ==
    LET n == [m EXCEPT !.compressed = cmd[p].compress]
    IN  IF cmd[p].kind = "full" THEN n
        ELSE [n EXCEPT !.name = name[p], !.baseon = name[p]]

(* What the caller sets between reading the checkpoint and the INSERT.  An *)
(* incremental backup's base_backup_directory is not among it.             *)
Completed(p, m) ==
    LET n == [m EXCEPT !.compressed = cmd[p].compress]
    IN  IF cmd[p].kind = "full" THEN n
        ELSE [n EXCEPT !.name = name[p], !.baseon = base[p]]

(* Defect: the incremental backup repeats its base.                        *)
BaseStart(m) == m.from

(* --incremental-lsn.  META is zeroed for a full backup, so that its       *)
(* to_lsn is where a full backup starts as well.                           *)
IncrementalLsn(m) == m.to

PathOf(p) == <<cmd[p].dir, name[p]>>

ToolRuns(p) == pc[p] \in {"backup", "checkpoint", "stream"}
InTool(p)   == ToolRuns(p) \/ pc[p] = "readCheckpoint"

Goto(p, label) == pc' = [pc EXCEPT ![p] = label]

-----------------------------------------------------------------------------
(* The steps of an invocation.                                             *)

(* create_hisdb_objects: a failing CREATE TABLE goes unnoticed.            *)
CreateHisdbObjects ==
    \/ table' = TRUE
    \/ "sql" \in Faults /\ UNCHANGED table

(* main(), and the backup's name, built from the current second.           *)
Start(p) ==
    /\ pc[p] = "idle"
    /\ CreateHisdbObjects
    /\ name' = [name EXCEPT ![p] = NameOf(cmd[p])]
    /\ meta' = [meta EXCEPT ![p] = NewMeta(cmd[p])]
    /\ Goto(p, IF cmd[p].kind = "full" THEN "launch" ELSE "readName")
    /\ UNCHANGED <<rows, ckpt, files, env, cmd, base, tool, alone, hist>>

(* read_full_backup_name_from_db: a SELECT into META, whose name it copies *)
(* to ibaseon_backup.  Without a row that is the invocation's own name.    *)
ReadBaseName(p) ==
    /\ pc[p] = "readName"
    /\ \E i \in SelectedRow :
          /\ meta' = [meta EXCEPT ![p] = Fetched(@, i)]
          /\ base' = [base EXCEPT ![p] = Fetched(meta[p], i).name]
          /\ hist' = [hist EXCEPT ![p].nameRow = i]
    /\ Goto(p, "readLsn")
    /\ UNCHANGED <<store, ckpt, files, env, cmd, name, tool, alone>>

(* xtrabackup_read_metadata_from_db: the same SELECT again, for to_lsn.    *)
ReadBaseLsn(p) ==
    /\ pc[p] = "readLsn"
    /\ \E i \in SelectedRow :
          /\ meta' = [meta EXCEPT ![p] = Fetched(@, i)]
          /\ hist' = [hist EXCEPT ![p].lsnRow = i]
    /\ Goto(p, "launch")
    /\ UNCHANGED <<store, ckpt, files, env, cmd, name, base, tool, alone>>

(* system(): the shell opens <dir>/<name> with O_TRUNC and innobackupex    *)
(* starts.  Two tools that have the same file open write over each other.  *)
Launch(p) ==
    /\ pc[p] = "launch"
    /\ LET running == {q \in Invocation \ {p} : ToolRuns(q)}
           shared  == \E q \in running : PathOf(q) = PathOf(p)
       IN  /\ alone' = {q \in alone : ~InTool(q)}
                           \cup {q \in {p} : running = {}}
           /\ files' = [files EXCEPT ![PathOf(p)] =
                  [state |-> IF shared THEN "mixed" ELSE "partial", by |-> p]]
    /\ tool' = [tool EXCEPT ![p] =
                   [state |-> "running", from |-> IncrementalLsn(meta[p]),
                    to |-> IncrementalLsn(meta[p])]]
    /\ Goto(p, "backup")
    /\ UNCHANGED <<store, ckpt, env, cmd, name, base, meta, hist>>

(* innobackupex has copied the data up to the current LSN and opens        *)
(* <extra-lsndir>/xtrabackup_checkpoints for writing ...                   *)
ToolOpensCheckpoint(p) ==
    /\ pc[p] = "backup"
    /\ tool' = [tool EXCEPT ![p].to = lsn]
    /\ ckpt' = Null
    /\ Goto(p, "checkpoint")
    /\ UNCHANGED <<store, files, env, cmd, name, base, meta, alone, hist>>

(* ... and writes it.                                                      *)
ToolWritesCheckpoint(p) ==
    /\ pc[p] = "checkpoint"
    /\ ckpt' = p
    /\ Goto(p, "stream")
    /\ UNCHANGED <<store, files, env, cmd, name, base, meta, tool, alone, hist>>

(* The stream is closed and innobackupex exits 0.                          *)
ToolSucceeds(p) ==
    /\ pc[p] = "stream"
    /\ tool' = [tool EXCEPT ![p].state = "ok"]
    /\ files' = [files EXCEPT ![PathOf(p)].state =
                                 IF @ = "mixed" THEN "mixed" ELSE "complete"]
    /\ Goto(p, "readCheckpoint")
    /\ UNCHANGED <<store, ckpt, env, cmd, name, base, meta, alone, hist>>

(* The shell cannot open the file, or innobackupex fails at some point.    *)
(* system() returns, and its result is ignored.                            *)
ToolFails(p) ==
    /\ "tool" \in Faults
    /\ pc[p] = "launch" \/ ToolRuns(p)
    /\ tool' = [tool EXCEPT ![p].state = "failed"]
    /\ Goto(p, "readCheckpoint")
    /\ UNCHANGED <<store, ckpt, files, env, cmd, name, base, meta, alone, hist>>

(* read_xtrabackup_checkpoint_file, and the assignments up to the INSERT.  *)
ReadCheckpoint(p) ==
    /\ pc[p] = "readCheckpoint"
    /\ meta' = [meta EXCEPT ![p] = Completed(p, WithCheckpoint(@))]
    /\ Goto(p, "insert")
    /\ UNCHANGED <<store, ckpt, files, env, cmd, name, base, tool, alone, hist>>

(* xtrabackup_write_metadata_into_db: it returns 0 whatever sqlite3_exec   *)
(* returned (no table, a locked or full database).  main() exits with 0.   *)
Insert(p) ==
    /\ pc[p] = "insert"
    /\ \/ /\ table
          /\ rows' = Append(rows, meta[p])
          /\ hist' = [hist EXCEPT ![p].row = Len(rows) + 1]
       \/ /\ ~table \/ "sql" \in Faults
          /\ UNCHANGED <<rows, hist>>
    /\ Goto(p, "done")
    /\ UNCHANGED <<table, ckpt, files, env, cmd, name, base, meta, tool, alone>>

(* The invocation and its innobackupex are killed.                         *)
Crash(p) ==
    /\ "crash" \in Faults
    /\ pc[p] \notin {"idle", "done", "dead"}
    /\ Goto(p, "dead")
    /\ UNCHANGED <<store, ckpt, files, env, cmd, name, base, meta, tool, alone, hist>>

(* The environment: the server commits a change, a second passes.          *)
Write ==
    /\ lsn < MaxLsn
    /\ lsn' = lsn + 1
    /\ UNCHANGED <<store, ckpt, files, clock, pc, cmd, name, base, meta, tool, alone, hist>>

Tick ==
    /\ clock < MaxClock
    /\ clock' = clock + 1
    /\ UNCHANGED <<store, ckpt, files, lsn, pc, cmd, name, base, meta, tool, alone, hist>>

Init ==
    /\ table = FALSE
    /\ rows = << >>
    /\ ckpt = Null
    /\ files = [path \in Path |-> [state |-> "absent", by |-> Null]]
    /\ lsn = 0
    /\ clock = 0
    /\ pc = [p \in Invocation |-> "idle"]
    /\ cmd \in [Invocation -> Command]
    /\ name = [p \in Invocation |-> Null]
    /\ base = [p \in Invocation |-> Null]
    /\ meta = [p \in Invocation |-> Null]
    /\ tool = [p \in Invocation |-> [state |-> "none", from |-> 0, to |-> 0]]
    /\ alone = {}
    /\ hist = [p \in Invocation |-> [nameRow |-> 0, lsnRow |-> 0, row |-> 0]]

Step(p) ==
    \/ Start(p) \/ ReadBaseName(p) \/ ReadBaseLsn(p) \/ Launch(p)
    \/ ToolOpensCheckpoint(p) \/ ToolWritesCheckpoint(p)
    \/ ToolSucceeds(p) \/ ToolFails(p)
    \/ ReadCheckpoint(p) \/ Insert(p) \/ Crash(p)

Next == (\E p \in Invocation : Step(p)) \/ Write \/ Tick

Spec == Init /\ [][Next]_vars

-----------------------------------------------------------------------------
(* Properties.                                                             *)

Label == {"idle", "readName", "readLsn", "launch", "backup", "checkpoint",
          "stream", "readCheckpoint", "insert", "done", "dead"}

FileState == [state : {"absent", "partial", "mixed", "complete"},
              by : Invocation \cup {Null}]
ToolState == [state : {"none", "running", "ok", "failed"}, from : Lsn, to : Lsn]
History   == [nameRow : Nat, lsnRow : Nat, row : Nat]

(* The variables range over their types; in particular a row of hisdb has  *)
(* a directory and a name, although META has neither before Start.         *)
TypeOK ==
    /\ table \in BOOLEAN
    /\ rows \in Seq(Row)
    /\ ckpt \in Invocation \cup {Null}
    /\ files \in [Path -> FileState]
    /\ lsn \in Lsn
    /\ clock \in Stamp
    /\ pc \in [Invocation -> Label]
    /\ cmd \in [Invocation -> Command]
    /\ name \in [Invocation -> Name \cup {Null}]
    /\ base \in [Invocation -> Name \cup {Null}]
    /\ meta \in [Invocation -> Row \cup {Null}]
    /\ tool \in [Invocation -> ToolState]
    /\ alone \subseteq Invocation
    /\ hist \in [Invocation -> History]

(* The log sequence numbers of the table are ranges the server has been    *)
(* through, whichever backup's checkpoint file each row was filled from,   *)
(* whether or not one was read, and whatever the two SELECTs returned; and *)
(* no innobackupex is asked for changes that lie in the future.            *)
LsnsOrdered ==
    /\ \A i \in 1 .. Len(rows) : rows[i].from <= rows[i].to /\ rows[i].to <= lsn
    /\ \A p \in Invocation : tool[p].from <= tool[p].to /\ tool[p].to <= lsn

Recorded(p) == pc[p] = "done" /\ hist[p].row # 0
RowOf(p)    == rows[hist[p].row]

(* p's innobackupex succeeded, no other one ran meanwhile, and hisdb has   *)
(* p's row.                                                                *)
SoloBackup(p) == p \in alone /\ tool[p].state = "ok" /\ Recorded(p)

(* A backup that no other one overlaps is described by its own row: type   *)
(* and range of the redo log are those of the data in its file, whatever   *)
(* was left in xtrabackup_checkpoints and in META before; and its file is  *)
(* whole unless a later backup with the same name truncated it.            *)
SoloBackupIsRecordedAccurately ==
    \A p \in Invocation : SoloBackup(p) =>
        /\ RowOf(p).name = name[p]
        /\ RowOf(p).compressed = cmd[p].compress
        /\ RowOf(p).type = CheckpointOf(p).type
        /\ RowOf(p).from = tool[p].from
        /\ RowOf(p).to = tool[p].to
        /\ files[PathOf(p)].by = p => files[PathOf(p)].state = "complete"

NameIsUnique(p) == \A q \in Invocation \ {p} : name[q] # name[p]

(* `pdb restore` of an incremental backup looks for its base under the     *)
(* incremental's own directory.  If both SELECTs of the incremental backup *)
(* p returned the row of the full backup q, both ran alone, went to the    *)
(* same directory and have names of their own, then what p's row names are *)
(* q's file and p's file, both whole, and p starts where q ends.           *)
ChainIsSound ==
    \A p, q \in Invocation :
        /\ SoloBackup(p) /\ SoloBackup(q)
        /\ cmd[p].kind = "incremental" /\ cmd[q].kind = "full"
        /\ hist[p].nameRow = hist[q].row /\ hist[p].lsnRow = hist[q].row
        /\ cmd[p].dir = cmd[q].dir
        /\ NameIsUnique(p) /\ NameIsUnique(q)
      => /\ RowOf(p).from = RowOf(q).to
         /\ files[<<RowOf(p).dir, RowOf(p).baseon>>] = [state |-> "complete", by |-> q]
         /\ files[<<RowOf(p).dir, RowOf(p).name>>] = [state |-> "complete", by |-> p]

(* hisdb keeps the promise of BackupCatalog, under every fault.            *)
Catalog == INSTANCE BackupCatalog
CatalogSpec == Catalog!Spec

-----------------------------------------------------------------------------
(* What the comments say and the code does not do (see README).            *)

(* pdb_backup.c:15: backup_database returns 0 on success and something     *)
(* else otherwise, and main() exits with it.  This holds if every          *)
(* invocation that ends has its backup and its row.                        *)
ExitZeroMeansBackedUp ==
    \A p \in Invocation : pc[p] = "done" => tool[p].state = "ok" /\ hist[p].row # 0

(* xtrabackup_checkpoint.h:53: base_backup_directory is the path the       *)
(* backup file is stored in.                                               *)
BaseDirectoryHoldsTheBackup ==
    \A p \in Invocation :
        Recorded(p) => <<RowOf(p).dir, RowOf(p).name>> = PathOf(p)

(* xtrabackup_checkpoint.h:57: baseon_backup is the name of the full       *)
(* backup an incremental one was made from, the one whose LSN it started   *)
(* at.  Stated of backups that nothing else disturbs.                      *)
IncrementalStartsAtItsBase ==
    \A p, q \in Invocation :
        /\ SoloBackup(p) /\ SoloBackup(q) /\ NameIsUnique(q)
        /\ cmd[p].kind = "incremental" /\ RowOf(p).baseon = name[q]
        /\ p # q
      => RowOf(p).from = RowOf(q).to
=============================================================================
