----------------------------- MODULE PdbRestore -----------------------------
(***************************************************************************)
(* The `pdb restore` command beside the backups of PdbBackup.              *)
(*                                                                         *)
(*     pdb restore <id> [from <dir>] into <target>                         *)
(*                                                                         *)
(* reads the row <id> of hisdb and runs, through system() and looking at   *)
(* each exit status but decompress's and rm's,                             *)
(*   - xbcrypt -d -i <file> | xbstream -x -C <target>, whose status is     *)
(*     that of xbstream alone,                                             *)
(*   - innobackupex --decompress (always: the condition in front of it is  *)
(*     the assignment is_compressed = 1),                                  *)
(*   - innobackupex --apply-log --redo-only,                               *)
(* on the backup or, if it is an incremental one, on its base and then     *)
(* once more on itself in <target>/incr, which is removed at the end.  The *)
(* outcome is printed; no exit status tells it.                            *)
(***************************************************************************)
EXTENDS PdbBackup

CONSTANTS
    Restorer,     \* runs of `pdb restore`
    Target        \* the directories they restore into, empty at first

(* What a restore knows of its task: the row's number and type, the        *)
(* directories, and the paths of the backup's file and of its base's.      *)
Job == [id : Nat, from : Dir \cup {Null}, into : Target, type : Type \ {""},
        incr : Path, base : Dir \X (Name \cup {Null})]

ASSUME RestorerAssumption == Null \notin Restorer \cup Target
ASSUME JobAssumption      == Null \notin Job

VARIABLES
    target,   \* what is in <target> and in <target>/incr
    rpc,      \* where each restore is; at the end, what it has printed
    job,      \* its arguments and what it has read from hisdb
    part,     \* is it at the base (or only) backup, or at the incremental one
    unlucky   \* history: the restores one of whose external commands failed
              \*   for no reason of this program's

rvars    == <<target, rpc, job, part, unlucky>>
allVars  == <<vars, rvars>>

Part == {"base", "incr"}

-----------------------------------------------------------------------------
(* The external commands, as functions of the directory they work on.      *)

Empty == [state |-> "empty", of |-> Null, packed |-> FALSE, to |-> 0]

(* Some, but not all, of a backup; nothing can be made of it.              *)
Damaged == [Empty EXCEPT !.state = "damaged"]

Unpacked(q) == [state |-> "extracted", of |-> q, packed |-> cmd[q].compress,
                to |-> tool[q].to]

FileStateAt(path) == IF path \in Path THEN files[path].state ELSE "absent"

(* xbcrypt | xbstream.  Without the file xbcrypt fails, and xbstream finds *)
(* an empty stream and succeeds.  A stream that breaks off may or may not  *)
(* be noticed.  xbstream does not overwrite existing files.                *)
Extracted(path, d) ==
    CASE FileStateAt(path) = "absent"   -> {[ok |-> TRUE, dir |-> d]}
      [] FileStateAt(path) = "complete" ->
            {IF d = Empty THEN [ok |-> TRUE, dir |-> Unpacked(files[path].by)]
                          ELSE [ok |-> FALSE, dir |-> d]}
      [] OTHER ->
            [ok : BOOLEAN, dir : {d, IF d = Empty THEN Damaged ELSE d}]

(* --apply-log accepts a full backup, also one it has prepared before.     *)
Preparable(d) ==
    d.state \in {"extracted", "prepared"} /\ ~d.packed /\ cmd[d.of].kind = "full"

(* --apply-log --incremental-dir wants a prepared full backup that ends    *)
(* where the incremental one starts.                                       *)
Appliable(d, i) ==
    /\ d.state = "prepared" /\ i.state = "extracted" /\ ~i.packed
    /\ cmd[i.of].kind = "incremental"
    /\ tool[i.of].from = d.to

-----------------------------------------------------------------------------
(* The steps of a restore.                                                 *)

Dirs(r)       == target[job[r].into]
File(r)       == IF part[r] = "base" THEN job[r].base ELSE job[r].incr
RGoto(r, l)   == rpc' = [rpc EXCEPT ![r] = l]
Put(r, x, d)  == target' = [target EXCEPT ![job[r].into][x] = d]

(* A command may fail at any time and leave anything behind.               *)
Unlucky(r) ==
    /\ "tool" \in Faults
    /\ Put(r, part[r], Damaged)
    /\ unlucky' = unlucky \cup {r}
    /\ RGoto(r, "failed")
    /\ UNCHANGED <<vars, job, part>>

(* Defect: the type is not checked, main() just goes on.                   *)
NothingIsRefused(type) == FALSE

(* metadata_type is neither full-backuped nor incremental: return(41).     *)
Refused(type) == type = ""

(* Defect: every backup is restored as a full one is.                      *)
AlwaysFull(type) == TRUE

(* strstr(metadata->metadata_type, "full-backuped")                        *)
IsFull(type) == type = "full-backuped"

(* database_backup_is_exists and read_innobackup_content_from_db.  The rows *)
(* they read never change, so that their SELECTs are one step.             *)
ReadContent(r) ==
    /\ rpc[r] = "idle"
    /\ \E id \in 1 .. Len(rows), from \in Dir \cup {Null}, into \in Target :
         LET row == rows[id]
             src == IF from = Null THEN row.dir ELSE from
             own == <<src, row.name>>
         IN  IF Refused(row.type)
             THEN RGoto(r, "refused") /\ UNCHANGED job
             ELSE /\ RGoto(r, "extract")
                  /\ job' = [job EXCEPT ![r] =
                        [id   |-> id, from |-> from, into |-> into,
                         type |-> row.type, incr |-> own,
                         base |-> IF row.type = "full-backuped" THEN own
                                  ELSE <<src, row.baseon>>]]
    /\ UNCHANGED <<vars, target, part, unlucky>>

(* There is no such row, or sqlite fails and it looks like that, or like a *)
(* row without a type.                                                     *)
FindNothing(r) ==
    /\ rpc[r] = "idle"
    /\ "sql" \in Faults \/ Len(rows) = 0
    /\ RGoto(r, "refused")
    /\ UNCHANGED <<vars, target, job, part, unlucky>>

(* For an incremental backup the second time, after mkdir <target>/incr.    *)
Extract(r) ==
    /\ rpc[r] = "extract"
    /\ \/ /\ \E result \in Extracted(File(r), Dirs(r)[part[r]]) :
                /\ Put(r, part[r], result.dir)
                /\ RGoto(r, IF result.ok THEN "decompress" ELSE "failed")
          /\ UNCHANGED <<vars, job, part, unlucky>>
       \/ Unlucky(r)

(* Defect: decompressing only what META says is compressed.  No SELECT of  *)
(* a restore reads is_compressed, META is zeroed, and so nothing would be. *)
DecompressIfCompressed(r) ==
    /\ rpc[r] = "decompress"
    /\ RGoto(r, "apply")
    /\ UNCHANGED <<vars, target, job, part, unlucky>>

Decompress(r) ==
    /\ rpc[r] = "decompress"
    /\ \/ Put(r, part[r], [Dirs(r)[part[r]] EXCEPT !.packed = FALSE])
          /\ UNCHANGED unlucky
       \/ "tool" \in Faults /\ unlucky' = unlucky \cup {r} /\ UNCHANGED target
    /\ RGoto(r, "apply")
    /\ UNCHANGED <<vars, job, part>>

ApplyBase(r) ==
    /\ rpc[r] = "apply" /\ part[r] = "base"
    /\ \/ /\ Preparable(Dirs(r).base)
          /\ Put(r, "base", [Dirs(r).base EXCEPT !.state = "prepared"])
          /\ IF IsFull(job[r].type)
             THEN RGoto(r, "success") /\ UNCHANGED part
             ELSE RGoto(r, "extract") /\ part' = [part EXCEPT ![r] = "incr"]
          /\ UNCHANGED <<vars, job, unlucky>>
       \/ /\ ~Preparable(Dirs(r).base)
          /\ RGoto(r, "failed")
          /\ UNCHANGED <<vars, target, job, part, unlucky>>
       \/ Unlucky(r)

ApplyIncrement(r) ==
    /\ rpc[r] = "apply" /\ part[r] = "incr"
    /\ \/ /\ Appliable(Dirs(r).base, Dirs(r).incr)
          /\ Put(r, "base", [Dirs(r).base EXCEPT !.to = Dirs(r).incr.to])
          /\ RGoto(r, "remove")
          /\ UNCHANGED <<vars, job, part, unlucky>>
       \/ /\ ~Appliable(Dirs(r).base, Dirs(r).incr)
          /\ RGoto(r, "failed")
          /\ UNCHANGED <<vars, target, job, part, unlucky>>
       \/ Unlucky(r)

(* rm -fr <target>/incr                                                    *)
RemoveIncrement(r) ==
    /\ rpc[r] = "remove"
    /\ Put(r, "incr", Empty)
    /\ RGoto(r, "success")
    /\ UNCHANGED <<vars, job, part, unlucky>>

RInit ==
    /\ Init
    /\ target = [t \in Target |-> [x \in Part |-> Empty]]
    /\ rpc = [r \in Restorer |-> "idle"]
    /\ job = [r \in Restorer |-> Null]
    /\ part = [r \in Restorer |-> "base"]
    /\ unlucky = {}

RStep(r) ==
    \/ ReadContent(r) \/ FindNothing(r) \/ Extract(r) \/ Decompress(r)
    \/ ApplyBase(r) \/ ApplyIncrement(r) \/ RemoveIncrement(r)

RNext == (Next /\ UNCHANGED rvars) \/ \E r \in Restorer : RStep(r)

RSpec == RInit /\ [][RNext]_allVars

-----------------------------------------------------------------------------
(* Properties.                                                             *)

Directory == [state : {"empty", "damaged", "extracted", "prepared"},
              of : Invocation \cup {Null}, packed : BOOLEAN, to : Lsn]

(* A restore has a job from the moment it has read its row.                *)
RTypeOK ==
    /\ target \in [Target -> [Part -> Directory]]
    /\ rpc \in [Restorer -> {"idle", "refused", "extract", "decompress", "apply",
                             "remove", "success", "failed"}]
    /\ part \in [Restorer -> Part]
    /\ unlucky \subseteq Restorer
    /\ \A r \in Restorer :
          rpc[r] \notin {"idle", "refused"} =>
              job[r] \in Job /\ job[r].id \in 1 .. Len(rows)

(* Nobody else has ever restored into r's target.                          *)
SoleUser(r) ==
    \A s \in Restorer \ {r} : job[s] # Null => job[s].into # job[r].into

(* r restores what the undisturbed backup p has recorded.                  *)
Restores(r, p) ==
    /\ job[r] # Null /\ SoleUser(r)
    /\ SoloBackup(p) /\ NameIsUnique(p) /\ hist[p].row = job[r].id

(* A restore that prints success has restored, into a directory of its     *)
(* own, the database as the row describes it: the base is the full backup  *)
(* the row names, the log has been applied up to the row's to_lsn, and     *)
(* nothing of the incremental backup is left over.  However many backups   *)
(* run meanwhile, wherever the files have been said to be, whichever       *)
(* commands fail.                                                          *)
SuccessIsFaithful ==
    \A r \in Restorer, p \in Invocation :
        rpc[r] = "success" /\ Restores(r, p) =>
            /\ Dirs(r).base.state = "prepared" /\ ~Dirs(r).base.packed
            /\ Dirs(r).base.to = RowOf(p).to
            /\ name[Dirs(r).base.of] = IF cmd[p].kind = "full" THEN RowOf(p).name
                                       ELSE RowOf(p).baseon
            /\ Dirs(r).incr = Empty

(* Conversely a restore of a full backup that nothing disturbed, or of an  *)
(* incremental one made from it as ChainIsSound describes it, fails only   *)
(* if one of the external commands does.                                   *)
SoundBackupsRestore ==
    \A r \in Restorer, p \in Invocation :
        /\ Restores(r, p) /\ job[r].from = Null
        /\ \/ cmd[p].kind = "full"
           \/ \E q \in Invocation :
                 /\ SoloBackup(q) /\ NameIsUnique(q) /\ cmd[q].kind = "full"
                 /\ hist[p].nameRow = hist[q].row /\ hist[p].lsnRow = hist[q].row
                 /\ cmd[p].dir = cmd[q].dir
        /\ rpc[r] = "failed"
      => r \in unlucky

-----------------------------------------------------------------------------
(* What a comment says and the code does not do (see README).              *)

(* pdb_restore.c:58: "if it is a full backup, decrypt, decompress and      *)
(* restore it".  So when a restore of the full backup p prints success,    *)
(* what is in its target should be p.                                      *)
SuccessIsThisBackup ==
    \A r \in Restorer, p \in Invocation :
        /\ rpc[r] = "success" /\ cmd[p].kind = "full"
        /\ SoloBackup(p) /\ NameIsUnique(p) /\ hist[p].row = job[r].id
      => Dirs(r).base.of = p
=============================================================================
