--------------------------- MODULE BackupRotation ---------------------------
(***************************************************************************)
(* The first-generation scripts that keep physical backups below           *)
(* /Database/Backup/PhysicalBackup:                                        *)
(*                                                                         *)
(*   DatabaseBackup.sh   a full backup on the first of the month, an       *)
(*                       incremental one on Mondays, as directories;       *)
(*   CompressDbxBak.sh   turns each directory that is not today's into an  *)
(*                       encrypted image and a checksum;                   *)
(*   RemoveDbxBak.sh     removes files older than three days.              *)
(*                                                                         *)
(* cron starts each of them by the clock.  They share nothing but the      *)
(* directory, take no lock, and do not know whether another one, or the    *)
(* last one of their own kind, is still at work.  Each reads the date once,*)
(* when it starts.                                                         *)
(***************************************************************************)
EXTENDS Naturals, Sequences, FiniteSets

CONSTANTS
    Run,         \* runs of DatabaseBackup.sh; also the backup each one makes,
                 \*   since innobackupex names it after the time
    Compressor,  \* runs of CompressDbxBak.sh that may be at work at once
    Calendar,    \* the days looked at: a bound of the model
    FullDay,     \* the days on which date +%d says 01
    Monday,      \* the days on which date +%u says 1
    Faults,      \* what may go wrong: a subset of Fault
    MaxFaults,   \* how often something does: a bound of the model
    None         \* no backup; "N" in the register

Fault == {"tool", "sql", "dd", "pipe", "crash"}

ASSUME RunAssumption      == IsFiniteSet(Run)
ASSUME NoneAssumption     == None \notin Run
ASSUME CalendarAssumption == Calendar \subseteq Nat \ {0} /\ IsFiniteSet(Calendar)
ASSUME FaultAssumption    == Faults \subseteq Fault /\ MaxFaults \in Nat

VARIABLES
    day,      \* today; 0 before the first day of the calendar
    dir,      \* a backup's directory: "none", "open" (innobackupex writes to
              \*   it), "whole", "torn" (some of its files are missing,
              \*   which innobackupex need not notice)
    ctime,    \* the day of its last change (stat -c %z), 0 without one
    img,      \* the image: "none", "short", "whole"
    mtime,    \* the day it was last written to, 0 without one
    register, \* the register of backups, oldest first: <<name, base>>
    pos,      \* in which order the backups were finished (0: not yet), which
              \*   is the order of their binary log positions
    logs,     \* the binary logs begin where this backup ends
    bpc,      \* where each run of DatabaseBackup.sh is
    rdir,     \* FULBKBD: did the reader name a directory
    rname,    \* FULBKDIR: the base it named
    cpc,      \* where each run of CompressDbxBak.sh is
    cday,     \* TIMED, its idea of today
    todo,     \* the rest of the loop's list
    cur,      \* $baks
    cok,      \* what dd has written so far is what a whole directory holds
    faults,   \* how often something went wrong
    begun,    \* history: the day the backup was begun, and the age of its
              \*   oldest file
    reasons   \* history: what happened to the backup that may have cost it

tree      == <<dir, ctime, img, mtime>>
catalog   == <<register, logs>>
backup    == <<bpc, rdir, rname, pos, begun>>
compress  == <<cpc, cday, todo, cur, cok>>
vars      == <<day, tree, catalog, backup, compress, faults, reasons>>

Happens(what) == what \in Faults /\ faults < MaxFaults /\ faults' = faults + 1

Set(f, x, v) == f' = [f EXCEPT ![x] = v]
Because(b, why) == reasons' = [reasons EXCEPT ![b] = @ \cup {why}]

(* A run that ends early: its variables are gone.                          *)
Fails(r) == Set(bpc, r, "failed") /\ Set(rdir, r, FALSE) /\ Set(rname, r, None)

Finished(b)   == pos[b] # 0
Restorable(b) == Finished(b) /\ (dir[b] = "whole" \/ img[b] = "whole")

(* -mtime +3                                                               *)
Old(t) == day > t + 3

Fulls == {i \in 1 .. Len(register) : register[i][2] = None}

(* read_metadata: the newest full backup that was registered.              *)
NewestFull == IF Fulls = {} THEN None
              ELSE register[CHOOSE i \in Fulls : \A j \in Fulls : j <= i][1]

-----------------------------------------------------------------------------
(* DatabaseBackup.sh.                                                      *)

MakeDirectory(r) ==
    /\ Set(dir, r, "open") /\ Set(ctime, r, day) /\ Set(begun, r, day)
    /\ UNCHANGED <<img, mtime>>

StartFull(r) ==
    /\ bpc[r] = "idle"
    /\ day \in FullDay
    /\ MakeDirectory(r)
    /\ Set(bpc, r, "full")
    /\ UNCHANGED <<day, catalog, rdir, rname, pos, compress, faults, reasons>>

StartIncremental(r) ==
    /\ bpc[r] = "idle"
    /\ day \in Monday \ FullDay
    /\ Set(bpc, r, "read")
    /\ UNCHANGED <<day, tree, catalog, rdir, rname, pos, begun, compress, faults, reasons>>

(* The reader is asked twice; the directory is the same in all rows.  When *)
(* it fails, awk ends the pipe well, and the answer is empty.              *)
ReadDirectory(r) ==
    /\ bpc[r] = "read"
    /\ \/ Set(rdir, r, NewestFull # None) /\ UNCHANGED faults
       \/ Set(rdir, r, FALSE) /\ Happens("sql")
    /\ Set(bpc, r, "readname")
    /\ UNCHANGED <<day, tree, catalog, rname, pos, begun, compress, reasons>>

ReadName(r) ==
    /\ bpc[r] = "readname"
    /\ \/ Set(rname, r, NewestFull) /\ UNCHANGED faults
       \/ Set(rname, r, None) /\ Happens("sql")
    /\ Set(bpc, r, "launch")
    /\ UNCHANGED <<day, tree, catalog, rdir, pos, begun, compress, reasons>>

(* Defect: innobackupex is run without the base when there is none.        *)
LaunchAnyway(r) ==
    /\ bpc[r] = "launch"
    /\ MakeDirectory(r)
    /\ Set(bpc, r, "incremental")
    /\ UNCHANGED <<day, catalog, rdir, rname, pos, compress, faults, reasons>>

(* `[ -n $FULBKDIR ]` is true of an empty name too.  innobackupex itself   *)
(* refuses a base without xtrabackup_checkpoints, which /NAME and all of   *)
(* PhysicalBackup/ are; set -e then ends the run.                          *)
Launch(r) ==
    /\ bpc[r] = "launch"
    /\ rdir[r] /\ rname[r] # None /\ dir[rname[r]] \in {"whole", "torn"}
    /\ MakeDirectory(r)
    /\ Set(bpc, r, "incremental")
    /\ UNCHANGED <<day, catalog, rdir, rname, pos, compress, faults, reasons>>

BaseRefused(r) ==
    /\ bpc[r] = "launch"
    /\ rdir[r] /\ rname[r] # None => dir[rname[r]] # "whole"
    /\ Fails(r)
    /\ UNCHANGED <<day, tree, catalog, pos, begun, compress, faults, reasons>>

(* innobackupex creates another file in its directory.                     *)
ToolWrites(r) ==
    /\ bpc[r] \in {"full", "incremental"}
    /\ dir[r] \in {"open", "torn"} /\ ctime[r] # day
    /\ Set(ctime, r, day)
    /\ UNCHANGED <<day, dir, img, mtime, catalog, backup, compress, faults, reasons>>

(* Files that went missing meanwhile are not missed.                       *)
ToolSucceeds(r) ==
    /\ bpc[r] \in {"full", "incremental"}
    /\ dir[r] \in {"open", "torn"}
    /\ Set(dir, r, IF dir[r] = "open" THEN "whole" ELSE "torn") /\ Set(ctime, r, day)
    /\ Set(pos, r, 1 + Cardinality({b \in Run : Finished(b)}))
    /\ Set(bpc, r, IF bpc[r] = "full" THEN "purge" ELSE "register")
    /\ UNCHANGED <<day, img, mtime, catalog, rdir, rname, begun, compress, faults, reasons>>

(* It may also fail when its directory or some of it has been removed      *)
(* under its hands.                                                        *)
ToolFails(r) ==
    /\ bpc[r] \in {"full", "incremental"}
    /\ \/ dir[r] # "open" /\ UNCHANGED faults
       \/ Happens("tool")
    /\ Set(dir, r, IF dir[r] = "open" THEN "torn" ELSE dir[r])
    /\ Fails(r)
    /\ UNCHANGED <<day, ctime, img, mtime, catalog, pos, begun, compress, reasons>>

(* Defect: the logs are purged when the backup begins.                     *)
PurgeFirst(r) ==
    /\ bpc[r] \in {"full", "purge"}
    /\ logs' = r
    /\ bpc' = bpc
    /\ UNCHANGED <<day, tree, register, rdir, rname, pos, begun, compress, faults, reasons>>

(* PURGE BINARY LOGS TO the file named in xtrabackup_binlog_info; where    *)
(* the logs begin later, in the same file, that changes nothing.           *)
Purge(r) ==
    /\ bpc[r] = "purge"
    /\ dir[r] \in {"whole", "torn"}
    /\ logs' = IF logs = None \/ pos[r] > pos[logs] THEN r ELSE logs
    /\ Set(bpc, r, "register")
    /\ UNCHANGED <<day, tree, register, rdir, rname, pos, begun, compress, faults, reasons>>

(* Without the file the statement names no log, and one that is purged     *)
(* already is not known: errors, too.                                      *)
PurgeFails(r) ==
    /\ bpc[r] = "purge"
    /\ \/ /\ dir[r] # "whole" \/ (logs # None /\ pos[r] < pos[logs])
          /\ UNCHANGED faults
       \/ Happens("sql")
    /\ Fails(r)
    /\ UNCHANGED <<day, tree, catalog, pos, begun, compress, reasons>>

(* Defect: a full backup is sent on to remove its base, too.               *)
RegisterThenRemove(r) ==
    /\ bpc[r] = "register"
    /\ register' = Append(register, <<r, rname[r]>>)
    /\ Set(bpc, r, "remove")
    /\ UNCHANGED <<day, tree, logs, rdir, rname, pos, begun, compress, faults, reasons>>

Register(r) ==
    /\ bpc[r] = "register"
    /\ register' = Append(register, <<r, rname[r]>>)
    /\ Set(bpc, r, IF rname[r] = None THEN "done" ELSE "remove")
    /\ UNCHANGED <<day, tree, logs, rdir, rname, pos, begun, compress, faults, reasons>>

RegisterFails(r) ==
    /\ bpc[r] = "register"
    /\ Happens("sql")
    /\ Fails(r)
    /\ UNCHANGED <<day, tree, catalog, pos, begun, compress, reasons>>

(* rm -rf $FULBKBD/$FULBKDIR, the base of the backup just made.            *)
RemoveBase(r) ==
    /\ bpc[r] = "remove"
    /\ Set(dir, rname[r], "none") /\ Set(ctime, rname[r], 0)
    /\ Because(rname[r], "base removed")
    /\ Set(bpc, r, "done")
    /\ UNCHANGED <<day, img, mtime, catalog, rdir, rname, pos, begun, compress, faults>>

(* The run is killed: between two commands, inside innobackupex, inside    *)
(* rm -rf.                                                                 *)
Killed(r) ==
    /\ bpc[r] \notin {"idle", "done", "failed"} /\ dir[r] # "open"
    /\ Happens("crash")
    /\ Fails(r)
    /\ UNCHANGED <<day, tree, catalog, pos, begun, compress, reasons>>

KilledInTool(r) ==
    /\ bpc[r] \in {"full", "incremental"} /\ dir[r] = "open"
    /\ Happens("crash")
    /\ Fails(r)
    /\ Set(dir, r, "torn")
    /\ UNCHANGED <<day, ctime, img, mtime, catalog, pos, begun, compress, reasons>>

KilledInRemove(r) ==
    /\ bpc[r] = "remove" /\ dir[rname[r]] = "whole"
    /\ Happens("crash")
    /\ Fails(r)
    /\ Set(dir, rname[r], "torn") /\ Set(ctime, rname[r], day)
    /\ Because(rname[r], "base removed")
    /\ UNCHANGED <<day, img, mtime, catalog, pos, begun, compress>>

-----------------------------------------------------------------------------
(* CompressDbxBak.sh.                                                      *)

StartCompress(c) ==
    /\ cpc[c] = "idle"
    /\ day > 0
    /\ Set(cday, c, day)
    /\ Set(todo, c, {b \in Run : dir[b] # "none"})
    /\ Set(cpc, c, "next")
    /\ UNCHANGED <<day, tree, catalog, backup, cur, cok, faults, reasons>>

StopCompress(c) ==
    /\ Set(cpc, c, "idle") /\ Set(cday, c, 0) /\ Set(todo, c, {})
    /\ Set(cur, c, None) /\ Set(cok, c, FALSE)

(* Another run is at this directory.                                       *)
AlsoAt(c, b) == {q \in Compressor \ {c} :
                    cur[q] = b /\ cpc[q] \in {"write", "copied", "removing"}}

Skip(c, b) ==
    /\ cpc[c] = "next"
    /\ b \in todo[c]
    /\ dir[b] = "none" \/ ctime[b] = cday[c]
    /\ Set(todo, c, todo[c] \ {b})
    /\ UNCHANGED <<day, tree, catalog, backup, cpc, cday, cur, cok, faults, reasons>>

(* tar | pigz | openssl | dd of=<b>.img: the file is truncated.  Two at    *)
(* once write over each other.                                             *)
Open(c, b) ==
    /\ cpc[c] = "next"
    /\ b \in todo[c]
    /\ dir[b] # "none" /\ ctime[b] # cday[c]
    /\ Set(todo, c, todo[c] \ {b})
    /\ Set(cur, c, b)
    /\ Set(img, b, "short") /\ Set(mtime, b, day)
    /\ cok' = [q \in Compressor |->
                  IF q = c THEN dir[b] = "whole" /\ AlsoAt(c, b) = {}
                  ELSE cok[q] /\ q \notin AlsoAt(c, b)]
    /\ reasons' = [reasons EXCEPT ![b] = @
          \cup {w \in {"compressed early"} : dir[b] = "open"}
          \cup {w \in {"compressed twice"} : AlsoAt(c, b) # {}}]
    /\ Set(cpc, c, "write")
    /\ UNCHANGED <<day, dir, ctime, catalog, backup, cday, faults>>

(* dd ends well: its status is the one of the pipe.                        *)
Copied(c) ==
    /\ cpc[c] = "write"
    /\ Set(img, cur[c], IF cok[c] /\ dir[cur[c]] = "whole" THEN "whole" ELSE "short")
    /\ Set(mtime, cur[c], day)
    /\ Set(cpc, c, "copied") /\ Set(cok, c, FALSE)
    /\ UNCHANGED <<day, dir, ctime, catalog, backup, cday, todo, cur, faults, reasons>>

(* Another command of the pipe fails; dd does not know.                    *)
PipeFails(c) ==
    /\ cpc[c] = "write"
    /\ Happens("pipe")
    /\ Set(img, cur[c], "short") /\ Set(mtime, cur[c], day)
    /\ Because(cur[c], "pipe failed")
    /\ Set(cpc, c, "copied") /\ Set(cok, c, FALSE)
    /\ UNCHANGED <<day, dir, ctime, catalog, backup, cday, todo, cur>>

(* Defect: the status of dd is not looked at.                              *)
CopyFailsUnnoticed(c) ==
    /\ cpc[c] = "write"
    /\ Happens("dd")
    /\ Set(cpc, c, "copied")
    /\ UNCHANGED <<day, tree, catalog, backup, cday, todo, cur, cok, reasons>>

(* The disk is full: set -e ends the run, the directory stays.             *)
CopyFails(c) ==
    /\ cpc[c] = "write"
    /\ Happens("dd")
    /\ StopCompress(c)
    /\ UNCHANGED <<day, tree, catalog, backup, reasons>>

(* rm -fr $baks, file by file.                                             *)
Remove(c) ==
    /\ cpc[c] = "copied"
    /\ Set(dir, cur[c], IF dir[cur[c]] = "none" THEN "none" ELSE "torn")
    /\ Set(ctime, cur[c], IF dir[cur[c]] = "none" THEN 0 ELSE day)
    /\ Set(cpc, c, "removing")
    /\ UNCHANGED <<day, img, mtime, catalog, backup, cday, todo, cur, cok, faults, reasons>>

Removed(c) ==
    /\ cpc[c] = "removing"
    /\ Set(dir, cur[c], "none") /\ Set(ctime, cur[c], 0)
    /\ Set(cpc, c, "next") /\ Set(cur, c, None) /\ Set(cok, c, FALSE)
    /\ UNCHANGED <<day, img, mtime, catalog, backup, cday, todo, faults, reasons>>

EndCompress(c) ==
    /\ cpc[c] = "next" /\ todo[c] = {}
    /\ StopCompress(c)
    /\ UNCHANGED <<day, tree, catalog, backup, faults, reasons>>

KilledCompress(c) ==
    /\ cpc[c] \notin {"idle", "removing"}
    /\ Happens("crash")
    /\ StopCompress(c)
    /\ UNCHANGED <<day, tree, catalog, backup, reasons>>

(* A directory that is left half removed will be compressed again.         *)
KilledRemoving(c) ==
    /\ cpc[c] = "removing"
    /\ Happens("crash")
    /\ StopCompress(c)
    /\ Because(cur[c], "removal interrupted")
    /\ UNCHANGED <<day, tree, catalog, backup>>

-----------------------------------------------------------------------------
(* RemoveDbxBak.sh: find -type f goes into the directories as well.        *)

(* An image that dd is writing to is young.                                *)
ExpireImage(b) ==
    /\ img[b] # "none" /\ Old(mtime[b])
    /\ \A c \in Compressor : cpc[c] = "write" => cur[c] # b
    /\ Set(img, b, "none") /\ Set(mtime, b, 0)
    /\ UNCHANGED <<day, dir, ctime, catalog, backup, compress, faults, reasons>>

(* A file has the age of its last write, whatever goes on in the directory *)
(* and whether or not the backup has been finished.  The directory's own   *)
(* time changes unless the file was in one further down.                   *)
ExpireFiles(b) ==
    /\ dir[b] # "none" /\ Old(begun[b])
    /\ Set(dir, b, "torn")
    /\ Set(ctime, b, day) \/ UNCHANGED ctime
    /\ UNCHANGED <<day, img, mtime, catalog, backup, compress, faults, reasons>>

Tick ==
    /\ day' \in {d \in Calendar : d > day}
    /\ UNCHANGED <<tree, catalog, backup, compress, faults, reasons>>

-----------------------------------------------------------------------------
Init ==
    /\ day = 0
    /\ dir = [b \in Run |-> "none"] /\ ctime = [b \in Run |-> 0]
    /\ img = [b \in Run |-> "none"] /\ mtime = [b \in Run |-> 0]
    /\ register = << >> /\ logs = None
    /\ bpc = [r \in Run |-> "idle"]
    /\ rdir = [r \in Run |-> FALSE] /\ rname = [r \in Run |-> None]
    /\ pos = [b \in Run |-> 0] /\ begun = [b \in Run |-> 0]
    /\ cpc = [c \in Compressor |-> "idle"] /\ cday = [c \in Compressor |-> 0]
    /\ todo = [c \in Compressor |-> {}]
    /\ cur = [c \in Compressor |-> None] /\ cok = [c \in Compressor |-> FALSE]
    /\ faults = 0
    /\ reasons = [b \in Run |-> {}]

DatabaseBackup(r) ==
    \/ StartFull(r) \/ StartIncremental(r) \/ ReadDirectory(r) \/ ReadName(r)
    \/ Launch(r) \/ BaseRefused(r)
    \/ ToolWrites(r) \/ ToolSucceeds(r) \/ ToolFails(r)
    \/ Purge(r) \/ PurgeFails(r) \/ Register(r) \/ RegisterFails(r)
    \/ RemoveBase(r) \/ Killed(r) \/ KilledInTool(r) \/ KilledInRemove(r)

CompressDbxBak(c) ==
    \/ StartCompress(c)
    \/ \E b \in Run : Skip(c, b) \/ Open(c, b)
    \/ Copied(c) \/ PipeFails(c) \/ CopyFails(c) \/ Remove(c) \/ Removed(c)
    \/ EndCompress(c) \/ KilledCompress(c) \/ KilledRemoving(c)

RemoveDbxBak == \E b \in Run : ExpireImage(b) \/ ExpireFiles(b)

Next ==
    \/ \E r \in Run : DatabaseBackup(r)
    \/ \E c \in Compressor : CompressDbxBak(c)
    \/ RemoveDbxBak
    \/ Tick

Spec == Init /\ [][Next]_vars

-----------------------------------------------------------------------------
(* Properties.                                                             *)

Days == Calendar \cup {0}

(* The events the scripts do not survive.                                  *)
Reason == {"base removed", "compressed early", "compressed twice", "pipe failed",
           "removal interrupted"}

(* The types; and what must exist at a point of a script does.             *)
TreeTypes ==
    /\ day \in Days
    /\ dir \in [Run -> {"none", "open", "whole", "torn"}]
    /\ img \in [Run -> {"none", "short", "whole"}]
    /\ ctime \in [Run -> Days] /\ mtime \in [Run -> Days]
    /\ register \in Seq(Run \X (Run \cup {None}))
    /\ logs \in Run \cup {None}
    /\ faults \in 0 .. MaxFaults

BackupTypes ==
    /\ bpc \in [Run -> {"idle", "full", "read", "readname", "launch", "incremental",
                        "purge", "register", "remove", "done", "failed"}]
    /\ rdir \in [Run -> BOOLEAN] /\ rname \in [Run -> Run \cup {None}]
    /\ pos \in [Run -> 0 .. Cardinality(Run)] /\ begun \in [Run -> Days]
    /\ \A r \in Run : bpc[r] = "remove" => rname[r] # None

CompressTypes ==
    /\ cpc \in [Compressor -> {"idle", "next", "write", "copied", "removing"}]
    /\ cday \in [Compressor -> Days]
    /\ todo \in [Compressor -> SUBSET Run]
    /\ cur \in [Compressor -> Run \cup {None}] /\ cok \in [Compressor -> BOOLEAN]
    /\ \A c \in Compressor : cpc[c] \in {"write", "copied", "removing"} => cur[c] # None

TypeOK ==
    /\ TreeTypes /\ BackupTypes /\ CompressTypes
    /\ reasons \in [Run -> SUBSET Reason]

(* Three days have passed since it was begun, which is when its oldest     *)
(* file was written, or something happened to it that the scripts do not   *)
(* survive.                                                                *)
Excused(b) == Finished(b) /\ (Old(begun[b]) \/ reasons[b] # {})

(* Refinement: a backup that was finished can be restored, from its        *)
(* directory or from its image, until three days have passed since it was  *)
(* begun, or one of the five events recorded in `reasons` has happened to  *)
(* it, and what is lost never comes back.  All the rest (a full disk, a    *)
(* failing innobackupex, a run killed anywhere else, expiry beside         *)
(* compression) does no harm to a younger backup; one that takes longer    *)
(* than three days may be finished without its first files                 *)
(* (RemoveDbxBak.sh:12).                                                   *)
Shelf == INSTANCE BackupShelf WITH
            points  <- {b \in Run : Restorable(b)},
            gone    <- {b \in Run : Finished(b) /\ ~Restorable(b)},
            excused <- {b \in Run : Excused(b)}
ShelfSpec == Shelf!Spec

(* The binary logs are purged up to a backup from which the changes since  *)
(* can be replayed, unless it is excused: it was begun more than three     *)
(* days ago, perhaps before it was even finished.  It need not be in the   *)
(* register, when its run ends between lines 45 and 47.                    *)
LogsBeginAtABackup ==
    logs # None => Finished(logs) /\ (Restorable(logs) \/ Excused(logs))

(* rm -rf "$FULBKBD/$FULBKDIR" (line 62) is run with both names set, for a *)
(* full backup that is in the register and was finished first: although    *)
(* the reader is asked twice and `[ -n ]` lets the empty name pass.        *)
OnlyABaseIsRemoved ==
    \A r \in Run : bpc[r] = "remove" =>
        /\ rdir[r]
        /\ \E i \in Fulls : register[i][1] = rname[r]
        /\ 0 < pos[rname[r]] /\ pos[rname[r]] < pos[r]

(* "Database Backup Success!!!" (line 82) is printed for a backup that can *)
(* be restored, with the base it needs.                                    *)
SuccessMeansRestorable ==
    \A r \in Run : bpc[r] = "done" =>
        \/ Excused(r)
        \/ Restorable(r) /\ (rname[r] = None \/ Restorable(rname[r]) \/ Old(begun[rname[r]]))
=============================================================================
