# A TLA+ model of imSQL-Utils

imSQL-Utils is `pdb`, a C program that drives Percona's innobackupex and keeps
a catalog of its backups in a sqlite file, and a set of shell scripts for cron.
Nothing in it takes a lock: cron jobs and operators start independent processes
that meet in files. This directory holds TLA+ specifications of that
interplay, the TLC configurations that check them, and TLAPS proofs.

    tlc -workers 2 -config MCPdbBackup_faults.cfg MCPdbBackup.tla
    tlapm PdbBackupProofs.tla

Section 1 is the inventory, 2 the modules, 3 what TLC checks and with which
bounds, 4 what is proved, 5 what is left out, 6 what could come next.

Paths like `pdb_backup.c:205` are below `src/src/` unless they say otherwise.

## 1. The system

| part | state it keeps | operations | who else touches it |
|---|---|---|---|
| `pdb backup` (`pdb_backup.c`) | one META struct and a few strings per process; files `<dir>/<name>` | eight forms: all / one database, full / incremental, plain / compress | every other backup, through hisdb, the extra-lsndir and the backup directory |
| hisdb (`sqlite_ops.c`) | table `t_xtra_backup_metadata` in a sqlite file | create, INSERT, "newest full backup", "row by id" | backup, restore, list |
| checkpoint file (`xtrabackup_checkpoint.c`) | `<extra_lsndir>/xtrabackup_checkpoints`, one per machine | innobackupex overwrites it, `pdb backup` reads it | all backups at once |
| `pdb restore` (`pdb_restore.c`) | `<target>` and `<target>/incr` | xbcrypt, xbstream, --decompress, --apply-log, rm | other restores into that target; backups, which may truncate the file being read |
| `main` (`pdb.c`) | - | dispatch on the first argument, exit status | |
| configuration (`read_config.c`, `support-scripts/post.sh`) | two files in `/etc/sysconfig/pdb` | positional reading, first installation | every command |
| `pdb list`, `pdb shell`, `pdb catch` | none; `catch` sets two server variables | one SELECT, one exec, one SET GLOBAL | |
| first-generation scripts (`support-scripts/*Bak*.sh`, `DatabaseBackup.sh`) | directories, images and checksums below `/Database/Backup` | monthly full and weekly incremental backup, compress, expire, sync to NFS | each other, at night |
| `NfsMount.sh` | the NFS mount | mount with a watchdog, unmount with retries | `SyncDBxBak.sh` |
| `CheckNewUser.sh` | a table of the users already reported | query, mail, query again, insert | the application that adds users |

An invocation of `pdb backup` goes through these steps, and looks at the result
of none of them:

1. `main` creates the table if need be and zeroes META;
2. the backup is named after the current second;
3. incremental only: the newest full backup's row is SELECTed into META, its
   name becomes `baseon_backup`; the same SELECT is run again, for `to_lsn`;
4. `system("innobackupex ... > <dir>/<name>")`; the shell truncates the file;
   innobackupex writes the checkpoint file just before it finishes;
5. the checkpoint file is read into META;
6. META, in part overwritten, is INSERTed; the process exits with status 0.

What makes the parts correct, and what is hard about it:

- **hisdb**: rows are only added, each is a range of the redo log that has been
  written, and the base it names was recorded before. Hard because META is
  filled from three places (main, a row, a file written by whoever wrote it
  last) and any of them may not answer.
- **a backup and its row**: the row says what is in the file. Hard because the
  checkpoint file is shared, because files with the same name are truncated,
  and because everything goes on after a failure.
- **a chain**: an incremental backup starts where its base ends, and both can
  be found from its row. Hard because its base is looked up twice and by
  "newest", and because the directory recorded is the base's.
- **restore**: "success" means that the database the row describes is there.
  Hard because statuses are those of the last command of a pipeline, and since
  files and target directories are shared.
- **the command line**: a mistake is refused, and a status of 0 means that the
  work was asked for. Hard because words are compared by `strstr()`, in either
  direction, and because error codes are larger than a byte.
- **the configuration**: commands read all of it, upgrades keep it, and the key
  a backup was encrypted with stays the machine's. Hard because it is read by
  position with ignored results, while `post.sh` writes and edits it.
- **physical backups on disk** (the scripts): a backup that can be restored is
  not lost before its time, and the binary logs reach back to one. Hard because
  three scripts work on one tree without a lock, tell finished from unfinished
  by a date, and look at the status of `dd` only.
- **the copy to NFS**: what is whole arrives, what is torn does not, and mount
  requests end. Hard because a server may be away, the watchdog kills by
  program name, and `set -e` leaves the script wherever something fails.
- **new users**: each is mailed, and not for ever. Hard because the same
  question is asked three times of a table that changes meanwhile.

## 2. Modules

| module | what it is |
|---|---|
| `BackupCatalog` | abstract specification of hisdb: an append-only history |
| `PdbBackup` | `pdb backup` by any number of processes, with its environment |
| `PdbRestore` | extends `PdbBackup` by processes that run `pdb restore` |
| `PdbArgs` | the dispatch on the arguments, as functions; no state |
| `PdbCommand` | extends `PdbArgs` by processes that run commands, the configuration and `post.sh` |
| `BackupShelf` | abstract specification of the nightly scripts: what may be lost, and that nothing comes back |
| `BackupRotation` | `DatabaseBackup.sh`, `CompressDbxBak.sh`, `RemoveDbxBak.sh` on one directory tree, over days |
| `ShareLock` | abstract specification of the NFS mount: a lock on what is on the share |
| `NfsSync` | `SyncDBxBak.sh` with `NfsMount.sh`, by overlapping runs, and a server that comes and goes |
| `CheckNewUser` | `CheckNewUser.sh`, by overlapping runs |
| `PdbBackupProofs`, `PdbRestoreProofs`, `PdbCommandProofs`, `BackupRotationProofs`, `NfsSyncProofs`, `CheckNewUserProofs` | the theorems about these modules |
| `MCPdbBackup`, `MCPdbRestore`, `MCPdbCommand`, `MCBackupRotation`, `MCNfsSync`, `MCCheckNewUser` | model values, constraints and symmetry for TLC |

Operators whose comment begins with "Defect:" are variants of the definition
that follows them, with the mistake the comment names. No specification uses
them: they are what each property was tried against, to see that it can fail.
Variables marked *history* in the tables are looked at by properties only, never
by a guard.

### PdbBackup

| variable | in the code |
|---|---|
| `table`, `rows` | the table's existence and its rows in the order of `id` |
| `ckpt` | `xtrabackup_checkpoints`, as the process whose innobackupex wrote it |
| `files` | the backup files by `<dir>/<name>`: absent, partial, mixed (two tools wrote to it), complete; and who opened it last |
| `lsn`, `clock` | the server's log sequence number; `time()` |
| `pc`, `cmd`, `name`, `base`, `meta` | per process: program point, arguments, `ibackup_file_name`, `ibaseon_backup`, META |
| `tool` | the process's innobackupex: its outcome and the range of the log its file covers |
| `alone`, `hist` | history |

| action | lines |
|---|---|
| `Start` | `main`, `create_hisdb_objects`, the name, e.g. pdb_backup.c:139-156 |
| `ReadBaseName`, `ReadBaseLsn` | pdb_backup.c:205, 206: the two SELECTs (same lines in the other forms: 333-334, 485-486, 630-631) |
| `Launch` | the shell started by `system()` (160, 212, ...) |
| `ToolOpensCheckpoint`, `ToolWritesCheckpoint`, `ToolSucceeds`, `ToolFails` | innobackupex, external |
| `ReadCheckpoint` | `read_xtrabackup_checkpoint_file` and the assignments behind it (214-217, 494-499) |
| `Insert` | `xtrabackup_write_metadata_into_db` and the exit |
| `Crash`, `Write`, `Tick` | a kill, a commit, a second |

The eight forms differ in three values, which are fields of `Form`.
`is_deleted`, `metadata_last_lsn`, `xtrabackup_compact` and `extra_lsndir` are
left out: the first is never set, nothing reads the others. A database's
contents are the LSN up to which they are known. In the offline forms nothing
is done (pdb_backup.c:124, 392), and they are not commands of this module
(`PdbArgs` has them).

What is assumed of the outside, with what in the code relies on it:
innobackupex writes the checkpoint file after copying and before it exits; the
file's one small write is seen either not at all or whole; a tool that fails
may have got to any of these points. The three parts of `Faults` switch off or
on: a failing tool ("tool"), a failing sqlite statement ("sql"; an error
of a SELECT looks like an empty answer, since neither result is read), a kill
("crash"). A kill takes the process and its innobackupex with it; a Ctrl-C that
stops the tool while `pdb` waits in `system()` is `ToolFails`.

### PdbRestore

`target[t]` holds what `<target>` and `<target>/incr` contain (`of`: whose
backup was unpacked, `to`: up to where the log has been applied, `packed`:
still compressed). `ReadContent` is the lookup of the row; `FindNothing` an
unknown id or a failing SELECT; `Extract`, `Decompress`, `ApplyBase`,
`ApplyIncrement`, `RemoveIncrement` are the `system()` calls in their order,
with `part` telling whether they work on the base or on the incremental
backup. Restores do not lock out backups, hence they interleave with all of
`PdbBackup`. External, and assumed: xbstream finds an empty stream and succeeds
when xbcrypt finds no file; it does not overwrite; --apply-log --redo-only
takes a full backup any number of times, and an incremental one only where it
fits. A restore may stop anywhere, as nothing makes it take its next step; what
it leaves in the target is found by the next one.

### PdbArgs and PdbCommand

`PdbArgs` translates the nested `switch` and `if (strstr(...))` of `main`,
`backup_database`, `restore_database`, `list_backup_history` and
`catch_function` into operators from an argument list to what is done and what
is returned. All that is known of a word is which words it is within (constant
`Within`), since that is all `strstr()` tells: `Abbrev(w, k)` is
`strstr(k, w)`, `Contains(w, k)` is `strstr(w, k)`, and which of the two a form
uses is kept case by case, with the codes of the else branches (`Past` is one
`if` with its else branch). Assumed of `Within`: a word is within itself, the
empty word within every one, and of the 25 keywords only "to" is part of others;
both the instance and the theorems rest on no more. `CommandOf` is
the chain of tests in `main` (pdb.c:130-163), `ExitStatus` what `exit()` makes
of a code.

| variable of `PdbCommand` | in the code |
|---|---|
| `inno`, `db`, `key` | the files of `/etc/sysconfig/pdb`: how many lines are there, `parallel`, `hostname`; who made the key |
| `sockets`, `longer` | `/proc/cpuinfo` and the host name, as far as post.sh:7-20 tells machines apart |
| `step`, `installs` | where post.sh is, how often it was run |
| `pc`, `args`, `conn`, `opts`, `status` | per invocation: program point, arguments, fields of DBP and INNOBAK that were read, exit status |
| `global`, `backups` | the server's variables that `pdb catch` sets; what innobackupex wrote and with which key |
| `installed`, `edited`, `early`; `faults` | history; a bound |

| action | lines |
|---|---|
| `OpenOptions` ... `WriteKey` | post.sh, the three `if [ ! -f ... ]` blocks, each a redirection that makes the file and a write that fills it (the key: 89-93) |
| `AdaptParallel`, `AdaptHostname` | the `sed -i` of post.sh:9 and 15: the file is replaced by a rename, hence all or nothing |
| `Interrupt`, `Edit` | a killed installation; an administrator who changes `parallel` |
| `Main` | `main` up to the dispatch |
| `ReadConnection`, `ReadOptions` | `parse_database_conn_params`, `parse_innobackupex_params` (read_config.c) |
| `Branch` | `backup_database` after the configuration; with `Innobackupex`, which refuses to work without a connection, eight lines of options and a key |
| `Restore`, `Shell`, `Catch` | the other commands |

A main that falls off its end (pdb.c:163) leaves any of the statuses `Garbage`.
What a backup and a restore do afterwards is in the two modules above; `pdb list`
prints and is looked at only for when it does.

### BackupRotation

| variable | in the code |
|---|---|
| `day` | `date`; each script reads it once |
| `dir`, `ctime` | a backup's directory (`open` while innobackupex writes, `whole`, `torn` when files are missing, be it finished or not) and `stat -c %z` of it |
| `img`, `mtime` | `<backup>.img` and its date |
| `register` | the table behind `$REGISTER` and `$READER` |
| `pos`, `logs` | the order in which backups ended, which is that of their binary log positions; the backup up to which logs were purged |
| `bpc`, `rdir`, `rname` | per run of DatabaseBackup.sh: program point, FULBKBD, FULBKDIR |
| `cpc`, `cday`, `todo`, `cur`, `cok` | per run of CompressDbxBak.sh: program point, TIMED, the rest of `ls`, `$baks`, whether what dd got so far is good |
| `begun` | the day a backup was begun, which is the age of its oldest file |
| `reasons`; `faults` | history; a bound |

| action | lines |
|---|---|
| `StartFull`, `StartIncremental` | DatabaseBackup.sh:38, 52 |
| `ReadDirectory`, `ReadName`, `Launch`, `BaseRefused` | 53, 54, 55-56 (the reader is run twice, and when it fails awk hides the status and the answer is empty; `[ -n $FULBKDIR ]` is always true) |
| `ToolWrites`, `ToolSucceeds`, `ToolFails` | innobackupex (39, 56) |
| `Purge`, `PurgeFails` | `delete_old_binlog` (45) |
| `Register`, `RegisterFails`, `RemoveBase` | 47 and 60, 62 |
| `StartCompress`, `Skip`, `EndCompress` | CompressDbxBak.sh:9 and 12, 16-18, the end of the loop |
| `Open`, `Copied`, `PipeFails`, `CopyFails` | 19, from the truncation of the image to the status tested in 20 |
| `Remove`, `Removed` | 25 |
| `ExpireImage`, `ExpireFiles` | RemoveDbxBak.sh:12; a file expires by its own age, in any directory, also in one innobackupex still writes to |
| `Killed`, `KilledInTool`, `KilledInRemove`, `KilledCompress`, `KilledRemoving` | a kill, told apart by what it leaves |
| `Tick` | midnight |

External, and assumed: innobackupex
refuses a base without `xtrabackup_checkpoints` and ends with an error when its
directory is removed under it, but need not notice that files it has finished
with are gone; a pipe's status is its last command's; two `dd` on one image write
over each other; a PURGE to a log that is already purged is an error
(`PurgeFails`), and one to the file the logs begin in changes nothing.
`read_metadata` answers with the newest row whose base is "N". Removal is in no
particular order, so a half removed directory is `torn` whichever files are left.

### NfsSync

| variable | in the code |
|---|---|
| `local`, `remote` | what is below PhysicalBackup and LogicalBackup, and of that on the share |
| `up`, `mounted` | the server answers; the share is mounted on NfsBackup |
| `pc`, `bdir`, `todo`, `missed` | per run: program point, BDIR, the rest of rsync's list, whether a listed file had vanished |
| `watchdog` | the background loops of `KillMount` that have not fired |
| `exposed`; `faults` | history; a bound |

| action | lines |
|---|---|
| `Mount`, `Attach`, `AlreadyMounted`, `MountReturns` | NfsMount.sh:38-41 and SyncDBxBak.sh:50: the request, the kernel's answer, mount's return |
| `Watchdog` | NfsMount.sh:16-34 |
| `Find`, `List`, `Copy`, `PhysicalDone` | SyncDBxBak.sh:16, 21-23 |
| `LogicalDone` | SyncDBxBak.sh:40, 53 |
| `RsyncFails` | SyncDBxBak.sh:19-33, 39-43: at any time (a full share, a source that is not there, no rsync), and after the list if something had vanished; `set -e` at 52, 53 |
| `Unmount`, `UnmountFails` | NfsMount.sh:44, SyncDBxBak.sh:57; the retries at 45-51 are never reached because of `set -e` |
| `Kill`, `ServerGoes`, `ServerComes`, `Create`, `Complete`, `Remove` | the outside |

External, and assumed: the kernel refuses to mount the share twice; a `mount.nfs`
killed after the kernel has attached the share leaves it attached; rsync copies
what is there when its turn comes, waits while the server is away, goes on to the
end of its list when something has vanished and then fails, and for other reasons
may fail anywhere. `Together` says which items may be there at once; it bounds
the instance only, and is every set of items where nothing is to be bounded.

### CheckNewUser

| variable | in the code |
|---|---|
| `registered`, `listed` | `parauser.t_user`, `sysadmin.t_user_list` |
| `mails` | how often each user was in a mail |
| `pc`, `body`, `nusr` | per run: program point, the arguments of `send_mail`, NUSR |
| `late`, `blind`; `faults` | history; a bound |

`Check`, `Compose`, `Send`, `Query`, `Insert`, `End` are CheckNewUser.sh:24,
27 (the query), 27 (the mail), 31, 33 and the end of the loop; `CheckFails`,
`ComposeFails`, `QueryFails` a failing mysql, which looks like an empty answer
(15: `local OUT=` hides the status), `SendFails` a failing mail (`set -e`);
`Crash` a kill; `Register` the application. `InMail` and `InList` are the users
whose line and address survive the `grep -v` of line 15; `Quoted` those whose
address has an apostrophe in it, so that the statement of line 33 is none and
their INSERT fails in every run, without being a fault. An address is taken to
be one word (line 32 splits at white space). `MaxMails` is where the count of a
user's mails stops, above every bound the properties speak of.

## 3. What TLC checks

Passing runs:

| run | instance | properties |
|---|---|---|
| `backup_faults` | 2 invocations; full, incremental, and incremental of one database compressed into a second directory; all faults; 3 LSNs, 2 seconds (1.5 million states) | `TypeOK`, `LsnsOrdered`, `SoloBackupIsRecordedAccurately`, `ChainIsSound`, `CatalogSpec` |
| `backup_three` | 3 invocations, full and incremental, no faults (3.1 million) | `SoloBackupIsRecordedAccurately`, `ChainIsSound` |
| `restore_faults` | 2 invocations (compressed), 1 restore with every choice of row, "from" directory and moment; failing tools and SQL (1.1 million) | `RTypeOK`, `SuccessIsFaithful`, `SoundBackupsRestore` |
| `command_and_configuration` | every documented form with each word exchanged for every other word or with its end cut off, after at most one installation; three forms beside a second invocation, 2 installations, 1 edit, 1 fault; machines with 1, 4 and 80 sockets (2.1 million) | `TypeOK`, `StatusZeroIsExplained`, `SpelledOutWordsAreObeyed`, `BackupsCanBeDecrypted`, `ConfigurationIsComplete`, `UpgradesKeepTheConfiguration` |
| `rotation` | 2 backups, 2 compressions, days 1 (full), 2 (Monday) and 6, at most 2 faults (2.1 million) | `TypeOK`, `LogsBeginAtABackup`, `OnlyABaseIsRemoved`, `ShelfSpec` |
| `nfs_sync` | 2 directories, an image and an export, 2 runs, 1 fault (273,000) | `TypeOK`, `OneRunHoldsTheMount`, `OnlyExposedDirectoriesAreCopied`, `LeftMountedStays`, `ShareLockSpec`, `MountRequestsEnd`, `WholeFilesArrive` |
| `new_user_mail` | 3 users, one with an apostrophe and one whom the mail cannot show, 2 runs, 2 faults (520,000) | `TypeOK`, `OnlyLateUsersAreMissed`, `MailsAreBounded`, `EveryUserIsListed` |

**`pdb`.** `LsnsOrdered`: whatever fails, the rows hold ranges `from <= to <= lsn`,
and no innobackupex is asked for changes from the future. `CatalogSpec`: hisdb
implements `BackupCatalog` (the refinement is the identity on `rows` and
`Null`). `SoloBackupIsRecordedAccurately`: if a backup succeeded, no other
innobackupex ran between its `system()` and its reading of the checkpoint, and
it has a row, the row has its type, range, name and compression, and its file is
whole unless a later backup truncated it; whatever failed *before* and left its
traces. `ChainIsSound`: an incremental backup that saw one full backup in both
SELECTs starts where that one ends and names both files. `SuccessIsFaithful`:
"success" of a restore that has its target for itself means the row's database.
`SoundBackupsRestore`: the converse, for an undisturbed backup or chain. The
condition "no other innobackupex ran meanwhile" is the price of the shared
checkpoint file: without it `SoloBackupIsRecordedAccurately` is false.

**Command and configuration.** `StatusZeroIsExplained`: of the wrong `pdb backup`
lines only one kind exits with 0, because its code is 2816 = 11 * 256
(pdb_backup.c:684); no other code is a multiple of 256.
`SpelledOutWordsAreObeyed`: abbreviations may start a backup nobody meant, but a
word that is spelled out where a form has the scope, the kind, the mode or
`compress` is never acted against. It speaks of places, since elsewhere the same
word may be a database or a directory. `BackupsCanBeDecrypted`: upgrades and interrupted
installations never replace a key that some backup was made with, because a
backup needs a key that is not empty and the file is written only when it is
absent. `ConfigurationIsComplete`: once an installation went through, readers see
complete files, `sed -i` or not. `UpgradesKeepTheConfiguration`: a second run of
post.sh changes nothing, but for a `parallel` that begins with a 4 (4, 40, 412),
which the administrator set or which is half the number of sockets: sed has no
anchor, and each upgrade replaces that digit again. The other exception is a
host name that begins with the template's.

**Rotation.** `ShelfSpec`: a backup that is finished can be restored from its
directory or its image until more than three days have passed since it was
begun, unless one of five things happened to it: its base role (line 62), a compression that began
while innobackupex was still writing, two compressions at once, a command before
`dd` that failed, a removal that was killed half way and whose rest was then
compressed over the image. The exceptions are found by TLC one by one when a
reason is taken out; that a full disk, a failing innobackupex, a kill anywhere
else and expiry beside compression are harmless to a younger backup is what the
run shows. The three days count from the beginning because `find -mtime +3` judges
each file by itself (RemoveDbxBak.sh:12): a backup that takes longer loses its
first files while innobackupex is still at work, is finished without them, and
purges the logs; the property excuses it. Nor are the five reasons prevented:
hazards that are reasons are characterised here, not ruled out.
`LogsBeginAtABackup`: the logs are purged before the backup is registered, yet
only to the position of a finished one that can be restored or is excused in the
same way. It need not be in the register, if the run ends between the two lines. `OnlyABaseIsRemoved`: the `rm -rf` of
line 62, given two answers of the reader, names a registered full backup that
was finished before the run's own.

**NFS.** `OneRunHoldsTheMount`: the kernel's refusal is a lock, and it holds
through watchdogs of other runs, kills and busy unmounts.
`OnlyExposedDirectoriesAreCopied`: a torn directory gets onto the share only
when it was not alone or appeared after `find`. `MountRequestsEnd`: no
mount.nfs waits for ever. `ShareLockSpec`: all of that as a refinement of
`ShareLock`: the lock is taken only when it is free, the share changes only in
the hands of the one holder, who gives the lock back or loses it for ever
(`holders` are the runs past their mount, `lost` is `LeftMounted`, `copies` is
`remote`). `WholeFilesArrive`: with a server that is up from some
time on, an image or an export that is whole gets onto the share, unless it is
removed before or the share is left mounted by a run that ended early (a failing
rsync does that, too); `LeftMountedStays`: which no later step repairs.

**New users.** `OnlyLateUsersAreMissed`: somebody is put on the list without a
mail only after registering between two queries or after a failed query.
`MailsAreBounded`: at most one mail per run at work and one per fault.
`EveryUserIsListed`: everyone the mail can show gets onto the list. Both leave
out the addresses with an apostrophe: those users are new in every run, mailed by
each and never listed (CheckNewUser.sh:33). What is shown is that this does
nobody else any harm, though the loop meets a failing INSERT in every run.

Runs that show a disagreement between the code and what it, or its comments, say:

| run | property | what happens |
|---|---|---|
| `backup_exit_status` | `ExitZeroMeansBackedUp` | innobackupex fails, exit status 0 (`pdb_backup.c:15` promises non-zero) |
| `backup_two_directories` | `BaseDirectoryHoldsTheBackup` | an incremental backup to another directory than its base is recorded in the base's directory (`xtrabackup_checkpoint.h:54`) |
| `backup_two_selects` | `IncrementalStartsAtItsBase` | a full backup recorded between the two SELECTs: the base named is not the one the LSN is from (`xtrabackup_checkpoint.h:58`) |
| `restore_used_target` | `SuccessIsThisBackup` | the file is not there, xbstream succeeds, --apply-log succeeds on what an earlier restore left: "success" for another backup (`pdb_restore.c:58`) |
| `rotation_success` | `SuccessMeansRestorable` | an incremental backup removes the base it needs, then "Database Backup Success!!!" (`DatabaseBackup.sh:62`, `:82`) |

### Bounds

*Backups and restores.* Two invocations give every race between two processes, and
every sequence of one backup after another's failure; the third is needed for a
full backup between the two SELECTs. Two seconds give names that are equal and
names that differ. Three LSNs let a full backup, its increment and a commit
between them all differ; in the restore runs two suffice, since the increment
has then something or nothing to add. A process runs once; a machine's later
backups are other members of `Invocation`.

*Commands.* The words are the 25 keywords, the empty word, a word that is part of
none, and three letters that abbreviate many. The tests look at one word each
and branch on all of them, so that one wrong word reaches every else branch.
`OddCommandsAtRest` keeps the two thousand lists and more apart from the interleavings with
installations, which three plain lists go through: an invocation's path depends
on the files only by how much of them it reads. A second installation is the
first upgrade; sockets 1, 4 and 80 give a half of 0, one of 2 and one in which
sed finds a 4; the edits are 4, 412
(of which sed replaces the 4 and leaves the 12) and 12.

*Rotation.* A full backup and an incremental one from it are the longest chain, and
the two are also two full ones. Day 6 is more than three days after both, and a
backup begun on day 1 or 2 may still be running then. The
constraint `OneOfAKind` looks at two compressions at once while only one backup
has begun: they meet in one directory, and a second backup's directory is to
either just another one. Two faults allow one in a run that cleans up after
another.

*NFS.* Two runs suffice for a watchdog that hits another run's mount and for a
mount that is in the way; two directories for one that is excluded and one that
is not; an image and an export are what `find` does not see, below the two sources.
`Together` keeps the export apart from all but one other item: the two rsyncs of a
run share nothing but the mount. The fault is a kill or a busy unmount; a failing
rsync, vanishing files, an absent server and watchdogs are no faults and not
bounded. *New users.* Two runs overlap in every way; of the three users nothing
hinders one, one has an apostrophe in the address, and one the mail cannot show;
any of them may be late. Mails are counted up to 5, one more than two runs and
two faults allow.

Symmetry is used where all checked formulas are invariants or step properties
(invocations; backups and compressions), never for liveness. `nfs_sync` and
`new_user_mail` check for deadlock, since cron always can start another run; the
others do not, since there everything stops where all processes are done and the
bounds are reached.

### Fairness

None in `PdbBackup`, `PdbRestore`, `PdbCommand` and `BackupRotation`: nothing the
code schedules is waited for by anything else in it, a process may be
killed at any point, and the properties are ones of safety.

`CheckNewUser`: `WF_vars(Proceed(r))`, because cron starts the script again and
again and a started run goes on unless it is killed, which happens finitely often
(`MaxFaults`). Nobody need register.

`NfsSync`: `WF_vars(Proceed(r))` likewise, `WF_vars(Watchdog(r))` because 15
seconds end, and `SF_vars(Attach(r))`: a mount request is taken away by the
watchdogs of other runs time and again, so that weak fairness would not do; a
server that stays up answers one of them in less than 15 seconds. Nothing is
assumed of the server (which `WholeFilesArrive` has as a premise), the
operator or the other scripts.

## 4. What is proved

For every value of the constants, from the assumptions named where the constants
are declared (their types, that `Null` and `None` are no names, that sets of
processes are finite where they are counted):

| module | theorem | statement |
|---|---|---|
| `PdbBackupProofs` | `TypeCorrect` | `Spec => []TypeOK` |
| | `LsnsStayOrdered` | `Spec => []LsnsOrdered` |
| | `HisdbIsACatalog` | `Spec => CatalogSpec` |
| | `SoloBackupsAreAccurate` | `Spec => []SoloBackupIsRecordedAccurately` |
| | `ChainsAreSound` | `Spec => []ChainIsSound` |
| `PdbRestoreProofs` | `BackupsBesideRestores` | `RSpec => CatalogSpec`, and `PdbBackup`'s other safety invariants |
| | `RestoreTypes` | `RSpec => []RTypeOK` |
| | `RestoresAreFaithful` | `RSpec => []SuccessIsFaithful` |
| | `SoundBackupsDoRestore` | `RSpec => []SoundBackupsRestore` |
| `BackupRotationProofs` | `RotationTypes` | `Spec => []TypeOK` |
| | `OnlyABaseGoes` | `Spec => []OnlyABaseIsRemoved` |
| | `LogsBeginAtAFinishedBackup` | `Spec => []LogsBeginAtABackup` |
| | `RotationImplementsShelf` | `Spec => ShelfSpec` |
| `PdbCommandProofs` | `TypeCorrect` | `Spec => []TypeOK` |
| | `StatusZero` | `Spec => []StatusZeroIsExplained` |
| | `Obeyed` | `Spec => []SpelledOutWordsAreObeyed` |
| | `KeyOpensBackups` | `Spec => []BackupsCanBeDecrypted` |
| | `CompleteConfiguration` | `Spec => []ConfigurationIsComplete` |
| | `UpgradesKeep` | `Spec => []UpgradesKeepTheConfiguration` |
| `NfsSyncProofs` | `NfsTypes` | `Spec => []TypeOK` |
| | `MountIsALock` | `Spec => []OneRunHoldsTheMount` |
| | `TornDirectoriesStayLocal` | `Spec => []OnlyExposedDirectoriesAreCopied` |
| | `LeftMountedForEver` | `Spec => LeftMountedStays` |
| | `MountImplementsLock` | `Spec => ShareLockSpec` |
| `CheckNewUserProofs` | `NewUserTypes` | `Spec => []TypeOK` |
| | `NobodyIsMissedSilently` | `Spec => []OnlyLateUsersAreMissed` |
| | `MailsStayBounded` | `Spec => []MailsAreBounded` |

Hardly one of the properties is inductive. The strengthenings were checked with
TLC first.

**PdbBackup** climbs five layers, each inductive given the ones below:

1. `TypeInv`: the types, and that META and the name exist from `Start` on.
2. `LsnInv`: rows, META and tools all hold written ranges. A row is a copy of
   META, META is a copy of a row or of a tool's checkpoint, a tool starts at
   META's `to`: none of the three is invariant without the other two.
3. `BaseInv`: from which row an incremental backup's base comes. It is its own
   name or that of a full backup that is recorded, for ever since rows are only
   added; this and layer 2 make an INSERT a step of `BackupCatalog`.
4. `SoloInv`: while a tool runs alone the checkpoint file can only be its own,
   and afterwards META is what the checkpoint says, and the row what META is.
5. `ChainInv`: a file is only ever opened by those whose path it is; what was
   read from rows is what those rows still say.

`StepFrame`, `StepGlobals` and `RowsKept` say once what a step leaves alone, so
that each layer's preservation is a case split on the step of the one
invocation it is about, and a frame argument for the others.

**PdbRestore** reuses all of that: a restore's step leaves `PdbBackup`'s variables
alone (`RNextIsNext`), so `BackupInv`, the layers above with `FilesInv` (who
opened a file last, and what of it is there), carries over, and so do its theorems
(`BackupsBesideRestores`). On top, `JobInv`:
what a restore has read is what the row says; `UnusedInv`: a target nobody has
begun to use is empty; `ProgressInv`: what a sole user's target holds at each
stage, on the base (`AtBase`), on the increment (`AtIncrement`) and at the end.
That gives `SuccessIsFaithful`. For the converse, `SoundInv` says that as long as
the backup is undisturbed the restore is on its way. "Undisturbed" speaks of the
future of the files, so the proof uses it backwards: what is undisturbed after a
step was so before it (`SoloBefore`, `UndisturbedBefore`).

**PdbCommand**, for any words, command lines, machines, edits and numbers of
installations. `BackupCases` says of a `pdb backup` line, form by form, what may
be done and returned, and which words were found to abbreviate or to contain
which keyword; `ZeroCodes`, that of the codes only 2816 and 0 have eight low bits
that are zero; `AskedIsObeyed`, that a spelled-out word that passed a test is the
keyword tested for, since among keywords nothing but "to" is part of another.
The invariants:

- `TypeInv`: the types, with `HostInv` (post.sh lengthens the host name once a
  run, which bounds it) and `CommandInv` (the program point tells the command);
- `StatusInv` and `MadeInv` carry what `main` found in the words to the exit
  status and to the backup, across the reading of the configuration;
- `KeyInv`: with no key or an empty one there are no backups, and a key is only
  echoed into an empty file. `BackupsCanBeDecrypted` alone is not inductive: it
  says nothing of the state between the redirection and the write;
- `ConfigInv`, under `faults = 0`: what the files hold at each step of post.sh
  (`FilesInv`), that what was read after an installation is complete (`ReadInv`),
  and what the two substitutions may have made of the template (`ParallelInv`,
  `NameInv`); `AdaptedValue` says that the first one yields a number.

**BackupRotation**: the types need `Fresh` (a run makes its directory once and
finishes it once). `PosInv`, `RegInv` and `BaseInv` order the backups and the
register, for the `rm -rf`. For the refinement, `KeepsInv` is the conjunction of
`Fresh`, `Dated` (a backup was begun in the past, what is whole is finished, and no
image is older than its backup), `OneAtATime` (two compressions on one directory
leave a reason), `Kept` and `LogsInv`; `Kept` says that an image in the making
comes from a whole directory (`WritesWhole`), that a directory is being removed
only after its image is whole (`ImageFirst`), that a torn directory was torn by a
removal or is `Settled` (`TornByRemoval`), and that a finished backup is restorable
or excused (`NothingLost`). `Settled` is where expiry enters: files may go
before the backup is finished, when nothing can be excused yet, so that the
invariant has to say of an unfinished one that it is old already or
never will be finished. Ages count from `begun`, which no step changes once it is
set, while `ctime` is renewed by every write. That nothing comes back is `NoReturnStep`.

**NfsSync**: `OneRunHoldsTheMount` is inductive with the types; for the copies,
`ExposedInv` follows a directory through `find`, the list and rsync. For
`ShareLock` every step either leaves holders, mount and share alone (`Quiet`),
or is the end of the holder (`Ends`, after which nobody is left, because there was
one only), the attachment of a free share, or the copy of an item by a holder.
**CheckNewUser**: `MissedInv` says of the users in a run's hands what the property
says of the listed ones; `BoundInv` counts, for a user whose address can be
inserted, the mails sent and the runs that can still send one (`Mailers`), a sum
that no step but a fault raises, and that `MaxMails` never cuts off.

Every invariant, action property and refinement that a passing run checks is
proved. Only model-checked, on the instances of section 3, are the three liveness properties
(`EveryUserIsListed`, `MountRequestsEnd`, `WholeFilesArrive`), since TLAPS reasons
neither about fairness nor about ENABLED.

## 5. Not modelled

- which databases a backup covers: the newest full backup is the base of every
  incremental one, also when it is of one database only (sqlite_ops.c:181). A
  chain is sound in the sense of `ChainIsSound` and may still be incomplete;
- the checksums (CompressDbxBak.sh:26-28), which nothing reads; what mydumper
  writes: a logical export is an item that is whole some time;
- `throttle`, which post.sh and read_config.c treat as `parallel`; the columns
  `pdb list` prints; the help texts;
- memory limits of the C code (fixed buffers): values are taken to fit;
- a partly restored server, and what innobackupex does inside a directory
  beyond "this backup, applied up to there";
- dead code: `get_database_list`, `create_full_backup_directory_and_metadata`;
- `pt-*` and `doc/`: third-party; packaging.

## 6. Plan

What could come next, in this order:

1. The scope of a chain: files that hold one database or all, so that the base
   chosen by sqlite_ops.c:181 can be the wrong kind, and what a restore of it
   leaves out.
2. `NfsSync` and `BackupRotation` on one tree: what compression and expiry remove
   is now any removal to `NfsSync`, and the share is not a point of `BackupShelf`.
3. Longer calendars for `rotation`, with two months, without symmetry reduction by
   the constraint `OneOfAKind`.
