------------------------------ MODULE PdbCommand ------------------------------
(***************************************************************************)
(* The commands of pdb between the command line and their work: the        *)
(* configuration they read, the key they use and the status they leave,    *)
(* while the package is installed, upgraded (its %post scriptlet is        *)
(* post.sh) and its configuration edited.  What a backup does after this   *)
(* is module PdbBackup, what a restore does is PdbRestore.                 *)
(*                                                                         *)
(* The three files of /etc/sysconfig/pdb are modelled by how many of their *)
(* lines are there, as they are read by position, and by the values that   *)
(* post.sh changes; throttle, changed as parallel is, is left out.         *)
(***************************************************************************)
EXTENDS PdbArgs, Integers

CONSTANTS
    Invocation,   \* runs of pdb
    ArgLists,     \* per invocation, the command lines considered
    Machines,     \* how many sockets a machine may have
    Edits,        \* values an administrator may give to parallel
    ShortWrites,  \* how many lines a write to a full disk may leave
    Garbage,      \* what main() may leave in the register of its result when
                  \*   it ends without a return
    MaxInstalls,  \* bound on the runs of post.sh
    MaxFaults     \* bound on what goes wrong

Variable == {"innodb_print_all_deadlocks", "slow_query_log",
             "deadlock_log_path", "slow_query_log_file"}

ASSUME BoundAssumption   == MaxInstalls \in Nat /\ MaxFaults \in Nat
ASSUME ValueAssumption   == Machines \cup Edits \subseteq Nat
ASSUME WriteAssumption   == ShortWrites \subseteq 0 .. 4
ASSUME GarbageAssumption == Garbage \subseteq 0 .. 255
ASSUME ArgsAssumption    == \A p \in Invocation : ArgLists[p] \subseteq Seq(Word)

VARIABLES
    sockets,     \* the machine's sockets
    longer,      \* does its name begin with the name in the template
    inno,        \* the file innobackupex: its lines, parallel, and hostname,
                 \*   0 for the template's, n for n replacements
    db,          \* the file db.properties: its lines; Absent, as inno.lines
    key,         \* the file secure.key: the run of post.sh that made its
                 \*   content, 0 when it is empty; Absent
    step,        \* where post.sh is
    installs,    \* how often it was started
    faults,      \* how much went wrong
    installed,   \* history: one of its runs went through without a fault
    edited,      \* history: the value of the last edit; Absent
    global,      \* the server's variables that pdb catch sets
    pc,          \* where each invocation is
    args,        \* its arguments, which never change
    conn,        \* how many fields of DBP it read
    opts,        \* what it read of INNOBAK
    early,       \* history: it read its configuration before installed
    status,      \* its exit status
    backups      \* what innobackupex wrote: [by, what, key]

files   == <<inno, db, key>>
machine == <<sockets, longer>>
script  == <<step, installs, installed>>
process == <<pc, args, conn, opts, early, status>>
vars    == <<machine, files, script, faults, edited, global, process, backups>>

Absent == -1

-----------------------------------------------------------------------------
(* post.sh                                                                 *)

Half == sockets \div 2

Template == [lines |-> 9, parallel |-> 4, host |-> 0]

Fault == faults < MaxFaults /\ faults' = faults + 1

(* Defect: whatever the value is.                                          *)
AdaptedAlways(n) == Half

(* "parallel = 4" is replaced wherever the file has it: in "parallel = 40" *)
(* and in "parallel = 412" too, of which the 0 and the 12 stay.  The value *)
(* is an int, and one that begins with 4 has nine digits at most.          *)
Scale == {1, 10, 100, 1000, 10000, 100000, 1000000, 10000000, 100000000}

LikeTemplate(n) == \E s \in Scale : n \div s = 4

Adapted(n) ==
    IF LikeTemplate(n)
    THEN LET s == CHOOSE s \in Scale : n \div s = 4 IN Half * s + (n % s)
    ELSE n

(* The template's host name is replaced by the machine's, once more in a   *)
(* file that has it when the machine's begins with the template's.         *)
Renamed(n) == IF n = 0 \/ longer THEN n + 1 ELSE n

Install ==
    /\ step = "idle" /\ installs < MaxInstalls
    /\ step' = "options" /\ installs' = installs + 1
    /\ UNCHANGED <<machine, files, installed, faults, edited, global, process, backups>>

(* Defect: the file is written anew by every installation.                 *)
OpenOptionsAlways ==
    /\ step = "options"
    /\ inno' = [lines |-> 0, parallel |-> 0, host |-> 0] /\ step' = "cat_options"
    /\ UNCHANGED <<machine, db, key, installs, installed, faults, edited, global, process,
                   backups>>

(* [ ! -f innobackupex ]; the redirection makes an empty file.             *)
OpenOptions ==
    /\ step = "options"
    /\ IF inno.lines = Absent
       THEN inno' = [lines |-> 0, parallel |-> 0, host |-> 0] /\ step' = "cat_options"
       ELSE UNCHANGED inno /\ step' = "connection"
    /\ UNCHANGED <<machine, db, key, installs, installed, faults, edited, global, process,
                   backups>>

(* cat: all lines, or, on a full disk, some.                               *)
WriteOptions ==
    /\ step = "cat_options" /\ step' = "connection"
    /\ \/ inno' = Template /\ UNCHANGED faults
       \/ /\ Fault
          /\ \E n \in ShortWrites :
                inno' = [lines |-> n, parallel |-> IF n < 2 THEN 0 ELSE 4, host |-> 0]
    /\ UNCHANGED <<machine, db, key, installs, installed, edited, global, process, backups>>

OpenConnection ==
    /\ step = "connection"
    /\ IF db = Absent THEN db' = 0 /\ step' = "cat_connection"
       ELSE UNCHANGED db /\ step' = "key"
    /\ UNCHANGED <<machine, inno, key, installs, installed, faults, edited, global, process,
                   backups>>

WriteConnection ==
    /\ step = "cat_connection" /\ step' = "key"
    /\ \/ db' = 5 /\ UNCHANGED faults
       \/ Fault /\ db' \in ShortWrites
    /\ UNCHANGED <<machine, inno, key, installs, installed, edited, global, process, backups>>

(* Defect: every installation makes a new key.                             *)
OpenKeyAlways ==
    /\ step = "key" /\ key' = 0 /\ step' = "echo_key"
    /\ UNCHANGED <<machine, inno, db, installs, installed, faults, edited, global, process,
                   backups>>

(* echo -n `openssl rand` >secure.key: the file is made after openssl has  *)
(* ended, well or not.                                                     *)
OpenKey ==
    /\ step = "key"
    /\ IF key = Absent THEN key' = 0 /\ step' = "echo_key"
       ELSE UNCHANGED key /\ step' = "parallel"
    /\ UNCHANGED <<machine, inno, db, installs, installed, faults, edited, global, process,
                   backups>>

WriteKey ==
    /\ step = "echo_key" /\ step' = "parallel"
    /\ \/ key' = installs /\ UNCHANGED faults
       \/ Fault /\ key' = 0
    /\ UNCHANGED <<machine, inno, db, installs, installed, edited, global, process, backups>>

(* sed -i writes a new file and renames it: all of it or nothing happens.  *)
AdaptParallel ==
    /\ step = "parallel" /\ step' = "hostname"
    /\ \/ /\ inno' = IF inno.lines \in 2 .. 9
                     THEN [inno EXCEPT !.parallel = Adapted(@)] ELSE inno
          /\ UNCHANGED faults
       \/ Fault /\ UNCHANGED inno
    /\ UNCHANGED <<machine, db, key, installs, installed, edited, global, process, backups>>

(* The end of post.sh.  A file that an earlier run left short stays so,    *)
(* which is why installed asks for no fault ever.                          *)
AdaptHostname ==
    /\ step = "hostname" /\ step' = "idle"
    /\ \/ /\ inno' = IF inno.lines = 9 THEN [inno EXCEPT !.host = Renamed(@)] ELSE inno
          /\ UNCHANGED faults /\ installed' = (installed \/ faults = 0)
       \/ Fault /\ UNCHANGED <<inno, installed>>
    /\ UNCHANGED <<machine, db, key, installs, edited, global, process, backups>>

(* The installation is killed.                                             *)
Interrupt ==
    /\ step # "idle" /\ step' = "idle" /\ Fault
    /\ UNCHANGED <<machine, files, installs, installed, edited, global, process, backups>>

(* The administrator edits a complete file.                                *)
Edit ==
    /\ inno.lines = 9 /\ edited = Absent
    /\ \E n \in Edits : inno' = [inno EXCEPT !.parallel = n] /\ edited' = n
    /\ UNCHANGED <<machine, db, key, script, faults, global, process, backups>>

-----------------------------------------------------------------------------
(* pdb                                                                     *)

Ends(p, n) ==
    /\ pc' = [pc EXCEPT ![p] = "done"]
    /\ status' = [status EXCEPT ![p] = n]

(* main() up to the dispatch.  Less than one argument ends it with 1; the  *)
(* commands but backup and version fall off its end.                       *)
Main(p) ==
    /\ pc[p] = "start"
    /\ LET a == args[p]
       IN  \/ a = << >> /\ Ends(p, ExitStatus(1))
           \/ a # << >> /\ CommandOf(a) = "version" /\ Ends(p, ExitStatus(0))
           \/ /\ a # << >> /\ CommandOf(a) \in {"list", "help", "none"}
              /\ \E n \in Garbage : Ends(p, n)
           \/ /\ a # << >> /\ CommandOf(a) \in {"backup", "restore", "shell", "catch"}
              /\ pc' = [pc EXCEPT ![p] = "connection"] /\ UNCHANGED status
    /\ UNCHANGED <<machine, files, script, faults, edited, global, args, conn, opts, early,
                   backups>>

(* parse_database_conn_params: fscanf() of one line after the other, up to *)
(* the first that is not there.  Only pdb shell looks at the result.       *)
ReadConnection(p) ==
    /\ pc[p] = "connection"
    /\ conn' = [conn EXCEPT ![p] = IF db = Absent THEN 0 ELSE db]
    /\ early' = [early EXCEPT ![p] = ~installed]
    /\ pc' = [pc EXCEPT ![p] = CommandOf(args[p])]
    /\ UNCHANGED <<machine, files, script, faults, edited, global, args, opts, status, backups>>

(* parse_innobackupex_params: compress_threads is set after the last line. *)
ReadOptions(p) ==
    /\ pc[p] = "backup" /\ pc' = [pc EXCEPT ![p] = "branch"]
    /\ opts' = [opts EXCEPT ![p] =
          IF inno.lines = Absent THEN [lines |-> 0, parallel |-> 0, threads |-> 0]
          ELSE [lines |-> inno.lines, parallel |-> inno.parallel,
                threads |-> IF inno.lines = 9 THEN 2 * inno.parallel ELSE 0]]
    /\ UNCHANGED <<machine, files, script, faults, edited, global, args, conn, early, status,
                   backups>>

(* innobackupex with the command line made of what was read: nothing but   *)
(* the host name may be missing, and the key must be there.  It may fail   *)
(* for other reasons.  Its status is ignored.                              *)
Innobackupex(p) ==
    \/ UNCHANGED backups
    \/ /\ conn[p] = 5 /\ opts[p].lines >= 8 /\ key \notin {Absent, 0}
       /\ backups' = backups \cup {[by |-> p, what |-> OutcomeOf(args[p]).does,
                                     key |-> key]}

(* backup_database after the configuration, and exit() with its result.    *)
Branch(p) ==
    /\ pc[p] = "branch"
    /\ IF OutcomeOf(args[p]).does[1] = "backup" THEN Innobackupex(p) ELSE UNCHANGED backups
    /\ Ends(p, ExitStatus(OutcomeOf(args[p]).code))
    /\ UNCHANGED <<machine, files, script, faults, edited, global, args, conn, opts, early>>

(* restore_database: what a restore does is module PdbRestore.             *)
Restore(p) ==
    /\ pc[p] = "restore" /\ \E n \in Garbage : Ends(p, n)
    /\ UNCHANGED <<machine, files, script, faults, edited, global, args, conn, opts, early,
                   backups>>

(* pdb_shell: the client takes the place of pdb, so that the status is its *)
(* own, unless the connection is not known or there is no client.          *)
Shell(p) ==
    /\ pc[p] = "shell"
    /\ \E n \in Garbage \cup (IF conn[p] = 5 THEN {0} ELSE {}) : Ends(p, n)
    /\ UNCHANGED <<machine, files, script, faults, edited, global, args, conn, opts, early,
                   backups>>

(* catch_function: the statement fails without a connection, or for the    *)
(* server's reasons.                                                       *)
Catch(p) ==
    /\ pc[p] = "catch" /\ \E n \in Garbage : Ends(p, n)
    /\ LET set == OutcomeOf(args[p]).does
       IN  \/ UNCHANGED global
           \/ set[1] = "set" /\ conn[p] = 5 /\ global' = [global EXCEPT ![set[2]] = set[3]]
    /\ UNCHANGED <<machine, files, script, faults, edited, args, conn, opts, early, backups>>

-----------------------------------------------------------------------------
Init ==
    /\ sockets \in Machines /\ longer \in BOOLEAN
    /\ inno = [lines |-> Absent, parallel |-> 0, host |-> 0]
    /\ db = Absent /\ key = Absent
    /\ step = "idle" /\ installs = 0 /\ faults = 0 /\ installed = FALSE
    /\ edited = Absent
    /\ global = [v \in Variable |-> Empty]
    /\ pc = [p \in Invocation |-> "start"]
    /\ args \in [Invocation -> UNION {ArgLists[p] : p \in Invocation}]
    /\ \A p \in Invocation : args[p] \in ArgLists[p]
    /\ conn = [p \in Invocation |-> 0]
    /\ opts = [p \in Invocation |-> [lines |-> 0, parallel |-> 0, threads |-> 0]]
    /\ early = [p \in Invocation |-> TRUE]
    /\ status = [p \in Invocation |-> Absent]
    /\ backups = {}

Post ==
    \/ Install \/ OpenOptions \/ WriteOptions \/ OpenConnection \/ WriteConnection
    \/ OpenKey \/ WriteKey \/ AdaptParallel \/ AdaptHostname \/ Interrupt

Pdb(p) ==
    \/ Main(p) \/ ReadConnection(p) \/ ReadOptions(p) \/ Branch(p)
    \/ Restore(p) \/ Shell(p) \/ Catch(p)

Next == Post \/ Edit \/ \E p \in Invocation : Pdb(p)

Spec == Init /\ [][Next]_vars

-----------------------------------------------------------------------------
(* The types of the variables: files are absent, short or complete, what   *)
(* was read of them came from them, a status is a byte.                    *)
FileTypes ==
    /\ sockets \in Machines /\ longer \in BOOLEAN
    /\ inno \in [lines : ShortWrites \cup {0, 9, Absent}, parallel : Nat,
                 host : 0 .. MaxInstalls]
    /\ db \in ShortWrites \cup {0, 5, Absent}
    /\ key \in 0 .. MaxInstalls \cup {Absent}
    /\ step \in {"idle", "options", "cat_options", "connection", "cat_connection",
                 "key", "echo_key", "parallel", "hostname"}
    /\ installs \in 0 .. MaxInstalls /\ faults \in 0 .. MaxFaults
    /\ installed \in BOOLEAN /\ edited \in Edits \cup {Absent}

ProcessTypes ==
    /\ pc \in [Invocation -> {"start", "connection", "backup", "branch", "restore",
                              "shell", "catch", "done"}]
    /\ args \in [Invocation -> Seq(Word)]
    /\ conn \in [Invocation -> ShortWrites \cup {0, 5}]
    /\ opts \in [Invocation -> [lines : ShortWrites \cup {0, 9}, parallel : Nat,
                                threads : Nat]]
    /\ early \in [Invocation -> BOOLEAN]
    /\ status \in [Invocation -> 0 .. 255 \cup {Absent}]
    /\ \A p \in Invocation : status[p] = Absent <=> pc[p] # "done"

TypeOK ==
    /\ FileTypes /\ ProcessTypes
    /\ global \in [Variable -> Word]
    /\ \A b \in backups : b.by \in Invocation /\ b.key \in 1 .. MaxInstalls

(* A pdb backup that ends with status 0 ran a backup, was told to do it by *)
(* hand, or had two hundred and fifty-six times eleven for its error code: *)
(* no other mistake in the command line looks like success to cron         *)
(* (pdb_backup.c: the codes of the else branches, and exit() in main).     *)
StatusZeroIsExplained ==
    \A p \in Invocation :
        pc[p] = "done" /\ status[p] = 0 /\ args[p] # << >> /\ CommandOf(args[p]) = "backup"
        => \/ OutcomeOf(args[p]).does[1] \in {"backup", "offline"}
           \/ Len(args[p]) = 8 /\ OutcomeOf(args[p]).code = 2816

(* The words that are spelled out and what was made of them; those of a    *)
(* backup of one database come one place later.                            *)
Obeys(a, what) ==
    LET scope == what[2]
        kind  == IF scope = "db" THEN 4 ELSE 3
    IN  /\ a[2] \in {"db", "database"} => scope = "db"
        /\ a[2] = "all" => scope = "all"
        /\ a[kind] \in {"full", "incremental"} => what[3] = a[kind]
        /\ a[kind + 1] # "offline"
        /\ a[kind + 2] = "compress" => what[4] = "compress"
        /\ a[kind + 2] = "to" => what[4] = "plain"

(* Whatever the other words are, a backup that was made is of the scope,   *)
(* of the kind and as compressed as the words that are spelled out ask     *)
(* for, and not one that is to be made offline: strstr() is called in both *)
(* directions, and the forms are told apart by their lengths               *)
(* (pdb_backup.c, cases 6 to 8).                                           *)
SpelledOutWordsAreObeyed == \A b \in backups : Obeys(args[b.by], b.what)

(* The key file of the machine opens every backup made on it, also after   *)
(* upgrades and interrupted installations: a backup is restored with the   *)
(* key that is there then (post.sh:89-93, pdb_restore.c:60).               *)
BackupsCanBeDecrypted == \A b \in backups : b.key = key

(* Once an installation went through, and unless something went wrong, an  *)
(* invocation reads complete files, upgrades going on beside it or not:    *)
(* the results of the readers, which nobody looks at, would be 0.          *)
(* (pdb_backup.c:85-87, read_config.c:101, post.sh:20)                     *)
ConfigurationIsComplete ==
    \A p \in Invocation :
        pc[p] = "branch" /\ ~early[p] /\ faults = 0
        => /\ conn[p] = 5 /\ opts[p].lines = 9
           /\ opts[p].threads = 2 * opts[p].parallel

(* Upgrades leave a configured machine alone: parallel is half the sockets *)
(* or what the administrator last wrote, unless that is a number that      *)
(* begins with a 4, and the host name is the machine's, unless that begins *)
(* with the template's (post.sh:9, 15: sed replaces the template's values  *)
(* wherever they are).                                                     *)
UpgradesKeepTheConfiguration ==
    installed /\ faults = 0
    => /\ inno.lines = 9
       /\ \/ inno.parallel = IF edited = Absent THEN Half ELSE edited
          \/ LikeTemplate(IF edited = Absent THEN Half ELSE edited)
       /\ inno.host = 1 \/ longer
================================================================================
