--------------------------- MODULE PdbCommandProofs ---------------------------
(***************************************************************************)
(* Theorems about PdbCommand, for every set of words with any relation     *)
(* between those that are no keywords, for all command lines, machines,    *)
(* edits and bounds: the types, what a status of 0 means, which backup a   *)
(* command line starts, and what installations and upgrades do to the      *)
(* configuration and the key.                                              *)
(***************************************************************************)
EXTENDS PdbCommand, TLAPS

-----------------------------------------------------------------------------
(* What a command line leads to.                                           *)

(* Which backup six words start: all of them abbreviate.                   *)
LEMMA SixWordsCases ==
    ASSUME NEW scope, NEW kind, NEW mode, NEW to, NEW dir,
           NEW outcome, outcome = SixWords(scope, kind, mode, to, dir)
    PROVE  \/ \E c \in 260 .. 269 : outcome = Refused(c)
           \/ outcome = Offline
           \/ \E k \in {"full", "incremental"} :
                 /\ outcome = Backup("all", k, "plain")
                 /\ Abbrev(scope, "all") /\ Abbrev(kind, k)
                 /\ Abbrev(mode, "online") /\ Abbrev(to, "to")
BY DEF SixWords, Past

(* Seven words, of one database: the words contain the keywords.           *)
LEMMA SevenWordsDbCases ==
    ASSUME NEW name, NEW kind, NEW mode, NEW to, NEW dir,
           NEW outcome, outcome = SevenWordsDb(name, kind, mode, to, dir)
    PROVE  \/ \E c \in 273 .. 278 : outcome = Refused(c)
           \/ \E k \in {"full", "incremental"} :
                 /\ outcome = Backup("db", k, "plain")
                 /\ Contains(kind, k) /\ Contains(mode, "online") /\ Contains(to, "to")
BY DEF SevenWordsDb, Past

(* Seven words, of all databases.                                          *)
LEMMA SevenWordsAllCases ==
    ASSUME NEW scope, NEW kind, NEW mode, NEW compress, NEW to, NEW dir,
           NEW outcome, outcome = SevenWordsAll(scope, kind, mode, compress, to, dir)
    PROVE  \/ \E c \in {279} \cup 2710 .. 2720 : outcome = Refused(c)
           \/ outcome = Offline
           \/ \E k \in {"full", "incremental"} :
                 /\ outcome = Backup("all", k, "compress")
                 /\ Abbrev(scope, "all") /\ Abbrev(kind, k) /\ Abbrev(mode, "online")
                 /\ Abbrev(compress, "compress")
<1>1. CASE Abbrev(kind, "full")
  BY <1>1 DEF SevenWordsAll, Past
<1>2. CASE ~Abbrev(kind, "full")
  BY <1>2 DEF SevenWordsAll, Past
<1> QED
  BY <1>1, <1>2

(* Eight words: in the full form they contain the keywords, in the         *)
(* incremental one all but the kind abbreviate them.                       *)
LEMMA EightWordsCases ==
    ASSUME NEW scope, NEW name, NEW kind, NEW mode, NEW compress, NEW to, NEW dir,
           NEW outcome, outcome = EightWords(scope, name, kind, mode, compress, to, dir)
    PROVE  \/ \E c \in 283 .. 285 \cup 2810 .. 2817 : outcome = Refused(c)
           \/ /\ outcome = Backup("db", "full", "compress") /\ OneDatabase(scope)
              /\ Contains(kind, "full") /\ Contains(mode, "online")
              /\ Contains(compress, "compress")
           \/ /\ outcome = Backup("db", "incremental", "compress") /\ OneDatabase(scope)
              /\ Contains(kind, "incremental") /\ Abbrev(mode, "online")
              /\ Abbrev(compress, "compress")
BY DEF EightWords, Past

(* What is refused, left to the operator or not known is no backup.        *)
LEMMA NoBackup ==
    /\ \A c : Refused(c).does[1] # "backup" /\ Refused(c).code = c
    /\ Offline.does[1] = "offline" /\ Offline.code = 0
    /\ \A scope, kind, how :
          /\ Backup(scope, kind, how).does = <<"backup", scope, kind, how>>
          /\ Backup(scope, kind, how).code = 0
BY DEF Refused, Offline, Backup, Served

(* The backup a command line asks for, and the words it was read from.     *)
Asked(a, what) ==
    \/ \E k \in {"full", "incremental"} :
          /\ what = <<"backup", "all", k, "plain">> /\ Len(a) = 6
          /\ Abbrev(a[2], "all") /\ Abbrev(a[3], k)
          /\ Abbrev(a[4], "online") /\ Abbrev(a[5], "to")
    \/ \E k \in {"full", "incremental"} :
          /\ what = <<"backup", "db", k, "plain">> /\ Len(a) = 7 /\ OneDatabase(a[2])
          /\ Contains(a[4], k) /\ Contains(a[5], "online") /\ Contains(a[6], "to")
    \/ \E k \in {"full", "incremental"} :
          /\ what = <<"backup", "all", k, "compress">> /\ Len(a) = 7
          /\ Abbrev(a[2], "all") /\ Abbrev(a[3], k)
          /\ Abbrev(a[4], "online") /\ Abbrev(a[5], "compress")
    \/ \E k \in {"full", "incremental"} :
          /\ what = <<"backup", "db", k, "compress">> /\ Len(a) = 8 /\ OneDatabase(a[2])
          /\ Contains(a[4], k)
          /\ Contains(a[5], "online") \/ Abbrev(a[5], "online")
          /\ Contains(a[6], "compress") \/ Abbrev(a[6], "compress")

(* The codes and the backups of backup_database.                           *)
LEMMA BackupCases ==
    ASSUME NEW a, NEW outcome, outcome = BackupOf(a)
    PROVE  \/ \E c \in 220 .. 250 \cup 260 .. 285 \cup 2710 .. 2720 \cup 2810 .. 2817 :
                 /\ outcome = Refused(c)
                 /\ c = 2816 => Len(a) = 8
           \/ outcome = [does |-> <<"nothing">>, code |-> 29]
           \/ outcome = Offline
           \/ outcome.code = 0 /\ Asked(a, outcome.does)
<1>1. CASE Len(a) \in 2 .. 5
  <2>1. PICK n \in 2 .. 5 : Len(a) = n
    BY <1>1
  <2>2. outcome = Refused(220 + 10 * (n - 2))
    BY <1>1, <2>1, Zenon DEF BackupOf
  <2>3. 220 + 10 * (n - 2) \in 220 .. 250
    OBVIOUS
  <2> QED
    BY <2>2, <2>3
<1>2. CASE Len(a) = 6
  <2>1. outcome = SixWords(a[2], a[3], a[4], a[5], a[6])
    BY <1>2 DEF BackupOf
  <2> QED
    BY <1>2, <2>1, SixWordsCases, NoBackup DEF Asked
<1>3. CASE Len(a) = 7 /\ OneDatabase(a[2])
  <2>1. outcome = SevenWordsDb(a[3], a[4], a[5], a[6], a[7])
    BY <1>3 DEF BackupOf
  <2> QED
    BY <1>3, <2>1, SevenWordsDbCases, NoBackup DEF Asked
<1>4. CASE Len(a) = 7 /\ ~OneDatabase(a[2])
  <2>1. outcome = SevenWordsAll(a[2], a[3], a[4], a[5], a[6], a[7])
    BY <1>4 DEF BackupOf
  <2> QED
    BY <1>4, <2>1, SevenWordsAllCases, NoBackup DEF Asked
<1>5. CASE Len(a) = 8
  <2>1. outcome = EightWords(a[2], a[3], a[4], a[5], a[6], a[7], a[8])
    BY <1>5 DEF BackupOf
  <2> QED
    BY <1>5, <2>1, EightWordsCases, NoBackup DEF Asked
<1>6. CASE Len(a) \notin 2 .. 8
  BY <1>6 DEF BackupOf
<1> QED
  BY <1>1, <1>2, <1>3, <1>4, <1>5, <1>6

(* The keywords that one form could be taken for another by.               *)
LEMMA Apart ==
    /\ ~Within("db", "all") /\ ~Within("database", "all")
    /\ ~Within("full", "incremental") /\ ~Within("incremental", "full")
    /\ ~Within("offline", "online") /\ ~Within("online", "offline")
    /\ ~Within("compress", "to") /\ ~Within("to", "compress")
BY KeywordAssumption DEF Keyword

LEMMA AskedIsObeyed ==
    ASSUME NEW a \in Seq(Word), NEW what, Asked(a, what)
    PROVE  Obeys(a, what)
BY Apart DEF Asked, Obeys, OneDatabase, Abbrev, Contains

-----------------------------------------------------------------------------
(* The inductive invariants.                                               *)

(* The host name is replaced at most once by each run of post.sh, at its   *)
(* end.                                                                    *)
HostInv == inno.host <= installs /\ (step # "idle" => inno.host < installs)

(* Where an invocation is follows from its first word.                     *)
CommandInv ==
    \A p \in Invocation :
        /\ pc[p] = "connection"
           => CommandOf(args[p]) \in {"backup", "restore", "shell", "catch"}
        /\ pc[p] \in {"backup", "branch"} => CommandOf(args[p]) = "backup"
        /\ pc[p] \in {"restore", "shell", "catch"} => CommandOf(args[p]) = pc[p]

TypeInv == TypeOK /\ HostInv /\ CommandInv

(* A pdb backup that ended has the low eight bits of its code.             *)
StatusInv ==
    \A p \in Invocation :
        pc[p] = "done" /\ args[p] # << >> /\ CommandOf(args[p]) = "backup"
        => status[p] = ExitStatus(OutcomeOf(args[p]).code)

(* A backup is the one its command line asks for.                          *)
MadeInv ==
    \A b \in backups :
        /\ b.what = OutcomeOf(args[b.by]).does /\ b.what[1] = "backup"
        /\ CommandOf(args[b.by]) = "backup"

(* No key is written over: the one that is made goes into an empty file,   *)
(* with which no backup was made.                                          *)
KeyInv ==
    /\ \A b \in backups : b.key = key
    /\ key \in {Absent, 0} => backups = {}
    /\ step = "echo_key" => key = 0

(* Unless something went wrong, the files are complete or not there but    *)
(* while they are written, which no installation does that comes after     *)
(* one that went through.                                                  *)
FilesInv ==
    /\ installed => inno.lines = 9 /\ db = 5
    /\ step \in {"idle", "options"} => inno.lines \in {Absent, 9} /\ db \in {Absent, 5}
    /\ step = "cat_options" => inno.lines = 0 /\ db \in {Absent, 5} /\ ~installed
    /\ step \notin {"idle", "options", "cat_options"} => inno.lines = 9
    /\ step = "connection" => db \in {Absent, 5}
    /\ step = "cat_connection" => ~installed
    /\ step \in {"key", "echo_key", "parallel", "hostname"} => db = 5

(* What was read after that is complete.                                   *)
ReadInv ==
    \A p \in Invocation :
        ~early[p] => /\ installed /\ conn[p] = 5
                     /\ pc[p] = "branch"
                        => /\ opts[p].lines = 9
                           /\ opts[p].threads = 2 * opts[p].parallel

(* Half the sockets may begin with a 4, too; then the next upgrade         *)
(* replaces it again.                                                      *)
ParallelInv ==
    /\ edited # Absent => inno.lines = 9 /\ (inno.parallel = edited \/ LikeTemplate(edited))
    /\ edited = Absent /\ inno.lines = 9
       => inno.parallel \in {4, Half} \/ LikeTemplate(Half)
    /\ edited = Absent /\ (installed \/ step = "hostname")
       => inno.parallel = Half \/ LikeTemplate(Half)

(* A name that does not begin with the template's is put in once.          *)
NameInv ==
    ~longer => inno.host \in {0, 1} /\ (installed => inno.host = 1)

ConfigInv == faults = 0 => FilesInv /\ ReadInv /\ ParallelInv /\ NameInv

-----------------------------------------------------------------------------
(* The types.                                                              *)

LEMMA TypeInit == Init => TypeInv
<1> SUFFICES ASSUME Init PROVE TypeInv
  OBVIOUS
<1>1. FileTypes
  <2>1. inno \in [lines : ShortWrites \cup {0, 9, Absent}, parallel : Nat,
                 host : 0 .. MaxInstalls]
    BY BoundAssumption DEF Init
  <2>2. /\ sockets \in Machines /\ longer \in BOOLEAN /\ step = "idle"
        /\ installed = FALSE /\ db = Absent /\ key = Absent /\ edited = Absent
        /\ installs \in 0 .. MaxInstalls /\ faults \in 0 .. MaxFaults
    BY BoundAssumption DEF Init
  <2> QED
    BY <2>1, <2>2 DEF FileTypes
<1>2. args \in [Invocation -> Seq(Word)]
  <2>1. /\ args \in [Invocation -> UNION {ArgLists[p] : p \in Invocation}]
        /\ \A p \in Invocation : args[p] \in ArgLists[p]
    BY DEF Init
  <2> QED
    BY <2>1, ArgsAssumption
<1>3. ProcessTypes
  BY <1>2 DEF ProcessTypes, Init
<1>4. global \in [Variable -> Word] /\ backups = {}
  BY WordAssumption DEF Init
<1>5. HostInv
  BY DEF HostInv, Init
<1>6. CommandInv
  BY DEF CommandInv, Init
<1> QED
  BY <1>1, <1>3, <1>4, <1>5, <1>6 DEF TypeInv, TypeOK

(* What sed makes of a value: the template's becomes half the sockets, one *)
(* that does not begin with a 4 stays.                                     *)
LEMMA AdaptedValue ==
    ASSUME FileTypes
    PROVE  /\ Half \in Nat /\ \A n \in Nat : Adapted(n) \in Nat
           /\ Adapted(4) = Half
           /\ \A n \in Nat : LikeTemplate(n) \/ Adapted(n) = n
<1>1. Half \in Nat
  BY ValueAssumption DEF FileTypes, Half
<1>2. Scale \subseteq Nat \ {0}
  BY DEF Scale
<1>3. ASSUME NEW n \in Nat, LikeTemplate(n)
      PROVE  Adapted(n) \in Nat
  <2>1. PICK s \in Scale : n \div s = 4 /\ Adapted(n) = Half * s + (n % s)
    BY <1>3 DEF LikeTemplate, Adapted
  <2>2. s \in Nat \ {0} /\ n % s \in Nat
    BY <1>2, <2>1
  <2>3. Half * s \in Nat
    BY <1>1, <2>2
  <2> QED
    BY <2>1, <2>2, <2>3
<1>4. Adapted(4) = Half
  <2>1. 1 \in Scale /\ 4 \div 1 = 4
    BY DEF Scale
  <2>2. \A s \in Scale : 4 \div s = 4 => s = 1
    BY DEF Scale
  <2>3. LikeTemplate(4) /\ (CHOOSE s \in Scale : 4 \div s = 4) = 1
    BY <2>1, <2>2 DEF LikeTemplate
  <2>4. Half * 1 + (4 % 1) = Half
    BY <1>1
  <2> QED
    BY <2>3, <2>4 DEF Adapted
<1>5. \A n \in Nat : LikeTemplate(n) \/ Adapted(n) = n
  BY DEF Adapted
<1> QED
  BY <1>1, <1>3, <1>4, <1>5

(* post.sh and the administrator.                                          *)
LEMMA FileStep ==
    ASSUME FileTypes, HostInv, Post \/ Edit
    PROVE  FileTypes' /\ HostInv' /\ UNCHANGED <<process, global, backups>>
<1>1. CASE Install
  <2>1. FileTypes'
    BY <1>1, BoundAssumption DEF FileTypes, HostInv, Install, machine, files
  <2>2. HostInv'
    BY <1>1 DEF FileTypes, HostInv, Install, machine, files
  <2> QED
    BY <1>1, <2>1, <2>2 DEF Install
<1>2. CASE OpenOptions
  <2>1. FileTypes'
    <3>1. inno' \in [lines : ShortWrites \cup {0, 9, Absent}, parallel : Nat,
                    host : 0 .. MaxInstalls]
      BY <1>2, BoundAssumption DEF FileTypes, OpenOptions
    <3> QED
      BY <1>2, <3>1 DEF FileTypes, OpenOptions, machine
  <2>2. HostInv'
    BY <1>2 DEF FileTypes, HostInv, OpenOptions, machine, Absent
  <2> QED
    BY <1>2, <2>1, <2>2 DEF OpenOptions
<1>3. CASE WriteOptions
  <2>1. FileTypes'
    BY <1>3, BoundAssumption, WriteAssumption DEF FileTypes, HostInv, WriteOptions, Template, machine, Absent, Fault
  <2>2. HostInv'
    BY <1>3 DEF FileTypes, HostInv, WriteOptions, Template, machine, Absent, Fault
  <2> QED
    BY <1>3, <2>1, <2>2 DEF WriteOptions
<1>4. CASE OpenConnection
  <2>1. FileTypes'
    BY <1>4 DEF FileTypes, HostInv, OpenConnection, machine, Absent
  <2>2. HostInv'
    BY <1>4 DEF FileTypes, HostInv, OpenConnection, machine, Absent
  <2> QED
    BY <1>4, <2>1, <2>2 DEF OpenConnection
<1>5. CASE WriteConnection
  <2>1. FileTypes'
    BY <1>5, BoundAssumption DEF FileTypes, HostInv, WriteConnection, machine, Absent, Fault
  <2>2. HostInv'
    BY <1>5 DEF FileTypes, HostInv, WriteConnection, machine, Absent, Fault
  <2> QED
    BY <1>5, <2>1, <2>2 DEF WriteConnection
<1>6. CASE OpenKey
  <2>1. FileTypes'
    BY <1>6, BoundAssumption DEF FileTypes, HostInv, OpenKey, machine, Absent
  <2>2. HostInv'
    BY <1>6 DEF FileTypes, HostInv, OpenKey, machine, Absent
  <2> QED
    BY <1>6, <2>1, <2>2 DEF OpenKey
<1>7. CASE WriteKey
  <2>1. FileTypes'
    BY <1>7, BoundAssumption DEF FileTypes, HostInv, WriteKey, machine, Absent, Fault
  <2>2. HostInv'
    BY <1>7 DEF FileTypes, HostInv, WriteKey, machine, Absent, Fault
  <2> QED
    BY <1>7, <2>1, <2>2 DEF WriteKey
<1>8. CASE AdaptParallel
  <2>1. Adapted(inno.parallel) \in Nat
    BY AdaptedValue DEF FileTypes
  <2>2. FileTypes'
    BY <1>8, <2>1, BoundAssumption DEF FileTypes, AdaptParallel, machine, Absent, Fault
  <2>3. HostInv'
    BY <1>8 DEF FileTypes, HostInv, AdaptParallel
  <2> QED
    BY <1>8, <2>2, <2>3 DEF AdaptParallel
<1>9. CASE AdaptHostname
  <2>1. FileTypes'
    <3>1. inno' \in [lines : ShortWrites \cup {0, 9, Absent}, parallel : Nat,
                    host : 0 .. MaxInstalls]
      <4>1. Renamed(inno.host) \in 0 .. MaxInstalls
        BY <1>9, BoundAssumption DEF FileTypes, HostInv, AdaptHostname, Renamed
      <4>2. inno' \in {inno, [inno EXCEPT !.host = Renamed(inno.host)]}
        BY <1>9 DEF AdaptHostname
      <4> QED
        BY <4>1, <4>2 DEF FileTypes
    <3>2. faults' \in 0 .. MaxFaults /\ installed' \in BOOLEAN
      <4>1. installed \in BOOLEAN /\ faults \in 0 .. MaxFaults
        BY DEF FileTypes
      <4>2. \/ faults' = faults /\ installed' = (installed \/ faults = 0)
            \/ Fault /\ installed' = installed
        BY <1>9 DEF AdaptHostname
      <4>3. faults' \in 0 .. MaxFaults
        BY <4>1, <4>2, BoundAssumption DEF Fault
      <4>4. installed' \in BOOLEAN
        BY <4>1, <4>2
      <4> QED
        BY <4>3, <4>4
    <3>3. step' = "idle" /\ UNCHANGED <<machine, db, key, installs, edited>>
      BY <1>9 DEF AdaptHostname
    <3> QED
      BY <3>1, <3>2, <3>3 DEF FileTypes, machine
  <2>2. HostInv'
    BY <1>9 DEF FileTypes, HostInv, AdaptHostname, Renamed, machine, Absent, Fault
  <2> QED
    BY <1>9, <2>1, <2>2 DEF AdaptHostname
<1>10. CASE Interrupt
  <2>1. FileTypes'
    BY <1>10, BoundAssumption DEF FileTypes, HostInv, Interrupt, machine, files, Fault
  <2>2. HostInv'
    BY <1>10 DEF FileTypes, HostInv, Interrupt, machine, files, Fault
  <2> QED
    BY <1>10, <2>1, <2>2 DEF Interrupt
<1>11. CASE Edit
  <2>1. FileTypes'
    BY <1>11, ValueAssumption DEF FileTypes, HostInv, Edit, machine, script, Absent
  <2>2. HostInv'
    BY <1>11 DEF FileTypes, HostInv, Edit, machine, script, Absent
  <2> QED
    BY <1>11, <2>1, <2>2 DEF Edit
<1> QED
  BY <1>1, <1>2, <1>3, <1>4, <1>5, <1>6, <1>7, <1>8, <1>9, <1>10, <1>11 DEF Post

(* The code of a pdb backup and the status it becomes.                     *)
LEMMA BackupCode ==
    ASSUME NEW a, CommandOf(a) = "backup"
    PROVE  OutcomeOf(a) = BackupOf(a) /\ OutcomeOf(a).code \in Nat
<1>1. OutcomeOf(a) = BackupOf(a)
  BY DEF OutcomeOf
<1>2. BackupOf(a).code \in Nat
  BY BackupCases, NoBackup
<1> QED
  BY <1>1, <1>2

LEMMA StatusIsByte ==
    ASSUME NEW n \in Nat
    PROVE  ExitStatus(n) \in 0 .. 255
BY DEF ExitStatus

(* An invocation that ends has a status.                                   *)
LEMMA EndsTypes ==
    ASSUME NEW p \in Invocation, ProcessTypes, CommandInv, pc[p] # "done",
           NEW n \in 0 .. 255, Ends(p, n), UNCHANGED <<args, conn, opts, early>>
    PROVE  ProcessTypes' /\ CommandInv'
<1>1. pc' \in [Invocation -> {"start", "connection", "backup", "branch", "restore",
                              "shell", "catch", "done"}]
  BY DEF ProcessTypes, Ends
<1>2. status' \in [Invocation -> 0 .. 255 \cup {Absent}]
  BY DEF ProcessTypes, Ends
<1>3. ASSUME NEW q \in Invocation
      PROVE  status'[q] = Absent <=> pc'[q] # "done"
  <2>1. CASE q = p
    <3>1. status'[q] = n /\ pc'[q] = "done"
      BY <2>1 DEF ProcessTypes, Ends
    <3> QED
      BY <3>1 DEF Absent
  <2>2. CASE q # p
    <3>1. status'[q] = status[q] /\ pc'[q] = pc[q]
      BY <2>2 DEF ProcessTypes, Ends
    <3> QED
      BY <3>1 DEF ProcessTypes
  <2> QED
    BY <2>1, <2>2
<1>4. CommandInv'
  BY DEF ProcessTypes, CommandInv, Ends
<1> QED
  BY <1>1, <1>2, <1>3, <1>4 DEF ProcessTypes

(* One that goes on has none.                                              *)
LEMMA GoesOnTypes ==
    ASSUME NEW p \in Invocation, ProcessTypes, CommandInv, pc[p] # "done",
           NEW next \in {"connection", "backup", "branch", "restore", "shell", "catch"},
           pc' = [pc EXCEPT ![p] = next], UNCHANGED <<args, status>>,
           next = "connection"
           => CommandOf(args[p]) \in {"backup", "restore", "shell", "catch"},
           next \in {"backup", "branch"} => CommandOf(args[p]) = "backup",
           next \in {"restore", "shell", "catch"} => CommandOf(args[p]) = next,
           conn' \in [Invocation -> ShortWrites \cup {0, 5}],
           opts' \in [Invocation -> [lines : ShortWrites \cup {0, 9}, parallel : Nat,
                                     threads : Nat]],
           early' \in [Invocation -> BOOLEAN]
    PROVE  ProcessTypes' /\ CommandInv'
<1>1. pc' \in [Invocation -> {"start", "connection", "backup", "branch", "restore",
                              "shell", "catch", "done"}]
  BY DEF ProcessTypes
<1>2. \A q \in Invocation : status'[q] = Absent <=> pc'[q] # "done"
  BY DEF ProcessTypes
<1>3. CommandInv'
  BY DEF ProcessTypes, CommandInv
<1> QED
  BY <1>1, <1>2, <1>3 DEF ProcessTypes

LEMMA ProcessStep ==
    ASSUME NEW p \in Invocation, FileTypes, ProcessTypes, CommandInv, Pdb(p)
    PROVE  ProcessTypes' /\ CommandInv'
<1>1. CASE Main(p)
  <2>1. pc[p] = "start" /\ UNCHANGED <<args, conn, opts, early>>
    BY <1>1 DEF Main
  <2>2. CASE \E n \in 0 .. 255 : Ends(p, n)
    BY <2>1, <2>2, EndsTypes
  <2>3. CASE /\ CommandOf(args[p]) \in {"backup", "restore", "shell", "catch"}
             /\ pc' = [pc EXCEPT ![p] = "connection"] /\ UNCHANGED status
    BY <2>1, <2>3, GoesOnTypes DEF ProcessTypes
  <2>4. ExitStatus(0) \in 0 .. 255 /\ ExitStatus(1) \in 0 .. 255
    BY StatusIsByte
  <2> QED
    BY <1>1, <2>2, <2>3, <2>4, GarbageAssumption DEF Main
<1>2. CASE ReadConnection(p)
  <2>1. /\ pc[p] = "connection" /\ pc' = [pc EXCEPT ![p] = CommandOf(args[p])]
        /\ UNCHANGED <<args, opts, status>>
    BY <1>2 DEF ReadConnection
  <2>2. CommandOf(args[p]) \in {"backup", "restore", "shell", "catch"}
    BY <2>1 DEF CommandInv
  <2>3. conn' \in [Invocation -> ShortWrites \cup {0, 5}]
    <3>1. (IF db = Absent THEN 0 ELSE db) \in ShortWrites \cup {0, 5}
      BY DEF FileTypes
    <3> QED
      BY <1>2, <3>1 DEF ReadConnection, ProcessTypes
  <2>4. early' \in [Invocation -> BOOLEAN]
    BY <1>2 DEF ReadConnection, ProcessTypes
  <2> QED
    BY <2>1, <2>2, <2>3, <2>4, GoesOnTypes DEF ProcessTypes
<1>3. CASE ReadOptions(p)
  <2>1. /\ pc[p] = "backup" /\ pc' = [pc EXCEPT ![p] = "branch"]
        /\ UNCHANGED <<args, conn, early, status>>
    BY <1>3 DEF ReadOptions
  <2>2. opts' \in [Invocation -> [lines : ShortWrites \cup {0, 9}, parallel : Nat,
                                  threads : Nat]]
    <3> DEFINE read == IF inno.lines = Absent THEN [lines |-> 0, parallel |-> 0, threads |-> 0]
                       ELSE [lines |-> inno.lines, parallel |-> inno.parallel,
                             threads |-> IF inno.lines = 9 THEN 2 * inno.parallel ELSE 0]
    <3>1. read \in [lines : ShortWrites \cup {0, 9}, parallel : Nat, threads : Nat]
      BY DEF FileTypes
    <3>2. opts' = [opts EXCEPT ![p] = read]
      BY <1>3 DEF ReadOptions
    <3> QED
      BY <3>1, <3>2 DEF ProcessTypes
  <2>3. CommandOf(args[p]) = "backup"
    BY <2>1 DEF CommandInv
  <2> QED
    BY <2>1, <2>2, <2>3, GoesOnTypes DEF ProcessTypes
<1>4. CASE Branch(p)
  <2>1. pc[p] = "branch" /\ UNCHANGED <<args, conn, opts, early>>
    BY <1>4 DEF Branch
  <2>2. ExitStatus(OutcomeOf(args[p]).code) \in 0 .. 255
    BY <2>1, BackupCode, StatusIsByte DEF CommandInv
  <2>3. Ends(p, ExitStatus(OutcomeOf(args[p]).code))
    BY <1>4 DEF Branch
  <2> QED
    BY <2>1, <2>2, <2>3, EndsTypes
<1>5. CASE Restore(p)
  BY <1>5, EndsTypes, GarbageAssumption DEF Restore
<1>6. CASE Shell(p)
  <2>1. PICK n \in Garbage \cup {0} : Ends(p, n)
    BY <1>6 DEF Shell
  <2> QED
    BY <1>6, <2>1, EndsTypes, GarbageAssumption DEF Shell
<1>7. CASE Catch(p)
  BY <1>7, EndsTypes, GarbageAssumption DEF Catch
<1> QED
  BY <1>1, <1>2, <1>3, <1>4, <1>5, <1>6, <1>7 DEF Pdb

(* What pdb catch sets is one of the four variables.                       *)
LEMMA EmptyIsApart == Empty # "deadlock" /\ Empty # "slowquery"
BY Zenon DEF Empty

LEMMA CatchSets ==
    ASSUME NEW a \in Seq(Word), NEW set, set = CatchOf(a).does, set[1] = "set"
    PROVE  set[2] \in Variable /\ set[3] \in Word
<1>1. \/ Len(a) = 3 /\ \E v \in Variable : set = <<"set", v, a[3]>>
      \/ Len(a) = 4 /\ \E v \in Variable : set = <<"set", v, a[4]>>
      \/ set = <<"help">>
  BY EmptyIsApart DEF CatchOf, Served, Refused, Variable
<1>2. (Len(a) = 3 => a[3] \in Word) /\ (Len(a) = 4 => a[4] \in Word)
  OBVIOUS
<1> QED
  BY <1>1, <1>2

(* What the invocations leave behind.                                      *)
LEMMA TracesStep ==
    ASSUME NEW p \in Invocation, TypeInv, Pdb(p)
    PROVE  /\ global' \in [Variable -> Word]
           /\ \A b \in backups' : b.by \in Invocation /\ b.key \in 1 .. MaxInstalls
<1>1. \/ UNCHANGED global
      \/ Catch(p)
  BY DEF Pdb, Main, ReadConnection, ReadOptions, Branch, Restore, Shell
<1>2. \/ UNCHANGED backups
      \/ Innobackupex(p)
  BY DEF Pdb, Main, ReadConnection, ReadOptions, Branch, Restore, Shell, Catch
<1>3. global' \in [Variable -> Word]
  <2>1. CASE UNCHANGED global
    BY <2>1 DEF TypeInv, TypeOK
  <2>2. CASE Catch(p)
    <3>1. OutcomeOf(args[p]) = CatchOf(args[p])
      <4>1. CommandOf(args[p]) = "catch"
        BY <2>2 DEF Catch, TypeInv, CommandInv
      <4> QED
        BY <4>1 DEF OutcomeOf
    <3>2. args[p] \in Seq(Word)
      BY DEF TypeInv, TypeOK, ProcessTypes
    <3>3. PICK set : /\ set = OutcomeOf(args[p]).does
                     /\ \/ UNCHANGED global
                        \/ set[1] = "set" /\ global' = [global EXCEPT ![set[2]] = set[3]]
      BY <2>2, Zenon DEF Catch
    <3>4. set[1] = "set" => set[2] \in Variable /\ set[3] \in Word
      BY <3>1, <3>2, <3>3, CatchSets
    <3> QED
      BY <3>3, <3>4 DEF TypeInv, TypeOK
  <2> QED
    BY <1>1, <2>1, <2>2
<1>4. \A b \in backups' : b.by \in Invocation /\ b.key \in 1 .. MaxInstalls
  BY <1>2, BoundAssumption DEF Innobackupex, TypeInv, TypeOK, FileTypes, Absent
<1> QED
  BY <1>3, <1>4

LEMMA TypeNext == TypeInv /\ [Next]_vars => TypeInv'
<1> SUFFICES ASSUME TypeInv, [Next]_vars PROVE TypeInv'
  OBVIOUS
<1>1. CASE Post \/ Edit
  <2>1. FileTypes' /\ HostInv' /\ UNCHANGED <<process, global, backups>>
    BY <1>1, FileStep DEF TypeInv, TypeOK
  <2>2. ProcessTypes' /\ CommandInv'
    BY <2>1 DEF TypeInv, TypeOK, ProcessTypes, CommandInv, process
  <2> QED
    BY <2>1, <2>2 DEF TypeInv, TypeOK
<1>2. ASSUME NEW p \in Invocation, Pdb(p)
      PROVE  TypeInv'
  <2>1. UNCHANGED <<machine, files, script, faults, edited>>
    BY <1>2 DEF Pdb, Main, ReadConnection, ReadOptions, Branch, Restore, Shell, Catch
  <2>2. FileTypes' /\ HostInv'
    BY <2>1 DEF TypeInv, TypeOK, FileTypes, HostInv, machine, files, script
  <2>3. ProcessTypes' /\ CommandInv'
    BY <1>2, ProcessStep DEF TypeInv, TypeOK
  <2>4. /\ global' \in [Variable -> Word]
        /\ \A b \in backups' : b.by \in Invocation /\ b.key \in 1 .. MaxInstalls
    BY <1>2, TracesStep
  <2> QED
    BY <2>2, <2>3, <2>4 DEF TypeInv, TypeOK
<1>3. CASE UNCHANGED vars
  <2>1. FileTypes' /\ HostInv'
    BY <1>3 DEF TypeInv, TypeOK, FileTypes, HostInv, vars, machine, files, script
  <2>2. ProcessTypes' /\ CommandInv'
    BY <1>3 DEF TypeInv, TypeOK, ProcessTypes, CommandInv, vars, process
  <2> QED
    BY <1>3, <2>1, <2>2 DEF TypeInv, TypeOK, vars
<1> QED
  BY <1>1, <1>2, <1>3 DEF Next

LEMMA TypeInvariant == Spec => []TypeInv
BY TypeInit, TypeNext, PTL DEF Spec

(* The variables keep their types.                                         *)
THEOREM TypeCorrect == Spec => []TypeOK
<1>1. TypeInv => TypeOK
  BY DEF TypeInv
<1> QED
  BY <1>1, TypeInvariant, PTL

-----------------------------------------------------------------------------
(* The status of a pdb backup.                                             *)

LEMMA StatusInit == Init => StatusInv
BY DEF Init, StatusInv

(* An invocation that ends without a backup was no pdb backup.             *)
LEMMA StatusEnds ==
    ASSUME NEW p \in Invocation, TypeInv, StatusInv, NEW n, Ends(p, n), UNCHANGED args,
           args[p] # << >> /\ CommandOf(args[p]) = "backup"
           => n = ExitStatus(OutcomeOf(args[p]).code)
    PROVE  StatusInv'
<1> SUFFICES ASSUME NEW q \in Invocation, pc'[q] = "done", args[q] # << >>,
                    CommandOf(args[q]) = "backup"
             PROVE  status'[q] = ExitStatus(OutcomeOf(args[q]).code)
  BY DEF StatusInv
<1>1. CASE q = p
  BY <1>1 DEF Ends, TypeInv, TypeOK, ProcessTypes
<1>2. CASE q # p
  <2>1. pc'[q] = pc[q] /\ status'[q] = status[q]
    BY <1>2 DEF Ends, TypeInv, TypeOK, ProcessTypes
  <2> QED
    BY <2>1 DEF StatusInv
<1> QED
  BY <1>1, <1>2

LEMMA StatusGoesOn ==
    ASSUME NEW p \in Invocation, TypeInv, StatusInv, NEW next, next # "done",
           pc' = [pc EXCEPT ![p] = next], UNCHANGED <<args, status>>
    PROVE  StatusInv'
BY DEF StatusInv, TypeInv, TypeOK, ProcessTypes

LEMMA StatusNext == TypeInv /\ StatusInv /\ [Next]_vars => StatusInv'
<1> SUFFICES ASSUME TypeInv, StatusInv, [Next]_vars PROVE StatusInv'
  OBVIOUS
<1>1. CASE Post \/ Edit
  <2>1. UNCHANGED <<pc, args, status>>
    BY <1>1, FileStep DEF TypeInv, TypeOK, process
  <2> QED
    BY <2>1 DEF StatusInv
<1>2. ASSUME NEW p \in Invocation, Pdb(p)
      PROVE  StatusInv'
  <2>1. CASE Main(p)
    BY <2>1, StatusEnds, StatusGoesOn DEF Main
  <2>2. CASE ReadConnection(p)
    <3>1. CommandOf(args[p]) # "done"
      BY <2>2 DEF ReadConnection, TypeInv, CommandInv
    <3> QED
      BY <2>2, <3>1, StatusGoesOn DEF ReadConnection
  <2>3. CASE ReadOptions(p)
    BY <2>3, StatusGoesOn DEF ReadOptions
  <2>4. CASE Branch(p)
    BY <2>4, StatusEnds DEF Branch
  <2>5. CASE Restore(p) \/ Shell(p) \/ Catch(p)
    <3>1. CommandOf(args[p]) # "backup"
      BY <2>5 DEF Restore, Shell, Catch, TypeInv, CommandInv
    <3>2. UNCHANGED args /\ \E n : Ends(p, n)
      BY <2>5 DEF Restore, Shell, Catch
    <3> QED
      BY <3>1, <3>2, StatusEnds
  <2> QED
    BY <1>2, <2>1, <2>2, <2>3, <2>4, <2>5 DEF Pdb
<1>3. CASE UNCHANGED vars
  BY <1>3 DEF StatusInv, vars, process
<1> QED
  BY <1>1, <1>2, <1>3 DEF Next

LEMMA StatusInvariant == Spec => []StatusInv
BY StatusInit, StatusNext, TypeInvariant, PTL DEF Spec

(* The low eight bits of a code are 0 for what was done and for 2816.      *)
LEMMA ZeroCodes ==
    ASSUME NEW a, CommandOf(a) = "backup", ExitStatus(OutcomeOf(a).code) = 0
    PROVE  \/ OutcomeOf(a).does[1] \in {"backup", "offline"}
           \/ Len(a) = 8 /\ OutcomeOf(a).code = 2816
<1> DEFINE outcome == BackupOf(a)
<1>1. OutcomeOf(a) = outcome
  BY BackupCode
<1>2. \/ \E c \in 220 .. 250 \cup 260 .. 285 \cup 2710 .. 2720 \cup 2810 .. 2817 :
            outcome = Refused(c) /\ (c = 2816 => Len(a) = 8)
      \/ outcome = [does |-> <<"nothing">>, code |-> 29]
      \/ outcome = Offline
      \/ Asked(a, outcome.does)
  BY BackupCases
<1> HIDE DEF outcome
<1>3. ASSUME NEW c \in 220 .. 250 \cup 260 .. 285 \cup 2710 .. 2720 \cup 2810 .. 2817,
             outcome = Refused(c), c = 2816 => Len(a) = 8
      PROVE  Len(a) = 8 /\ outcome.code = 2816
  <2>1. c % 256 = 0
    BY <1>1, <1>3, NoBackup DEF ExitStatus
  <2>2. c = 2816
    BY <2>1
  <2> QED
    BY <1>3, <2>2, NoBackup
<1>4. CASE outcome = [does |-> <<"nothing">>, code |-> 29]
  BY <1>1, <1>4 DEF ExitStatus
<1>5. CASE Asked(a, outcome.does)
  BY <1>5, <1>1 DEF Asked
<1> QED
  BY <1>1, <1>2, <1>3, <1>4, <1>5, NoBackup

(* No mistake in the command line of a pdb backup looks like success but   *)
(* for the one whose code is 2816: exit() keeps the low eight bits.        *)
THEOREM StatusZero == Spec => []StatusZeroIsExplained
<1>1. StatusInv => StatusZeroIsExplained
  BY ZeroCodes DEF StatusInv, StatusZeroIsExplained
<1> QED
  BY <1>1, StatusInvariant, PTL

-----------------------------------------------------------------------------
(* Which backups are made.                                                 *)

(* Only the branch of an invocation makes one.                             *)
LEMMA BackupsStep ==
    ASSUME TypeInv, [Next]_vars
    PROVE  /\ UNCHANGED args
           /\ \/ UNCHANGED backups
              \/ \E p \in Invocation :
                    /\ Branch(p) /\ OutcomeOf(args[p]).does[1] = "backup"
                    /\ key \notin {Absent, 0} /\ UNCHANGED <<files, step>>
                    /\ backups' = backups \cup {[by |-> p, what |-> OutcomeOf(args[p]).does,
                                                  key |-> key]}
<1>1. CASE Post \/ Edit
  BY <1>1, FileStep DEF TypeInv, TypeOK, process
<1>2. ASSUME NEW p \in Invocation, Pdb(p), ~Branch(p)
      PROVE  UNCHANGED <<args, backups>>
  BY <1>2 DEF Pdb, Main, ReadConnection, ReadOptions, Restore, Shell, Catch
<1>3. ASSUME NEW p \in Invocation, Branch(p)
      PROVE  /\ UNCHANGED args
             /\ \/ UNCHANGED backups
                \/ /\ OutcomeOf(args[p]).does[1] = "backup"
                   /\ key \notin {Absent, 0} /\ UNCHANGED <<files, step>>
                   /\ backups' = backups \cup {[by |-> p, what |-> OutcomeOf(args[p]).does,
                                                 key |-> key]}
  BY <1>3 DEF Branch, Innobackupex, script
<1>4. CASE UNCHANGED vars
  BY <1>4 DEF vars, process
<1> QED
  BY <1>1, <1>2, <1>3, <1>4 DEF Next, Pdb

LEMMA MadeNext == TypeInv /\ MadeInv /\ [Next]_vars => MadeInv'
<1> SUFFICES ASSUME TypeInv, MadeInv, [Next]_vars PROVE MadeInv'
  OBVIOUS
<1>1. CASE UNCHANGED backups
  BY <1>1, BackupsStep DEF MadeInv
<1>2. ASSUME NEW p \in Invocation, Branch(p), OutcomeOf(args[p]).does[1] = "backup",
             backups' = backups \cup {[by |-> p, what |-> OutcomeOf(args[p]).does,
                                        key |-> key]}
      PROVE  MadeInv'
  <2>1. CommandOf(args[p]) = "backup"
    BY <1>2 DEF Branch, TypeInv, CommandInv
  <2> QED
    BY <1>2, <2>1, BackupsStep DEF MadeInv
<1> QED
  BY <1>1, <1>2, BackupsStep

LEMMA MadeInvariant == Spec => []MadeInv
<1>1. Init => MadeInv
  BY DEF Init, MadeInv
<1> QED
  BY <1>1, MadeNext, TypeInvariant, PTL DEF Spec

(* Whatever the other words are, a backup is of the scope, of the kind and *)
(* as compressed as the words that are spelled out say.                    *)
THEOREM Obeyed == Spec => []SpelledOutWordsAreObeyed
<1>1. TypeInv /\ MadeInv => SpelledOutWordsAreObeyed
  <2> SUFFICES ASSUME TypeInv, MadeInv, NEW b \in backups
               PROVE  Obeys(args[b.by], b.what)
    BY DEF SpelledOutWordsAreObeyed
  <2> DEFINE a == args[b.by]
  <2>1. a \in Seq(Word) /\ CommandOf(a) = "backup"
    BY DEF TypeInv, TypeOK, ProcessTypes, MadeInv
  <2>2. b.what = BackupOf(a).does /\ b.what[1] = "backup"
    BY <2>1, BackupCode DEF MadeInv
  <2> HIDE DEF a
  <2>3. Asked(a, b.what)
    BY <2>2, BackupCases, NoBackup
  <2>4. Obeys(a, b.what)
    BY <2>1, <2>3, AskedIsObeyed
  <2> QED
    BY <2>4 DEF a
<1> QED
  BY <1>1, TypeInvariant, MadeInvariant, PTL

-----------------------------------------------------------------------------
(* The key.                                                                *)

(* post.sh changes the key only from not there to empty and from empty to  *)
(* the new one.                                                            *)
LEMMA KeyStep ==
    ASSUME TypeInv, KeyInv, [Next]_vars
    PROVE  \/ UNCHANGED key /\ (step' = "echo_key" => step = "echo_key")
           \/ OpenKey \/ WriteKey
<1>1. CASE Post
  BY <1>1 DEF Post, Install, OpenOptions, WriteOptions, OpenConnection, WriteConnection,
              AdaptParallel, AdaptHostname, Interrupt, files
<1>2. CASE Edit
  BY <1>2 DEF Edit, script
<1>3. ASSUME NEW p \in Invocation, Pdb(p)
      PROVE  UNCHANGED <<key, step>>
  BY <1>3 DEF Pdb, Main, ReadConnection, ReadOptions, Branch, Restore, Shell, Catch, files,
              script
<1>4. CASE UNCHANGED vars
  BY <1>4 DEF vars, files, script
<1> QED
  BY <1>1, <1>2, <1>3, <1>4 DEF Next

LEMMA KeyNext == TypeInv /\ KeyInv /\ [Next]_vars => KeyInv'
<1> SUFFICES ASSUME TypeInv, KeyInv, [Next]_vars PROVE KeyInv'
  OBVIOUS
<1>1. CASE OpenKey
  <2>1. UNCHANGED backups
    BY <1>1 DEF OpenKey
  <2>2. CASE key = Absent
    BY <1>1, <2>1, <2>2 DEF OpenKey, KeyInv
  <2>3. CASE key # Absent
    BY <1>1, <2>1, <2>3 DEF OpenKey, KeyInv
  <2> QED
    BY <2>2, <2>3
<1>2. CASE WriteKey
  BY <1>2 DEF WriteKey, KeyInv
<1>3. CASE UNCHANGED key /\ (step' = "echo_key" => step = "echo_key")
  <2>1. \A b \in backups' : b.key = key
    BY BackupsStep DEF KeyInv
  <2>2. key \in {Absent, 0} => backups' = {}
    BY BackupsStep DEF KeyInv
  <2> QED
    BY <1>3, <2>1, <2>2 DEF KeyInv
<1> QED
  BY <1>1, <1>2, <1>3, KeyStep

(* The key that is there opens every backup.                               *)
THEOREM KeyOpensBackups == Spec => []BackupsCanBeDecrypted
<1>1. Init => KeyInv
  BY DEF Init, KeyInv
<1>2. KeyInv => BackupsCanBeDecrypted
  BY DEF KeyInv, BackupsCanBeDecrypted
<1> QED
  BY <1>1, <1>2, KeyNext, TypeInvariant, PTL DEF Spec

-----------------------------------------------------------------------------
(* The configuration.                                                      *)

(* What went wrong is never forgotten.                                     *)
LEMMA FaultsStay ==
    ASSUME TypeInv, [Next]_vars, faults' = 0
    PROVE  faults = 0
<1>1. CASE Post
  <2>1. UNCHANGED faults \/ faults' = faults + 1
    BY <1>1 DEF Post, Install, OpenOptions, WriteOptions, OpenConnection, WriteConnection,
                OpenKey, WriteKey, AdaptParallel, AdaptHostname, Interrupt, Fault
  <2> QED
    BY <2>1 DEF TypeInv, TypeOK, FileTypes
<1>2. CASE Edit
  BY <1>2 DEF Edit
<1>3. ASSUME NEW p \in Invocation, Pdb(p)
      PROVE  UNCHANGED faults
  BY <1>3 DEF Pdb, Main, ReadConnection, ReadOptions, Branch, Restore, Shell, Catch
<1>4. CASE UNCHANGED vars
  BY <1>4 DEF vars
<1> QED
  BY <1>1, <1>2, <1>3, <1>4 DEF Next

(* post.sh and the administrator, when nothing goes wrong.                 *)
LEMMA ConfigStep ==
    ASSUME TypeInv, FilesInv, ParallelInv, NameInv, Post \/ Edit, faults = 0, faults' = 0
    PROVE  /\ FilesInv' /\ ParallelInv' /\ NameInv'
           /\ installed => installed'
<1>1. CASE Install
  <2>1. FilesInv' /\ (installed => installed')
    BY <1>1 DEF FilesInv, Install, machine, files, script, Absent
  <2>2. ParallelInv'
    BY <1>1 DEF FilesInv, ParallelInv, Half, Install, machine, files, script
  <2>3. NameInv'
    BY <1>1 DEF FilesInv, NameInv, Install, machine, files, script
  <2> QED
    BY <2>1, <2>2, <2>3
<1>2. CASE OpenOptions
  <2>1. UNCHANGED <<sockets, longer, db, installed, edited>> /\ step = "options"
    BY <1>2 DEF OpenOptions, machine
  <2>2. CASE inno.lines = Absent
    <3>1. ~installed /\ edited = Absent
      BY <2>2 DEF FilesInv, ParallelInv, Absent
    <3>2. inno'.lines = 0 /\ inno'.host = 0 /\ step' = "cat_options"
      BY <1>2, <2>2 DEF OpenOptions
    <3> QED
      BY <2>1, <3>1, <3>2 DEF FilesInv, ParallelInv, NameInv
  <2>3. CASE inno.lines # Absent
    <3>1. UNCHANGED inno /\ step' = "connection"
      BY <1>2, <2>3 DEF OpenOptions
    <3> QED
      BY <2>1, <2>3, <3>1 DEF FilesInv, ParallelInv, NameInv, Half
  <2> QED
    BY <2>2, <2>3
<1>3. CASE WriteOptions
  <2>1. /\ UNCHANGED <<sockets, longer, db, installed, edited>>
        /\ step = "cat_options" /\ step' = "connection" /\ inno' = Template
    BY <1>3 DEF WriteOptions, machine, Fault
  <2>2. ~installed /\ edited = Absent
    BY <2>1 DEF FilesInv, ParallelInv
  <2>3. inno'.lines = 9 /\ inno'.parallel = 4 /\ inno'.host = 0
    BY <2>1 DEF Template
  <2> QED
    BY <2>1, <2>2, <2>3 DEF FilesInv, ParallelInv, NameInv
<1>4. CASE OpenConnection
  <2>1. FilesInv' /\ (installed => installed')
    BY <1>4 DEF FilesInv, OpenConnection, machine, files, script, Absent
  <2>2. ParallelInv'
    BY <1>4 DEF FilesInv, ParallelInv, Half, OpenConnection, machine, files, script
  <2>3. NameInv'
    BY <1>4 DEF FilesInv, NameInv, OpenConnection, machine, files, script
  <2> QED
    BY <2>1, <2>2, <2>3
<1>5. CASE WriteConnection
  <2>1. FilesInv' /\ (installed => installed')
    BY <1>5 DEF FilesInv, WriteConnection, Fault, machine, files, script, Absent
  <2>2. ParallelInv'
    BY <1>5 DEF FilesInv, ParallelInv, Half, WriteConnection, Fault, machine, files, script
  <2>3. NameInv'
    BY <1>5 DEF FilesInv, NameInv, WriteConnection, Fault, machine, files, script
  <2> QED
    BY <2>1, <2>2, <2>3
<1>6. CASE OpenKey
  <2>1. FilesInv' /\ (installed => installed')
    BY <1>6 DEF FilesInv, OpenKey, machine, files, script, Absent
  <2>2. ParallelInv'
    BY <1>6 DEF FilesInv, ParallelInv, Half, OpenKey, machine, files, script
  <2>3. NameInv'
    BY <1>6 DEF FilesInv, NameInv, OpenKey, machine, files, script
  <2> QED
    BY <2>1, <2>2, <2>3
<1>7. CASE WriteKey
  <2>1. FilesInv' /\ (installed => installed')
    BY <1>7 DEF FilesInv, WriteKey, Fault, machine, files, script, Absent
  <2>2. ParallelInv'
    BY <1>7 DEF FilesInv, ParallelInv, Half, WriteKey, Fault, machine, files, script
  <2>3. NameInv'
    BY <1>7 DEF FilesInv, NameInv, WriteKey, Fault, machine, files, script
  <2> QED
    BY <2>1, <2>2, <2>3
<1>8. CASE AdaptParallel
  <2>1. /\ UNCHANGED <<sockets, longer, db, installed, edited>>
        /\ step = "parallel" /\ step' = "hostname"
        /\ inno' = IF inno.lines \in 2 .. 9
                   THEN [inno EXCEPT !.parallel = Adapted(inno.parallel)] ELSE inno
    BY <1>8 DEF AdaptParallel, machine, Fault
  <2>2. inno.lines = 9
    BY <2>1 DEF FilesInv
  <2>3. inno' = [inno EXCEPT !.parallel = Adapted(inno.parallel)]
    BY <2>1, <2>2
  <2>4. /\ inno'.lines = 9 /\ inno'.parallel = Adapted(inno.parallel)
        /\ inno'.host = inno.host
    BY <2>2, <2>3 DEF TypeInv, TypeOK, FileTypes
  <2>5. FilesInv' /\ NameInv'
    BY <2>1, <2>4 DEF FilesInv, NameInv
  <2>6. ParallelInv'
    <3>1. CASE edited = Absent
      <4>1. inno.parallel \in {4, Half} \/ LikeTemplate(Half)
        BY <2>2, <3>1 DEF ParallelInv
      <4>2. inno'.parallel = Half \/ LikeTemplate(Half)
        BY <2>4, <4>1, AdaptedValue DEF TypeInv, TypeOK
      <4> QED
        BY <2>1, <3>1, <4>2 DEF ParallelInv, Half
    <3>2. CASE edited # Absent
      <4>1. inno.parallel = edited \/ LikeTemplate(edited)
        BY <3>2 DEF ParallelInv
      <4>2. inno'.parallel = edited \/ LikeTemplate(edited)
        BY <2>4, <4>1, AdaptedValue DEF TypeInv, TypeOK, FileTypes
      <4> QED
        BY <2>1, <2>4, <3>2, <4>2 DEF ParallelInv
    <3> QED
      BY <3>1, <3>2
  <2> QED
    BY <2>1, <2>5, <2>6
<1>9. CASE AdaptHostname
  <2>1. /\ UNCHANGED <<sockets, longer, db, edited>> /\ installed'
        /\ step = "hostname" /\ step' = "idle"
        /\ inno' = IF inno.lines = 9 THEN [inno EXCEPT !.host = Renamed(inno.host)] ELSE inno
    <3>1. ~Fault
      BY DEF Fault
    <3>2. installed' = (installed \/ faults = 0)
      BY <1>9, <3>1 DEF AdaptHostname
    <3>3. installed'
      BY <3>2
    <3> QED
      BY <1>9, <3>1, <3>3 DEF AdaptHostname, machine
  <2>2. inno.lines = 9 /\ db = 5
    BY <2>1 DEF FilesInv
  <2>3. inno' = [inno EXCEPT !.host = Renamed(inno.host)]
    BY <2>1, <2>2
  <2>4. /\ inno'.lines = 9 /\ inno'.parallel = inno.parallel
        /\ inno'.host = Renamed(inno.host)
    BY <2>2, <2>3 DEF TypeInv, TypeOK, FileTypes
  <2>5. FilesInv'
    BY <2>1, <2>2, <2>4 DEF FilesInv
  <2>6. ParallelInv'
    BY <2>1, <2>2, <2>4 DEF ParallelInv, Half
  <2>7. NameInv'
    BY <2>1, <2>4 DEF NameInv, Renamed
  <2> QED
    BY <2>1, <2>5, <2>6, <2>7
<1>10. CASE Interrupt
  BY <1>10 DEF Interrupt, Fault
<1>11. CASE Edit
  <2>1. PICK n \in Edits : inno' = [inno EXCEPT !.parallel = n] /\ edited' = n
    BY <1>11 DEF Edit
  <2>2. inno'.lines = 9 /\ inno'.parallel = edited' /\ inno'.host = inno.host
    BY <1>11, <2>1 DEF Edit, TypeInv, TypeOK, FileTypes
  <2>3. inno.lines = 9 /\ edited' # Absent
        /\ UNCHANGED <<sockets, longer, db, step, installed>>
    BY <1>11, <2>1, ValueAssumption DEF Edit, machine, script, Absent
  <2> QED
    BY <2>2, <2>3 DEF FilesInv, ParallelInv, NameInv
<1> QED
  BY <1>1, <1>2, <1>3, <1>4, <1>5, <1>6, <1>7, <1>8, <1>9, <1>10, <1>11 DEF Post

(* What invocations read while the files stay as they are.                 *)
LEMMA ReadStep ==
    ASSUME NEW p \in Invocation, TypeInv, FilesInv, ReadInv, Pdb(p), UNCHANGED installed
    PROVE  ReadInv'
<1> SUFFICES ASSUME NEW q \in Invocation, ~early'[q]
             PROVE  /\ installed /\ conn'[q] = 5
                    /\ pc'[q] = "branch"
                       => /\ opts'[q].lines = 9
                          /\ opts'[q].threads = 2 * opts'[q].parallel
  BY DEF ReadInv
<1>1. CASE ReadConnection(p)
  <2>1. CASE q = p
    <3>1. early'[q] = ~installed /\ conn'[q] = IF db = Absent THEN 0 ELSE db
      BY <1>1, <2>1 DEF ReadConnection, TypeInv, TypeOK, ProcessTypes
    <3>2. pc'[q] # "branch"
      BY <1>1, <2>1 DEF ReadConnection, TypeInv, TypeOK, ProcessTypes, CommandInv
    <3>3. installed
      BY <3>1
    <3>4. db = 5
      BY <3>3 DEF FilesInv
    <3> QED
      BY <3>1, <3>2, <3>3, <3>4 DEF Absent
  <2>2. CASE q # p
    BY <1>1, <2>2 DEF ReadConnection, TypeInv, TypeOK, ProcessTypes, ReadInv
  <2> QED
    BY <2>1, <2>2
<1>2. CASE ReadOptions(p)
  <2>1. UNCHANGED <<early, conn>> /\ ~early[q]
    BY <1>2 DEF ReadOptions
  <2>2. CASE q = p
    <3>1. inno.lines = 9 /\ inno.parallel \in Nat
      BY <2>1 DEF FilesInv, ReadInv, TypeInv, TypeOK, FileTypes
    <3>2. opts'[q] = [lines |-> 9, parallel |-> inno.parallel,
                      threads |-> 2 * inno.parallel]
      BY <1>2, <2>2, <3>1 DEF ReadOptions, TypeInv, TypeOK, ProcessTypes, Absent
    <3> QED
      BY <2>1, <3>2 DEF ReadInv
  <2>3. CASE q # p
    BY <1>2, <2>1, <2>3 DEF ReadOptions, TypeInv, TypeOK, ProcessTypes, ReadInv
  <2> QED
    BY <2>2, <2>3
<1>3. CASE Main(p) \/ Branch(p) \/ Restore(p) \/ Shell(p) \/ Catch(p)
  <2>1. UNCHANGED <<early, conn, opts>>
    BY <1>3 DEF Main, Branch, Restore, Shell, Catch
  <2>2. \E at \in {"done", "connection"} : pc' = [pc EXCEPT ![p] = at]
    BY <1>3 DEF Main, Branch, Restore, Shell, Catch, Ends
  <2>3. pc'[q] = "branch" => pc[q] = "branch"
    BY <2>2 DEF TypeInv, TypeOK, ProcessTypes
  <2> QED
    BY <2>1, <2>3 DEF ReadInv
<1> QED
  BY <1>1, <1>2, <1>3 DEF Pdb

LEMMA ConfigNext == TypeInv /\ ConfigInv /\ [Next]_vars => ConfigInv'
<1> SUFFICES ASSUME TypeInv, ConfigInv, [Next]_vars, faults' = 0
             PROVE  FilesInv' /\ ReadInv' /\ ParallelInv' /\ NameInv'
  BY DEF ConfigInv
<1>1. faults = 0
  BY FaultsStay
<1>2. FilesInv /\ ReadInv /\ ParallelInv /\ NameInv
  BY <1>1 DEF ConfigInv
<1>3. CASE Post \/ Edit
  <2>1. FilesInv' /\ ParallelInv' /\ NameInv' /\ (installed => installed')
    BY <1>1, <1>2, <1>3, ConfigStep
  <2>2. UNCHANGED process
    BY <1>3, FileStep DEF TypeInv, TypeOK
  <2>3. ReadInv'
    BY <1>2, <2>1, <2>2 DEF ReadInv, process
  <2> QED
    BY <2>1, <2>3
<1>4. ASSUME NEW p \in Invocation, Pdb(p)
      PROVE  FilesInv' /\ ReadInv' /\ ParallelInv' /\ NameInv'
  <2>1. UNCHANGED <<machine, files, script, edited>>
    BY <1>4 DEF Pdb, Main, ReadConnection, ReadOptions, Branch, Restore, Shell, Catch
  <2>2. FilesInv' /\ ParallelInv' /\ NameInv'
    BY <1>2, <2>1 DEF FilesInv, ParallelInv, NameInv, Half, machine, files, script
  <2>3. ReadInv'
    BY <1>2, <1>4, <2>1, ReadStep DEF script
  <2> QED
    BY <2>2, <2>3
<1>5. CASE UNCHANGED vars
  BY <1>2, <1>5 DEF FilesInv, ReadInv, ParallelInv, NameInv, Half, vars, machine, files,
                    script, process
<1> QED
  BY <1>3, <1>4, <1>5 DEF Next

LEMMA ConfigInvariant == Spec => []ConfigInv
<1>1. Init => ConfigInv
  BY DEF Init, ConfigInv, FilesInv, ReadInv, ParallelInv, NameInv, Absent
<1> QED
  BY <1>1, ConfigNext, TypeInvariant, PTL DEF Spec

(* After an installation that went through, and with nothing gone wrong,   *)
(* an invocation has read complete files when it makes its backup.         *)
THEOREM CompleteConfiguration == Spec => []ConfigurationIsComplete
<1>1. ConfigInv => ConfigurationIsComplete
  BY DEF ConfigInv, ReadInv, ConfigurationIsComplete
<1> QED
  BY <1>1, ConfigInvariant, PTL

(* Upgrades leave the configuration alone but for values that look like    *)
(* the template's.                                                         *)
THEOREM UpgradesKeep == Spec => []UpgradesKeepTheConfiguration
<1>1. ConfigInv => UpgradesKeepTheConfiguration
  BY DEF ConfigInv, FilesInv, ParallelInv, NameInv,
         UpgradesKeepTheConfiguration
<1> QED
  BY <1>1, ConfigInvariant, PTL
=============================================================================
