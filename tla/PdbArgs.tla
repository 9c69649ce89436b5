-------------------------------- MODULE PdbArgs --------------------------------
(***************************************************************************)
(* What pdb makes of its arguments: the dispatch of main() and, per        *)
(* command, the branches of its handler down to what is done and the code  *)
(* that is returned.                                                       *)
(*                                                                         *)
(* A command line is the sequence of argv[1], argv[2], ...: args[i] is     *)
(* para[i].content and Len(args) is argclen.  Words are compared by        *)
(* strstr(), in one direction or the other, so all that is known of them   *)
(* is which one is within which.                                           *)
(***************************************************************************)
EXTENDS Naturals, Sequences

CONSTANTS
    Word,          \* the words that occur in command lines, keywords among them
    Within(_, _)   \* Within(v, w): v is a substring of w: strstr(w, v) finds it

Keyword == {"backup", "restore", "list", "shell", "catch", "help", "version",
            "all", "db", "database", "full", "incremental", "offline", "online",
            "compress", "to", "into", "from", "history", "begin", "end",
            "deadlock", "slowquery", "enable", "disable"}

Empty == ""

ASSUME WordAssumption   == Keyword \cup {Empty} \subseteq Word
ASSUME WithinAssumption ==
    /\ \A v, w \in Word : Within(v, w) \in BOOLEAN
    /\ \A w \in Word : Within(w, w) /\ Within(Empty, w)

(* Of the keywords, only "to" is part of other ones.                       *)
ASSUME KeywordAssumption ==
    \A v, w \in Keyword :
        Within(v, w) <=> \/ v = w
                         \/ v = "to" /\ w \in {"into", "restore", "history"}

(* The two ways in which the code calls strstr(): the word abbreviates the *)
(* keyword, as the empty word does with every one; the word contains the   *)
(* keyword.                                                                *)
Abbrev(w, keyword)   == Within(w, keyword)
Contains(w, keyword) == Within(keyword, w)

-----------------------------------------------------------------------------
(* What a command line leads to: [does, code], where does is a tuple whose *)
(* first component names the work.                                         *)

(* Defect: the help is printed and the code forgotten.                     *)
RefusedWithZero(code) == [does |-> <<"help">>, code |-> 0]

Refused(code) == [does |-> <<"help">>, code |-> code]
Served(what)  == [does |-> what, code |-> 0]

(* Defect: --incremental is left out of the command line.                  *)
BackupInFull(scope, kind, how) == Served(<<"backup", scope, "full", how>>)

Backup(scope, kind, how) == Served(<<"backup", scope, kind, how>>)

(* "Please backup db manual"                                               *)
Offline == Served(<<"offline">>)

(* A condition whose else branch prints the help and returns a code; the   *)
(* conditions are nested, so that the outermost that fails decides.        *)
Past(test, code, inside) == IF test THEN inside ELSE Refused(code)

(* pdb backup all {full {offline | online} | incremental online} to <dir>. *)
(* The offline form tests the word "to" for being empty, which passes for  *)
(* an abbreviation.                                                        *)
SixWords(scope, kind, mode, to, dir) ==
    Past(Abbrev(scope, "all"), 260,
         IF Abbrev(kind, "full") /\ Abbrev(mode, "offline")
         THEN Past(Abbrev(to, "to"), 262, Past(to # Empty, 261, Offline))
         ELSE IF Abbrev(kind, "full")
         THEN Past(Abbrev(mode, "online"), 265, Past(Abbrev(to, "to"), 264,
              Past(dir # Empty, 263, Backup("all", "full", "plain"))))
         ELSE Past(Abbrev(kind, "incremental"), 269, Past(Abbrev(mode, "online"), 268,
              Past(Abbrev(to, "to"), 267, Past(dir # Empty, 266,
              Backup("all", "incremental", "plain"))))))

(* Whether the second word asks for one database, and whether the third    *)
(* can be its name.                                                        *)
OneDatabase(scope) == Contains(scope, "database") \/ Contains(scope, "db")
NamesDatabase(name) ==
    /\ \E k \in {"full", "incremental", "online", "to"} : ~Abbrev(name, k)
    /\ name # Empty

(* pdb backup db <name> {full | incremental} online to <dir>: here the     *)
(* words must contain the keywords.                                        *)
SevenWordsDb(name, kind, mode, to, dir) ==
    LET rest(k) == Past(Contains(mode, "online"), 275, Past(Contains(to, "to"), 274,
                   Past(dir # Empty, 273, Backup("db", k, "plain"))))
    IN  Past(NamesDatabase(name), 278,
             IF Contains(kind, "full") THEN rest("full")
             ELSE Past(Contains(kind, "incremental"), 276, rest("incremental")))

(* pdb backup all {full {offline | online} | incremental online} compress  *)
(* to <dir>.                                                               *)
SevenWordsAll(scope, kind, mode, compress, to, dir) ==
    LET rest(no_compress, no_to, no_dir, outcome) ==
            Past(Abbrev(compress, "compress"), no_compress, Past(Abbrev(to, "to"), no_to,
            Past(dir # Empty, no_dir, outcome)))
    IN  Past(Abbrev(scope, "all"), 2716,
             IF Abbrev(kind, "full") /\ Abbrev(mode, "offline")
             THEN rest(2711, 2710, 279, Offline)
             ELSE IF Abbrev(kind, "full")
             THEN Past(Abbrev(mode, "online"), 2715,
                       rest(2714, 2713, 2712, Backup("all", "full", "compress")))
             ELSE Past(Abbrev(kind, "incremental"), 2716, Past(Abbrev(mode, "online"), 2717,
                       rest(2718, 2719, 2720, Backup("all", "incremental", "compress")))))

(* pdb backup db <name> {full | incremental} online compress to <dir>.     *)
EightWords(scope, name, kind, mode, compress, to, dir) ==
    Past(OneDatabase(scope), 2817, Past(NamesDatabase(name), 2816,
         IF Contains(kind, "full")
         THEN Past(Contains(mode, "online"), 285, Past(Contains(compress, "compress"), 284,
              Past(Abbrev(to, "to"), 283, Past(dir # Empty, 285,
              Backup("db", "full", "compress")))))
         ELSE Past(Contains(kind, "incremental"), 2814, Past(Abbrev(mode, "online"), 2813,
              Past(Abbrev(compress, "compress"), 2812, Past(Abbrev(to, "to"), 2811,
              Past(dir # Empty, 2810, Backup("db", "incremental", "compress"))))))))

(* backup_database                                                         *)
BackupOf(a) ==
    IF Len(a) \in 2 .. 5 THEN Refused(220 + 10 * (Len(a) - 2))
    ELSE IF Len(a) = 6 THEN SixWords(a[2], a[3], a[4], a[5], a[6])
    ELSE IF Len(a) = 7 /\ OneDatabase(a[2]) THEN SevenWordsDb(a[3], a[4], a[5], a[6], a[7])
    ELSE IF Len(a) = 7 THEN SevenWordsAll(a[2], a[3], a[4], a[5], a[6], a[7])
    ELSE IF Len(a) = 8 THEN EightWords(a[2], a[3], a[4], a[5], a[6], a[7], a[8])
    ELSE [does |-> <<"nothing">>, code |-> 29]

(* restore_database: "into" after the id, or "from" and "into"; an unknown *)
(* id is found out later.                                                  *)
RestoreOf(a) ==
    IF Len(a) = 4
    THEN Past(Abbrev(a[3], "into") /\ a[4] # Empty, 0, Served(<<"restore">>))
    ELSE IF Len(a) = 6
    THEN Past(Abbrev(a[3], "from") /\ a[4] # Empty /\ Abbrev(a[5], "into") /\ a[6] # Empty, 0,
              Served(<<"restore">>))
    ELSE IF Len(a) \in {2, 3, 5} THEN Refused(0)
    ELSE Served(<<"nothing">>)

(* list_backup_history: all rows, those after a time, those between two.   *)
ListOf(a) ==
    LET says(i, w) == i <= Len(a) /\ Abbrev(a[i], w)
        asked == /\ says(1, "list") /\ says(2, "history") /\ says(3, "backup")
                 /\ Len(a) >= 5 => says(4, "begin") /\ a[5] # Empty
                 /\ Len(a) = 7 => says(6, "end") /\ a[7] # Empty
    IN  IF Len(a) \notin 1 .. 7 THEN Served(<<"nothing">>)
        ELSE IF Len(a) \in {3, 5, 7} /\ asked THEN Served(<<"list">>)
        ELSE Refused(0)

(* catch_function: SET GLOBAL of one of four variables.  The words are     *)
(* compared by strcmp().                                                   *)
CatchOf(a) ==
    LET switches == IF Len(a) = 3 /\ a[3] \in {"enable", "disable"} THEN a[2] ELSE Empty
        directs  == IF Len(a) = 4 /\ a[3] = "to" /\ a[4] # Empty THEN a[2] ELSE Empty
    IN  IF switches = "deadlock"
        THEN Served(<<"set", "innodb_print_all_deadlocks", a[3]>>)
        ELSE IF switches = "slowquery" THEN Served(<<"set", "slow_query_log", a[3]>>)
        ELSE IF directs = "deadlock" THEN Served(<<"set", "deadlock_log_path", a[4]>>)
        ELSE IF directs = "slowquery" THEN Served(<<"set", "slow_query_log_file", a[4]>>)
        ELSE Refused(0)

-----------------------------------------------------------------------------
(* main(): the first command whose name the first word is part of.         *)

Commands == <<"backup", "restore", "list", "shell", "catch", "help", "version">>

CommandOf(a) ==
    LET fits == {i \in DOMAIN Commands : Abbrev(a[1], Commands[i])}
    IN  IF fits = {} THEN "none"
        ELSE Commands[CHOOSE i \in fits : \A j \in fits : i <= j]

OutcomeOf(a) ==
    LET command == CommandOf(a)
    IN  IF command = "backup" THEN BackupOf(a)
        ELSE IF command = "restore" THEN RestoreOf(a)
        ELSE IF command = "list" THEN ListOf(a)
        ELSE IF command = "shell" THEN Served(<<"shell">>)
        ELSE IF command = "catch" THEN CatchOf(a)
        ELSE IF command = "help" THEN Refused(0)
        ELSE Served(<<"nothing">>)

(* Defect: the whole number.                                               *)
WholeStatus(n) == n

(* exit(n) hands the low eight bits to the parent.                         *)
ExitStatus(n) == n % 256
================================================================================
