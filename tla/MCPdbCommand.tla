----------------------------- MODULE MCPdbCommand -----------------------------
EXTENDS PdbCommand, FiniteSets

MCWord == Keyword \cup {"", "o", "l", "e", "x"}

(* The short words, and "to", are part of these.                           *)
MCWithin(v, w) ==
    \/ v = w \/ v = ""
    \/ /\ v = "o"
       /\ w \in {"restore", "version", "offline", "online", "compress", "to", "into",
                "from", "history", "deadlock", "slowquery"}
    \/ /\ v = "l"
       /\ w \in {"list", "shell", "help", "all", "full", "incremental", "offline",
                "online", "deadlock", "slowquery", "enable", "disable"}
    \/ /\ v = "e"
       /\ w \in {"restore", "shell", "help", "version", "database", "incremental",
                "offline", "online", "compress", "begin", "end", "deadlock",
                "slowquery", "enable", "disable"}
    \/ v = "to" /\ w \in {"restore", "into", "history"}

Forms == {<<"backup", "all", "full", "offline", "to", "x">>,
          <<"backup", "all", "full", "online", "to", "x">>,
          <<"backup", "all", "incremental", "online", "to", "x">>,
          <<"backup", "all", "full", "offline", "compress", "to", "x">>,
          <<"backup", "all", "full", "online", "compress", "to", "x">>,
          <<"backup", "all", "incremental", "online", "compress", "to", "x">>,
          <<"backup", "db", "x", "full", "online", "to", "x">>,
          <<"backup", "db", "x", "incremental", "online", "to", "x">>,
          <<"backup", "database", "x", "full", "online", "compress", "to", "x">>,
          <<"backup", "db", "x", "incremental", "online", "compress", "to", "x">>,
          <<"restore", "x", "into", "x">>,
          <<"list", "history", "backup", "begin", "x", "end", "x">>,
          <<"shell">>, <<"version">>, <<"help">>,
          <<"catch", "deadlock", "enable">>,
          <<"catch", "slowquery", "to", "x">>}

(* One word of a form is another word, or its end is missing.              *)
Mistaken == UNION {{[f EXCEPT ![i] = w] : i \in DOMAIN f, w \in MCWord} : f \in Forms}
Cut      == UNION {{SubSeq(f, 1, n) : n \in 0 .. Len(f)} : f \in Forms}

MCInvocation == {"cron", "operator"}
MCArgLists ==
    [p \in MCInvocation |->
        IF p = "cron" THEN {<<"backup", "all", "full", "online", "to", "x">>}
        ELSE Mistaken \cup Cut]

(* The many command lines are run after one installation, at rest; the     *)
(* interleavings with installations, edits and another invocation are      *)
(* those of a few.                                                         *)
Plain == {<<"backup", "all", "full", "online", "to", "x">>,
          <<"backup", "all", "incremental", "online", "compress", "to", "x">>,
          <<"catch", "deadlock", "enable">>}

OddCommandsAtRest ==
    args["operator"] \notin Plain
    => /\ installs <= 1 /\ faults = 0 /\ edited = Absent
       /\ pc["cron"] = "start"
       /\ pc["operator"] # "start" => step = "idle"
================================================================================
