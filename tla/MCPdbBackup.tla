---------------------------- MODULE MCPdbBackup ----------------------------
(***************************************************************************)
(* Instances of PdbBackup for TLC.                                         *)
(***************************************************************************)
EXTENDS PdbBackup, TLC

CONSTANTS p1, p2, p3

Symmetry2 == Permutations({p1, p2})
Symmetry3 == Permutations({p1, p2, p3})

Cmd(scope, kind, compress, dir) ==
    [scope |-> scope, kind |-> kind, compress |-> compress, dir |-> dir]

(* One kind of each: a full backup, an incremental one next to it, and an  *)
(* incremental one of one database, compressed, elsewhere.                 *)
FaultyCommands == {Cmd("all", "full", FALSE, "d1"),
                   Cmd("all", "incremental", FALSE, "d1"),
                   Cmd("db", "incremental", TRUE, "d2")}

(* Full and incremental backups of the whole server into one directory.    *)
PlainCommands == {Cmd("all", "full", FALSE, "d1"),
                  Cmd("all", "incremental", FALSE, "d1")}

(* The incremental backups go to another disk.                             *)
TwoDiskCommands == {Cmd("all", "full", FALSE, "d1"),
                    Cmd("all", "incremental", FALSE, "d2")}
=============================================================================
