---------------------------- MODULE BackupCatalog ----------------------------
(***************************************************************************)
(* What hisdb, the sqlite file of `pdb`, promises to `pdb list` and to     *)
(* `pdb restore`: the table t_xtra_backup_metadata is a history.  A row is *)
(* added at the end and is never changed or removed; its log sequence      *)
(* numbers delimit a range of the redo log; and if it names a backup it is *)
(* based on, that backup is a full one the table recorded before it, or    *)
(* the row's own (which is how `pdb` writes down that it found no base).   *)
(*                                                                         *)
(* PdbBackup implements this specification: see PdbBackup!CatalogSpec.     *)
(***************************************************************************)
EXTENDS Naturals, Sequences

CONSTANT Null \* an empty column

VARIABLE rows \* the rows of t_xtra_backup_metadata in the order of their id

(* The names of the full backups among the rows of the table.              *)
FullNames == {rows[i].name : i \in {j \in 1 .. Len(rows) :
                                        rows[j].type = "full-backuped"}}

(* Any row may be added that is a range and is based on a known backup.    *)
Acceptable(row) ==
    /\ row.from <= row.to
    /\ row.baseon \in {Null, row.name} \cup FullNames

(* The row is what stands at the end of the new table: an operator of the  *)
(* next state, so that no set of all rows need be enumerated.              *)
Record ==
    LET row == rows'[Len(rows) + 1]
    IN  /\ Len(rows') = Len(rows) + 1
        /\ rows' = Append(rows, row)
        /\ Acceptable(row)

Init == rows = << >>

Spec == Init /\ [][Record]_rows
=============================================================================
