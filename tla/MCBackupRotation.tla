-------------------------- MODULE MCBackupRotation --------------------------
(***************************************************************************)
(* Instances of BackupRotation for TLC.                                    *)
(***************************************************************************)
EXTENDS BackupRotation, TLC

CONSTANTS b1, b2, c1, c2

Symmetry == {p @@ q : p \in Permutations({b1, b2}), q \in Permutations({c1, c2})}

(* Two compressions at once are looked at while there is one backup only.  *)
OneOfAKind ==
    \/ Cardinality({c \in Compressor : cpc[c] # "idle"}) <= 1
    \/ Cardinality({r \in Run : bpc[r] # "idle"}) <= 1
=============================================================================
