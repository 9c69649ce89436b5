---------------------------- MODULE MCPdbRestore ----------------------------
(***************************************************************************)
(* Instances of PdbRestore for TLC.                                        *)
(***************************************************************************)
EXTENDS PdbRestore, TLC

CONSTANTS p1, p2, r1, r2

Symmetry == Permutations({p1, p2}) \cup Permutations({r1, r2})

(* A full backup and an incremental one, compressed, in one directory.     *)
Commands ==
    {[scope |-> "all", kind |-> kind, compress |-> TRUE, dir |-> "d1"] : kind \in Kind}
=============================================================================
