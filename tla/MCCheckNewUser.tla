--------------------------- MODULE MCCheckNewUser ---------------------------
(***************************************************************************)
(* Instance of CheckNewUser for TLC: a user whom nothing hinders, one with *)
(* an apostrophe in the address, and one whom the mail does not show.      *)
(***************************************************************************)
EXTENDS CheckNewUser

CONSTANTS u1, u2, u3, r1, r2
=============================================================================
