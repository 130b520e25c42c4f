---------------------------- MODULE MCConnection ----------------------------
(* Connection on small instances for TLC. *)
EXTENDS Connection

CONSTANTS here, there

MCOne == {here}
MCTwo == {here, there}
=============================================================================
