------------------------------- MODULE Schema -------------------------------
(***************************************************************************)
(* What the state database promises about its schema: it is built by the   *)
(* known migrations, one at a time and in their order, and never goes back.*)
(***************************************************************************)
EXTENDS Naturals

CONSTANT Top   \* the number of migrations the newest binary knows

VARIABLES
  applied,  \* the migrations whose effect the schema has
  version   \* PRAGMA user_version

Init == applied = {} /\ version = 0

Migrate ==
  /\ version < Top
  /\ version' = version + 1
  /\ applied' = applied \cup {version + 1}

Spec == Init /\ [][Migrate]_<<applied, version>>

=============================================================================
