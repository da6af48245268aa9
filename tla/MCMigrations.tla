---------------------------- MODULE MCMigrations ----------------------------
(***************************************************************************)
(* Instances of Migrations for TLC.                                        *)
(***************************************************************************)
EXTENDS Migrations, TLC

CONSTANTS p1, p2, p3

\* Two processes of the current binary and one of the version before it.
Upgrading == (p1 :> 3) @@ (p2 :> 3) @@ (p3 :> 2)

=============================================================================
