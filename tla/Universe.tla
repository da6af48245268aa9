------------------------------ MODULE Universe ------------------------------
(***************************************************************************)
(* The values the components share: deployment ids and process ids.        *)
(***************************************************************************)

CONSTANTS
  Id,       \* deployment ids
  NoId,     \* no deployment
  Pid,      \* process ids
  NoPid     \* the recorded value pid = 0

ASSUME UniverseAssumption == NoId \notin Id /\ NoPid \notin Pid

=============================================================================
