------------------------------- MODULE Phases -------------------------------
(***************************************************************************)
(* The deployment state machine of internal/state/machine.go: the phases a *)
(* deployment record goes through, the table of legal edges and the check  *)
(* every phase change of the store passes through.                         *)
(***************************************************************************)

\* No record of this deployment in the database.
Absent == "ABSENT"

Phase == {"REQUESTED", "VALIDATING", "DOWNLOADING", "STARTING", "HEALTHY",
          "REGISTERING", "READY", "UNREGISTERED_HEALTHY", "FAILED",
          "CRASHED", "DESTROYING", "DESTROYED"}

transitions ==
  [REQUESTED            |-> {"VALIDATING"},
   VALIDATING           |-> {"DOWNLOADING"},
   DOWNLOADING          |-> {"STARTING"},
   STARTING             |-> {"HEALTHY"},
   HEALTHY              |-> {"REGISTERING"},
   REGISTERING          |-> {"READY", "UNREGISTERED_HEALTHY"},
   UNREGISTERED_HEALTHY |-> {"REGISTERING", "DESTROYING"},
   READY                |-> {"DESTROYING"},
   FAILED               |-> {"DESTROYING"},
   CRASHED              |-> {"DESTROYING"},
   DESTROYING           |-> {"DESTROYED"},
   DESTROYED            |-> {}]

\* FAILED is reachable from every phase that has not ended, CRASHED from
\* every phase that has not ended and is not being destroyed.
CanTransition(from, to) ==
  CASE to = "FAILED"  -> from \notin {"DESTROYED", "FAILED", "CRASHED"}
    [] to = "CRASHED" -> from \notin {"DESTROYED", "DESTROYING", "FAILED",
                                      "CRASHED"}
    [] OTHER          -> to \in transitions[from]

checkTransition(from, to) ==
  /\ from \in Phase
  /\ to \in Phase
  /\ CanTransition(from, to)

=============================================================================
