----------------------------- MODULE Deployments -----------------------------
(***************************************************************************)
(* What iold promises about deployments, without locks, rows, pids or      *)
(* files: one deployment at a time, a runtime only while its deployment is *)
(* being set up, nothing removed from under a runtime, and nothing         *)
(* forgotten while something of it is left.                                *)
(***************************************************************************)
CONSTANT Id

VARIABLES
  stage,    \* what the record of a deployment says
  running,  \* deployments whose runtime exists
  littered  \* deployments that still own secrets or model data

vars == <<stage, running, littered>>

Stage == {"absent", "deploying", "serving", "broken", "destroying",
          "destroyed"}
Inactive == {"absent", "destroyed"}

Init ==
  /\ stage = [i \in Id |-> "absent"]
  /\ running = {}
  /\ littered = {}

Becomes(i, from, to) ==
  /\ stage[i] \in from
  /\ stage' = [stage EXCEPT ![i] = to]
  /\ UNCHANGED <<running, littered>>

Deploy(i) ==
  /\ \A j \in Id : stage[j] \in Inactive
  /\ Becomes(i, {"absent"}, "deploying")

Serve(i) == Becomes(i, {"deploying"}, "serving")

Break(i) == Becomes(i, {"deploying", "serving"}, "broken")

Destroy(i) == Becomes(i, {"serving", "broken"}, "destroying")

Retire(i) ==
  /\ i \notin running \cup littered
  /\ Becomes(i, {"destroying"}, "destroyed")

Forget(i) == Becomes(i, {"destroyed"}, "absent")

StartRuntime(i) ==
  /\ stage[i] = "deploying"
  /\ running' = running \cup {i}
  /\ UNCHANGED <<stage, littered>>

EndRuntime(i) ==
  /\ running' = running \ {i}
  /\ UNCHANGED <<stage, littered>>

Litter(i) ==
  /\ stage[i] \notin Inactive
  /\ littered' = littered \cup {i}
  /\ UNCHANGED <<stage, running>>

Clean(i) ==
  /\ stage[i] = "destroying"
  /\ i \notin running
  /\ littered' = littered \ {i}
  /\ UNCHANGED <<stage, running>>

Next ==
  \E i \in Id :
    \/ Deploy(i) \/ Serve(i) \/ Break(i) \/ Destroy(i) \/ Retire(i)
    \/ Forget(i) \/ StartRuntime(i) \/ EndRuntime(i) \/ Litter(i) \/ Clean(i)

Spec == Init /\ [][Next]_vars

=============================================================================
