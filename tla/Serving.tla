------------------------------- MODULE Serving -------------------------------
(***************************************************************************)
(* One iold deploy, from the choice of its port to READY: the port part of *)
(* preflight.Run, the replaced deployment's shutdown, the launch,          *)
(* waitHealthy and checkReadiness.  What answers on the port is whoever    *)
(* listens there; other processes of the host come and go.                 *)
(*                                                                         *)
(* The deployment's record, its files and its process group are the        *)
(* Lifecycle's; here a failed Stop or store transition is only an outcome. *)
(***************************************************************************)
EXTENDS Servers, Integers, FiniteSets

CONSTANTS
  Preferred,       \* spec.Port
  Window,          \* portScanWindow
  OldPorts,        \* ports the replaced deployment may have recorded
  Mine,            \* the deployment's model name
  NewKey, OldKey,  \* the API keys of this deploy and of the one before
  Scenarios        \* by name: the host and its servers

Scanned == Preferred .. (Preferred + Window - 1)
Port == Scanned \cup OldPorts
NoPort == 0

\* oldPort, oldAlive: the replaced deployment's port, and whether its runtime may
\* still be up; squatters: servers that may be there before the deploy; visitors:
\* servers that may come while it runs, visits of them at most; runtimes: how the
\* new one may turn out, up to its key; healthTimeout and readyTimeout in polls;
\* slow: bound on the polls a request lasts.
Scenario ==
  [oldPort : OldPorts, oldAlive : SUBSET BOOLEAN,
   squatters : SUBSET Server, visitors : SUBSET Server, visits : Nat,
   runtimes : SUBSET Server, healthTimeout : Nat, readyTimeout : Nat, slow : Nat]

ASSUME ServingAssumption ==
  /\ Preferred \in Nat \ {0} /\ Window \in Nat \ {0} /\ OldPorts \subseteq Nat \ {0}
  /\ Mine \in Model /\ {NewKey, OldKey} \subseteq Key
  /\ \A name \in DOMAIN Scenarios : Scenarios[name] \in Scenario

Nobody == [is |-> "nobody"]
Old == [is |-> "old", server |-> [model |-> Mine, key |-> OldKey, failLoad |-> FALSE,
                                  healthyAfter |-> 0, malformed |-> FALSE]]
Other(server) == [is |-> "other", server |-> server]

VARIABLES
  scene,     \* the scenario
  listener,  \* who listens on a port
  pc,        \* the next step of the deploy
  port,      \* the port under test, then the chosen one
  runtime,   \* the new runtime: absent, loading, listening, dead
  server,    \* its server
  calls,     \* requests for /health it has answered
  elapsed,   \* polls since the current wait began
  phase,     \* the new deployment's recorded phase
  reason,    \* why the deploy failed
  inferred,  \* who served the readiness inference
  visits     \* servers that came during the deploy

ctl == <<pc, port, elapsed, phase, reason>>
vars == <<scene, listener, pc, port, runtime, server, calls, elapsed, phase, reason, inferred, visits>>

OldPort == Scenarios[scene].oldPort
Slow == Scenarios[scene].slow

\* What a deploy does not change.
fixed == <<scene, server>>

New == [is |-> "new", server |-> server]

Init ==
  /\ scene \in DOMAIN Scenarios
  /\ \E alive \in Scenarios[scene].oldAlive :
       \E others \in [Port -> {Nobody} \cup {Other(s) : s \in Scenarios[scene].squatters}] :
         listener = [p \in Port |-> IF alive /\ p = OldPort THEN Old ELSE others[p]]
  /\ pc = "preflight" /\ port = NoPort
  /\ runtime = "absent" /\ server \in {[r EXCEPT !.key = NewKey] : r \in Scenarios[scene].runtimes}
  /\ calls = 0 /\ elapsed = 0
  /\ phase = "none" /\ reason = "none" /\ inferred = Nobody /\ visits = 0

-----------------------------------------------------------------------------
(* Choosing the port *)

Go(next) == pc' = next

onlyCtl == <<fixed, listener, runtime, calls, inferred, visits>>

\* The preferred port is taken unseen when the deployment to be replaced
\* recorded it; otherwise AllocatePort looks for one.
ChoosePort ==
  /\ pc = "preflight"
  /\ port' = Preferred
  /\ Go(IF OldPort = Preferred THEN "replace" ELSE "scan")
  /\ UNCHANGED <<onlyCtl, elapsed, phase, reason>>

Refuse(why) == Go("returned") /\ reason' = why

\* PortFree, one port after the other.
PortFree(p) == listener[p] = Nobody

\* Mutant: the last port of the window is not tried.
ScanStopsEarly ==
  /\ pc = "scan"
  /\ IF port >= Preferred + Window - 1 THEN Refuse("no free port") /\ UNCHANGED port
     ELSE IF PortFree(port) THEN Go("replace") /\ UNCHANGED <<port, reason>>
     ELSE port' = port + 1 /\ UNCHANGED <<pc, reason>>
  /\ UNCHANGED <<onlyCtl, elapsed, phase>>

AllocatePort ==
  /\ pc = "scan"
  /\ IF port \notin Scanned THEN Refuse("no free port") /\ UNCHANGED port
     ELSE IF PortFree(port) THEN Go("replace") /\ UNCHANGED <<port, reason>>
     ELSE port' = port + 1 /\ UNCHANGED <<pc, reason>>
  /\ UNCHANGED <<onlyCtl, elapsed, phase>>

\* destroyOne on the replaced deployment: its group is gone when it succeeds.
Replace ==
  /\ pc = "replace"
  /\ listener' = [p \in Port |-> IF listener[p] = Old THEN Nobody ELSE listener[p]]
  /\ Go("launch")
  /\ UNCHANGED <<port, runtime, fixed, calls, elapsed, phase, reason, inferred, visits>>

ReplaceFails ==
  /\ pc = "replace"
  /\ Refuse("replace failed")
  /\ UNCHANGED <<onlyCtl, port, elapsed, phase>>

-----------------------------------------------------------------------------
(* Launch, health and readiness *)

\* Mutant: the runtime is given the preferred port, not the one that was found.
LaunchOnPreferred ==
  /\ pc = "launch"
  /\ runtime' = "loading" /\ phase' = "STARTING" /\ elapsed' = 0
  /\ port' = Preferred /\ Go("alive")
  /\ UNCHANGED <<listener, fixed, calls, reason, inferred, visits>>

\* executeDeploy up to SetRuntime.
Launch ==
  /\ pc = "launch"
  /\ runtime' = "loading" /\ phase' = "STARTING" /\ elapsed' = 0
  /\ Go("alive")
  /\ UNCHANGED <<listener, port, fixed, calls, reason, inferred, visits>>

\* fail: the runtime is stopped, or a warning says that it could not be.
Fail(why) ==
  /\ reason' = why /\ phase' = "FAILED" /\ Go("returned")
  /\ \/ /\ runtime' = "dead"
        /\ listener' = [p \in Port |-> IF listener[p].is = "new" THEN Nobody ELSE listener[p]]
     \/ UNCHANGED <<runtime, listener>>

\* waitHealthy's first look: is the process still ours?
CheckAlive ==
  /\ pc = "alive"
  /\ IF runtime = "dead"
     THEN Fail("exited")
     ELSE Go("ask") /\ UNCHANGED <<runtime, listener, phase, reason>>
  /\ UNCHANGED <<port, fixed, calls, elapsed, inferred, visits>>

\* A request takes up to Slow polls; nobody there, or the client's own timeout,
\* is an error.
Takes == \E t \in 0 .. Slow : elapsed' = elapsed + t

Answering == listener[port] # Nobody

\* The status of GET /health; a server of others is past its start.
HealthStatus ==
  IF listener[port].is = "new" THEN Health(server, calls + 1)
  ELSE IF listener[port].server.failLoad THEN 500 ELSE 200

AskHealth ==
  /\ pc = "ask"
  /\ \/ /\ Answering
        /\ calls' = IF listener[port].is = "new" THEN calls + 1 ELSE calls
        /\ IF HealthStatus = 200
           THEN phase' = "HEALTHY" /\ elapsed' = 0 /\ Go("models")
           ELSE Takes /\ Go("late") /\ UNCHANGED phase
     \/ (~Answering \/ Slow > 0) /\ Takes /\ Go("late") /\ UNCHANGED <<calls, phase>>
  /\ UNCHANGED <<listener, port, runtime, fixed, reason, inferred, visits>>

\* Mutant: the clock of the wait starts again at every poll.
PollAgainAfresh(next) == elapsed' = 0 /\ Go(next)

\* After the deadline the wait is given up, else it sleeps one poll.
PollAgain(next) == elapsed' = elapsed + 1 /\ Go(next)

HealthDeadline ==
  /\ pc = "late"
  /\ \/ /\ elapsed > Scenarios[scene].healthTimeout /\ Fail("unhealthy") /\ UNCHANGED elapsed
     \/ /\ elapsed <= Scenarios[scene].healthTimeout /\ PollAgain("alive")
        /\ UNCHANGED <<runtime, listener, phase, reason>>
  /\ UNCHANGED <<port, fixed, calls, inferred, visits>>

\* Mutant: the key of an earlier deployment of this name is kept.
KeyOfName == OldKey

\* The key in spec.APIKey.
APIKey == NewKey

Listed == Answering /\ Lists(listener[port].server, APIKey, Mine)
Inferred == Answering /\ Infers(listener[port].server, APIKey, Mine)

\* readinessProbe's first request; the process is not looked at any more.
ListModels ==
  /\ pc = "models"
  /\ \/ /\ Listed
        /\ Go("infer") /\ UNCHANGED elapsed
     \/ /\ ~Listed \/ Slow > 0
        /\ Takes /\ Go("unready")
  /\ UNCHANGED <<onlyCtl, port, phase, reason>>

\* Its second: one deterministic inference.
Inference ==
  /\ pc = "infer"
  /\ \/ /\ Inferred
        /\ inferred' = listener[port]
        /\ Go("registering") /\ UNCHANGED elapsed
     \/ /\ ~Inferred \/ Slow > 0
        /\ Takes /\ Go("unready") /\ UNCHANGED inferred
  /\ UNCHANGED <<listener, port, runtime, fixed, calls, phase, reason, visits>>

ReadyDeadline ==
  /\ pc = "unready"
  /\ \/ /\ elapsed > Scenarios[scene].readyTimeout /\ Fail("not ready") /\ UNCHANGED elapsed
     \/ /\ elapsed <= Scenarios[scene].readyTimeout /\ PollAgain("models")
        /\ UNCHANGED <<runtime, listener, phase, reason>>
  /\ UNCHANGED <<port, fixed, calls, inferred, visits>>

\* REGISTERING and UNREGISTERED_HEALTHY: READY to serve is printed.
Register ==
  /\ pc = "registering"
  /\ phase' = "UNREGISTERED_HEALTHY" /\ Go("returned")
  /\ UNCHANGED <<onlyCtl, port, elapsed, reason>>

Deploy ==
  \/ ChoosePort \/ AllocatePort \/ Replace \/ ReplaceFails \/ Launch
  \/ CheckAlive \/ AskHealth \/ HealthDeadline
  \/ ListModels \/ Inference \/ ReadyDeadline \/ Register

-----------------------------------------------------------------------------
(* The runtime and the rest of the host *)

env == <<fixed, pc, port, calls, elapsed, phase, reason, inferred>>

\* vLLM binds its port, or exits because somebody has it.
RuntimeBinds ==
  /\ runtime = "loading"
  /\ IF PortFree(port)
     THEN runtime' = "listening" /\ listener' = [listener EXCEPT ![port] = New]
     ELSE runtime' = "dead" /\ UNCHANGED listener
  /\ UNCHANGED <<env, visits>>

RuntimeDies ==
  /\ runtime \in {"loading", "listening"}
  /\ runtime' = "dead"
  /\ listener' = [p \in Port |-> IF listener[p].is = "new" THEN Nobody ELSE listener[p]]
  /\ UNCHANGED <<env, visits>>

\* The replaced deployment's runtime dies by itself.
OldDies ==
  /\ \E p \in Port : listener[p] = Old /\ listener' = [listener EXCEPT ![p] = Nobody]
  /\ UNCHANGED <<env, runtime, visits>>

OtherBinds ==
  /\ visits < Scenarios[scene].visits /\ visits' = visits + 1
  /\ \E p \in Port, s \in Scenarios[scene].visitors :
       PortFree(p) /\ listener' = [listener EXCEPT ![p] = Other(s)]
  /\ UNCHANGED <<env, runtime>>

OtherLeaves ==
  /\ \E p \in Port : listener[p].is = "other" /\ listener' = [listener EXCEPT ![p] = Nobody]
  /\ UNCHANGED <<env, runtime, visits>>

Next == Deploy \/ RuntimeBinds \/ RuntimeDies \/ OldDies \/ OtherBinds \/ OtherLeaves

Spec == Init /\ [][Next]_vars

\* The command is run; nothing is owed by the runtime or by others.
FairSpec == Spec /\ WF_vars(Deploy)

-----------------------------------------------------------------------------
Listener == {Nobody, Old} \cup {Other(s) : s \in Scenarios[scene].squatters \cup Scenarios[scene].visitors}
              \cup {[is |-> "new", server |-> server]}

\* The types, the new runtime on no port but its own, and a wait that ends
\* within one request of its deadline.
TypeOK ==
  /\ listener \in [Port -> Listener]
  /\ port \in Port \cup {NoPort, Preferred + Window}
  /\ runtime \in {"absent", "loading", "listening", "dead"}
  /\ \A p \in Port : listener[p].is = "new" <=> runtime = "listening" /\ p = port
  /\ phase \in {"none", "STARTING", "HEALTHY", "UNREGISTERED_HEALTHY", "FAILED"}
  /\ inferred \in Listener /\ visits \in 0 .. Scenarios[scene].visits
  /\ (phase = "STARTING" => elapsed <= Scenarios[scene].healthTimeout + 1 + Slow)
  /\ (phase = "HEALTHY" => elapsed <= Scenarios[scene].readyTimeout + 1 + Slow)

\* A deployment is reported as ready only when its own runtime served the
\* inference: the listeners of others, an orphan of an earlier deployment of
\* the same name included, do not pass for it.
ServedByOwnRuntime ==
  phase = "UNREGISTERED_HEALTHY" => inferred.is = "new"

\* When the runtime is launched, its port is taken only by somebody who came
\* after the choice.
PortTakenOnlySince ==
  pc = "alive" /\ runtime = "loading" /\ visits = 0 => PortFree(port)

\* The runtime's port is its own: typed as above, and as it was found.
PortIsOwn == TypeOK /\ PortTakenOnlySince

\* A port of the window that stays free is found: the deploy is not refused.
FreePortIsFound ==
  \A p \in Scanned : []PortFree(p) => [](reason # "no free port")

\* The command ends, whatever the runtime and the other servers do.
DeployEnds == <>(pc = "returned")

\* Claim (preflight): "Ports owned by deployments that this operation will
\* replace are considered available after their verified shutdown succeeds."
ReleasedPortIsAvailable == PortTakenOnlySince

\* Claim (executeDeploy): HEALTHY is when "/health answers 200 while the process
\* is still ours".
HealthyWhileOurs ==
  [][phase # "HEALTHY" /\ phase' = "HEALTHY" => runtime # "dead"]_vars

\* Claim (the summary of deploy): "Requests without the API key are rejected".
KeyIsRequired ==
  phase = "UNREGISTERED_HEALTHY" => inferred.server.key # NoKey

=============================================================================
