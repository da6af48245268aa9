------------------------------- MODULE Deploy --------------------------------
(***************************************************************************)
(* iold deploy: runDeploy and executeDeploy (internal/cli/deploy.go). With *)
(* --replace the old deployments pass through Destroy in between.          *)
(***************************************************************************)
EXTENDS Command

existing == {i \in Id : db[i].phase \notin {Absent, "DESTROYED"}}

DeployTargets(c) ==
  /\ pc[c] = "work" /\ job[c].op = "deploy"
  /\ IF existing # {} /\ ~job[c].flag THEN Return(c)
     ELSE Move(c, "resolve", [job[c] EXCEPT !.list = db, !.todo = existing])
  /\ UNCHANGED onlyCtl

\* resolveSpec and preflight only read; either may turn the request down.
ResolveFails(c) ==
  pc[c] = "resolve" /\ Return(c) /\ UNCHANGED onlyCtl

Resolved(c) ==
  pc[c] = "resolve" /\ Go(c, "xpick") /\ UNCHANGED onlyCtl

\* Mutant: the tombstone of an earlier deployment of this id is kept.
KeepTombstone(c) ==
  pc[c] = "tomb" /\ Go(c, "create") /\ UNCHANGED onlyCtl

ClearTombstone(c) ==
  /\ pc[c] = "tomb"
  /\ IF DeleteOK(cur(c)) THEN Delete(cur(c)) ELSE UNCHANGED db
  /\ Go(c, "create")
  /\ UNCHANGED otherStore

CreateDeployment(c) ==
  /\ pc[c] = "create"
  /\ IF CreateOK(cur(c))
     THEN /\ Create(cur(c), deploys + 1, clock)
          /\ deploys' = deploys + 1
          /\ Move(c, "validate",
               [job[c] EXCEPT !.list[cur(c)] = NewRow(deploys + 1, clock),
                              !.made = TRUE])
     ELSE UNCHANGED <<db, deploys>> /\ Rejected(c)
  /\ UNCHANGED <<os, clock, fileVars, faults>>

StartValidating(c) ==
  pc[c] = "validate" /\ Advance(c, "VALIDATING", "key")

writeAPIKey(c) ==
  /\ pc[c] = "key"
  /\ keys' = keys \cup {cur(c)}
  /\ Go(c, "mkdir")
  /\ UNCHANGED <<db, os, clock, logs, proxies, cache, deploys, faults>>

\* prepareModelCache in the three steps a crash can separate: the directory,
\* the marker file, the key inside it.
MakeCacheDir(c) ==
  /\ pc[c] = "mkdir"
  /\ cache' = [cache EXCEPT ![cur(c)].dir = TRUE]
  /\ Go(c, "marker")
  /\ UNCHANGED <<db, os, clock, keys, logs, proxies, deploys, faults>>

ClaimCache(c) ==
  /\ pc[c] = "marker"
  /\ IF ~Claimable(cur(c), Mem(c).key) THEN UNCHANGED cache /\ Rejected(c)
     ELSE IF cache[cur(c)].marker = Mem(c).key
     THEN UNCHANGED cache /\ Go(c, "download")
     ELSE /\ cache' = [cache EXCEPT ![cur(c)].marker = EmptyMarker]
          /\ Go(c, "mwrite")
  /\ UNCHANGED <<db, os, clock, keys, logs, proxies, deploys, faults>>

WriteMarker(c) ==
  /\ pc[c] = "mwrite"
  /\ cache' = [cache EXCEPT ![cur(c)].marker = Mem(c).key]
  /\ Go(c, "download")
  /\ UNCHANGED <<db, os, clock, keys, logs, proxies, deploys, faults>>

StartDownloading(c) ==
  pc[c] = "download" /\ Advance(c, "DOWNLOADING", "intent")

RecordIntent(c) ==
  /\ pc[c] = "intent"
  /\ IF SetRuntimeIntentOK(cur(c))
     THEN SetRuntimeIntent(cur(c), clock) /\ Go(c, "starting")
     ELSE UNCHANGED db /\ Rejected(c)
  /\ UNCHANGED otherStore

StartStarting(c) ==
  pc[c] = "starting" /\ Advance(c, "STARTING", "launch")

\* Start: the log proxy first, then the fork of the runtime.  Either may fail.
Launch(c) ==
  /\ pc[c] = "launch"
  /\ proxies' = proxies \cup {cur(c)}
  /\ \E p \in Pid :
       /\ Unused(p)
       /\ Fork(p, cur(c), Mem(c).key)
       /\ Move(c, "exec", [job[c] EXCEPT !.pid = p, !.tok = clock + 1])
  /\ UNCHANGED <<db, keys, logs, cache, deploys, faults>>

LaunchFails(c) ==
  /\ pc[c] = "launch"
  /\ proxies' \in {proxies, proxies \cup {cur(c)}}
  /\ Fail(c)
  /\ UNCHANGED <<db, os, clock, keys, logs, cache, deploys, faults>>

\* cmd.Start waits for the child's exec, then its identity is read; the child
\* may already have exited, but nobody has reaped it.
IdentityCaptured(c) ==
  /\ pc[c] = "exec"
  /\ os[job[c].pid].st \in {"live", "zombie"}
  /\ Go(c, "bind")
  /\ UNCHANGED onlyCtl

BindRuntime(c) ==
  /\ pc[c] = "bind"
  /\ IF SetRuntimeOK(cur(c))
     THEN /\ SetRuntime(cur(c), job[c].pid, job[c].tok, clock)
          /\ Go(c, "health")
     ELSE UNCHANGED db /\ Rejected(c)
  /\ UNCHANGED otherStore

\* waitHealthy: /health answered while the process was still ours.
BecomesHealthy(c) ==
  /\ pc[c] = "health"
  /\ Reconcile(job[c].pid, job[c].tok, cur(c)) = "RUNNING"
  /\ Go(c, "healthy")
  /\ UNCHANGED onlyCtl

\* checkReadiness: some process of the runtime served an inference.
BecomesReady(c) ==
  /\ pc[c] = "ready"
  /\ \E p \in Pid : os[p].st = "live" /\ os[p].pgid = job[c].pid
  /\ Go(c, "register")
  /\ UNCHANGED onlyCtl

\* The runtime died, or the deadline passed.
ChecksFail(c) ==
  /\ pc[c] \in {"health", "ready"}
  /\ Fail(c)
  /\ UNCHANGED onlyCtl

RecordHealthy(c) ==
  pc[c] = "healthy" /\ Advance(c, "HEALTHY", "ready")

StartRegistering(c) ==
  pc[c] = "register" /\ Advance(c, "REGISTERING", "unreg")

FinishDeploy(c) ==
  /\ pc[c] = "unreg"
  /\ IF TransitionOK(cur(c), Mem(c).phase, "UNREGISTERED_HEALTHY")
     THEN Transition(cur(c), "UNREGISTERED_HEALTHY", clock) /\ Return(c)
     ELSE UNCHANGED db /\ Rejected(c)
  /\ UNCHANGED otherStore

\* The failure is recorded if it can be; the command returns either way.
RecordFailure(c) ==
  /\ pc[c] = "ffail"
  /\ IF TransitionOK(cur(c), Mem(c).phase, "FAILED")
     THEN Transition(cur(c), "FAILED", clock) ELSE UNCHANGED db
  /\ Return(c)
  /\ UNCHANGED otherStore

=============================================================================
