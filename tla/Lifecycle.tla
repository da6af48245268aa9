------------------------------ MODULE Lifecycle ------------------------------
(***************************************************************************)
(* The lifecycle commands of iold -- deploy, deploy --replace, destroy,    *)
(* destroy --purge, destroy --all and status -- run by several CLI         *)
(* processes against one state database, one operation lock, one process   *)
(* table and one file system. A CLI may be killed between any two of its   *)
(* steps.                                                                  *)
(***************************************************************************)
EXTENDS Recovery, Destroy, Deploy

CONSTANTS
  MaxFaults,    \* bound: injected faults in a behaviour
  FaultKinds,   \* the kinds that are injected
  FaultPoints   \* labels at which a CLI may be killed or a file operation
                \* may fail

FaultKind == {"crash", "store", "disk", "stop", "probe"}

ASSUME LifecycleAssumption ==
  /\ MaxFaults \in Nat
  /\ FaultKinds \subseteq FaultKind
  /\ FaultPoints \subseteq Label

Init ==
  /\ StoreInit /\ ProcessesInit /\ FilesInit
  /\ lock = Nobody
  /\ pc = [c \in Cli |-> "idle"]
  /\ job = [c \in Cli |-> NoJob]
  /\ deploys = 0 /\ faults = 0

-----------------------------------------------------------------------------
(* Faults.                                                                 *)

Fault(kind) ==
  /\ kind \in FaultKinds
  /\ faults < MaxFaults
  /\ faults' = faults + 1

\* The flock survives its holder in a child that has not reached exec, since
\* the descriptor is closed by exec.  Mutant: the child does not have it.
LockFreed(c) == IF lock = c THEN Nobody ELSE lock
LockLeft(c) ==
  IF lock # c THEN lock
  ELSE IF pc[c] = "exec" /\ os[job[c].pid].st = "forked" THEN job[c].pid
  ELSE Nobody

\* A killed CLI loses its locals.
Crash(c) ==
  /\ Fault("crash")
  /\ pc[c] \in FaultPoints \ {"idle"}
  /\ pc' = [pc EXCEPT ![c] = "idle"]
  /\ job' = [job EXCEPT ![c] = NoJob]
  /\ lock' = LockLeft(c)
  /\ UNCHANGED <<db, os, clock, fileVars, deploys>>

\* A statement fails with an I/O error and writes nothing.
StoreFails(c) ==
  /\ Fault("store")
  /\ pc[c] \in {"rlist", "radopt", "rcrash", "work", "xfail", "xbegin",
                "xdone", "xpurge", "tomb", "create", "validate", "download",
                "intent", "starting", "bind", "healthy", "register", "unreg",
                "ffail"}
  /\ Rejected(c)
  /\ UNCHANGED <<db, os, clock, fileVars, deploys>>

\* A file operation fails.
DiskFails(c) ==
  /\ Fault("disk")
  /\ pc[c] \in FaultPoints \cap {"key", "mkdir", "marker", "mwrite", "xcache",
                                  "xlog", "xkey", "xrm"}
  /\ Rejected(c)
  /\ UNCHANGED <<db, os, clock, fileVars, deploys>>

\* A signal or the verification before it fails.
StopFails(c) ==
  /\ Fault("stop")
  /\ pc[c] \in {"stop", "term", "grace"}
  /\ StopReturns(c, FALSE)
  /\ UNCHANGED <<db, os, clock, fileVars, deploys>>

\* ps or /proc cannot be read: recovery and destroy refuse to go on.
ProbeFails(c) ==
  /\ Fault("probe")
  /\ pc[c] \in {"rscan", "rprobe", "xprobe"}
  /\ Rejected(c)
  /\ UNCHANGED <<db, os, clock, fileVars, deploys>>

\* Start cannot read its child's identity: it kills and reaps it.
CaptureFails(c) ==
  /\ Fault("probe")
  /\ pc[c] = "exec"
  /\ os[job[c].pid].st \in {"live", "zombie"}
  /\ KillGroupAndWait(job[c].pid)
  /\ Move(c, "ffail", [job[c] EXCEPT !.pid = NoPid, !.tok = 0])
  /\ UNCHANGED <<db, clock, fileVars, deploys>>

\* The zombie is reaped between the two reads of Reconcile: status UNKNOWN.
ReapedWhileProbed(c) ==
  /\ pc[c] \in {"rprobe", "xprobe"}
  /\ Mem(c).pid # NoPid
  /\ Reaped(Mem(c).pid)
  /\ Rejected(c)
  /\ UNCHANGED <<db, fileVars, deploys, faults>>

-----------------------------------------------------------------------------
(* The environment: the runtime, the kernel, other users.                  *)

\* Mutant: the lock's descriptor is inherited across exec.
ExecKeepsLock(p) ==
  /\ os[p].st = "forked"
  /\ os' = [os EXCEPT ![p].st = "live"]
  /\ UNCHANGED <<db, clock, fileVars, ctlVars, deploys, faults>>

\* exec closes the child's copy of the lock's descriptor.
ChildExecs(p) ==
  /\ os[p].st = "forked"
  /\ os' = [os EXCEPT ![p].st = "live"]
  /\ lock' = IF lock = p THEN Nobody ELSE lock
  /\ UNCHANGED <<db, clock, fileVars, pc, job, deploys, faults>>

\* exec fails: cmd.Start returns the error to a CLI that still waits for it.
ChildExecFails(p) ==
  /\ os[p].st = "forked"
  /\ os' = [os EXCEPT ![p] = FreeSlot]
  /\ LET waiting == {c \in Cli : pc[c] = "exec" /\ job[c].pid = p} IN
     IF waiting = {}
     THEN lock' = (IF lock = p THEN Nobody ELSE lock) /\ UNCHANGED <<pc, job>>
     ELSE \E c \in waiting :
            Move(c, "ffail", [job[c] EXCEPT !.pid = NoPid, !.tok = 0])
  /\ UNCHANGED <<db, clock, fileVars, deploys, faults>>

RuntimeExits(p) ==
  /\ ProcessExits(p)
  /\ UNCHANGED <<db, fileVars, ctlVars, deploys, faults>>

\* By the deploying CLI's Wait, which starts after the identity is read, or
\* by init once that CLI is gone.
RuntimeReaped(p) ==
  /\ Reaped(p)
  /\ \A c \in Cli : ~(pc[c] = "exec" /\ job[c].pid = p)
  /\ UNCHANGED <<db, fileVars, ctlVars, deploys, faults>>

RuntimeForks(p) ==
  /\ ForkWorker(p)
  /\ UNCHANGED <<db, fileVars, ctlVars, deploys, faults>>

OthersStart(p) ==
  /\ StrangerStarts(p)
  /\ UNCHANGED <<db, fileVars, ctlVars, deploys, faults>>

RuntimeDownloads(p) ==
  /\ os[p].st = "live" /\ os[p].key # 0
  /\ RuntimeWrites(os[p].id)
  /\ UNCHANGED <<db, os, clock, ctlVars, deploys, faults>>

ProxyRuns(i) ==
  /\ ProxyOpensLog(i)
  /\ UNCHANGED <<db, os, clock, ctlVars, deploys, faults>>

-----------------------------------------------------------------------------
(* The next-state relation.                                                *)

RecoveryStep(c) ==
  \/ RecoverList(c) \/ RecoverNext(c) \/ RecoverDone(c) \/ RecoverScan(c)
  \/ RecoverAdopt(c) \/ RecoverProbe(c) \/ RecoverCrash(c)
  \/ StatusReports(c) \/ DestroyTargets(c) \/ DeployTargets(c)

DestroyStep(c) ==
  \/ DestroyNext(c) \/ DestroyDone(c) \/ RouteThroughFailed(c)
  \/ BeginDestroy(c) \/ DestroyProbe(c) \/ CheckCache(c) \/ RemoveLog(c)
  \/ RemoveKey(c) \/ RemoveCacheEntry(c) \/ RemoveCacheDir(c)
  \/ FinishDestroy(c) \/ Purge(c)
  \/ StopVerifies(c) \/ StopTerminates(c) \/ StopGraceOver(c)
  \/ StopGivesUp(c)

DeployStep(c) ==
  \/ ResolveFails(c) \/ Resolved(c) \/ ClearTombstone(c)
  \/ CreateDeployment(c) \/ StartValidating(c) \/ writeAPIKey(c)
  \/ MakeCacheDir(c) \/ ClaimCache(c) \/ WriteMarker(c)
  \/ StartDownloading(c) \/ RecordIntent(c) \/ StartStarting(c) \/ Launch(c)
  \/ LaunchFails(c) \/ IdentityCaptured(c) \/ BindRuntime(c)
  \/ BecomesHealthy(c) \/ BecomesReady(c) \/ ChecksFail(c)
  \/ RecordHealthy(c) \/ StartRegistering(c) \/ FinishDeploy(c)
  \/ RecordFailure(c)

CliStep(c) ==
  \/ Acquire(c) \/ StatusBusy(c)
  \/ RecoveryStep(c) \/ DestroyStep(c) \/ DeployStep(c)

FaultStep(c) ==
  \/ Crash(c) \/ StoreFails(c) \/ DiskFails(c) \/ StopFails(c)
  \/ ProbeFails(c) \/ CaptureFails(c) \/ ReapedWhileProbed(c)

ProcessStep(p) ==
  \/ ChildExecs(p) \/ ChildExecFails(p) \/ RuntimeExits(p)
  \/ RuntimeReaped(p) \/ RuntimeForks(p) \/ OthersStart(p)
  \/ RuntimeDownloads(p)

Invocation(c) ==
  \E op \in Op \ {"none"}, flag \in BOOLEAN, i \in Id \cup {NoId} :
    Invoke(c, op, flag, i)

Next ==
  \/ \E c \in Cli : Invocation(c) \/ CliStep(c) \/ FaultStep(c)
  \/ \E p \in Pid : ProcessStep(p)
  \/ \E i \in Id : ProxyRuns(i)

Spec == Init /\ [][Next]_vars

=============================================================================
