---------------------------- MODULE RuntimeProofs ----------------------------
(***************************************************************************)
(* Theorems about what lies outside the table.  What is not iold's, data   *)
(* it did not download and processes it did not start, is left alone.  And *)
(* as long as the processes of a runtime can be traced, no record is       *)
(* dropped before they are gone, nothing is left on disk, and the commands *)
(* implement Deployments.                                                  *)
(***************************************************************************)
EXTENDS LifecycleProofs, FiniteSetTheorems

-----------------------------------------------------------------------------
(* Where a step leads.                                                     *)

\* A move sets label and locals of one CLI, and leaves the others'.
LEMMA MoveSets ==
  ASSUME TypeInv, NEW c \in Cli, NEW l, NEW j, Move(c, l, j)
  PROVE  pc'[c] = l /\ job'[c] = j
BY DEF Move, TypeInv, CtlOK

\* So does the end of a command.
LEMMA ReturnSets ==
  ASSUME TypeInv, NEW c \in Cli, Return(c)
  PROVE  pc'[c] = "idle" /\ job'[c] = NoJob
BY DEF Return, TypeInv, CtlOK

\* The other CLIs stay where they are.
LEMMA OthersStay ==
  ASSUME TypeInv, NEW c \in Cli, Controlled(c)
  PROVE  \A d \in Cli \ {c} : pc'[d] = pc[d] /\ job'[d] = job[d]
BY DEF Controlled, Moves, Move, Return, TypeInv, CtlOK

\* Where errors lead.
LEMMA ErrorsLead ==
  ASSUME TypeInv, NEW c \in Cli
  PROVE  /\ TargetFails(c) => pc'[c] \in {"idle", "xpick"}
         /\ Fail(c) => pc'[c] \in {"ffail", "stop"}
         /\ Rejected(c) => pc'[c] \in {"idle", "xpick", "ffail", "stop"}
         /\ \A ok \in BOOLEAN :
              StopReturns(c, ok) => pc'[c] \in {"idle", "xpick", "ffail",
                                                "xcache"}
         /\ \A to, next :
              Advance(c, to, next)
                => pc'[c] \in {next, "idle", "xpick", "ffail", "stop"}
<1>1. TargetFails(c) => pc'[c] \in {"idle", "xpick"}
  BY MoveSets, ReturnSets DEF TargetFails
<1>2. Fail(c) => pc'[c] \in {"ffail", "stop"}
  BY MoveSets DEF Fail, Go
<1>3. Rejected(c) => pc'[c] \in {"idle", "xpick", "ffail", "stop"}
  BY <1>1, <1>2, ReturnSets DEF Rejected
<1>4. ASSUME NEW ok \in BOOLEAN, StopReturns(c, ok)
      PROVE  pc'[c] \in {"idle", "xpick", "ffail", "xcache"}
  BY <1>1, <1>4, MoveSets DEF StopReturns
<1>5. ASSUME NEW to, NEW next, Advance(c, to, next)
      PROVE  pc'[c] \in {next, "idle", "xpick", "ffail", "stop"}
  BY <1>3, <1>5, MoveSets DEF Advance
<1> QED BY <1>1, <1>2, <1>3, <1>4, <1>5

-----------------------------------------------------------------------------
(* Data iold did not download.                                             *)

\* The labels between the decision that a cache may be claimed or removed and
\* the end of the claim or the removal.
Handling(l, owned) == l \in {"xrm", "mwrite"} \/ (l \in {"xlog", "xkey"} /\ owned)

\* A directory of foreign data never has a marker, so that no verdict on it
\* lets a command touch its contents.
AlienUnmarked ==
  /\ \A i \in Id : cache[i].data = "alien" => cache[i].marker = NoMarker
  /\ \A c \in Cli :
       Handling(pc[c], job[c].owned) => cache[cur(c)].data # "alien"

\* Nothing becomes foreign, and what is foreign stays.
AlienStays ==
  \A i \in Id : cache'[i].data = "alien" <=> cache[i].data = "alien"

\* Most steps leave the caches alone and lead to labels that do not.
LEMMA AlienElsewhere ==
  ASSUME TypeInv, AlienUnmarked, NEW c \in Cli, Controlled(c),
         UNCHANGED cache, pc'[c] \notin {"xrm", "mwrite", "xlog", "xkey"}
  PROVE  AlienUnmarked' /\ AlienStays
<1>1. \A d \in Cli \ {c} : pc'[d] = pc[d] /\ job'[d] = job[d]
  BY OthersStay
<1>2. ~Handling(pc'[c], job'[c].owned)
  BY DEF Handling
<1> QED BY <1>1, <1>2 DEF AlienUnmarked, AlienStays, cur

\* The others' facts survive a step that makes no data foreign.
LEMMA AlienHere ==
  ASSUME TypeInv, AlienUnmarked, NEW c \in Cli, Controlled(c), AlienStays,
         \A i \in Id : cache'[i].data = "alien" => cache'[i].marker = NoMarker,
         Handling(pc'[c], job'[c].owned)
           => cache'[job'[c].cur].data # "alien",
         CurrentKnown'
  PROVE  AlienUnmarked'
<1>1. \A d \in Cli \ {c} : pc'[d] = pc[d] /\ job'[d] = job[d]
  BY OthersStay
<1>2. ASSUME NEW d \in Cli, d # c, Handling(pc[d], job[d].owned)
      PROVE  job[d].cur \in Id
  BY <1>2 DEF TypeInv, CtlOK, CurrentKnown, Known, Handling, Working, Label,
              Critical, Destroying, Deploying
<1> QED BY <1>1, <1>2 DEF AlienUnmarked, AlienStays, cur

\* The commands.
LEMMA AlienCliStep ==
  ASSUME TypeInv, AlienUnmarked, NEW c \in Cli,
         RecoveryStep(c) \/ DestroyStep(c) \/ DeployStep(c)
  PROVE  AlienUnmarked' /\ AlienStays
<1>0. /\ Controlled(c) /\ job[c] \in Job /\ cache \in [Id -> Cache]
      /\ CurrentKnown'
  BY RecoveryStepOK, DestroyStepOK, DeployStepOK, ControlKeeps
     DEF StepOK, TypeInv, CtlOK, DataOK
<1>p. pc \in [Cli -> Label]
  BY DEF TypeInv, CtlOK
<1>e. /\ TargetFails(c) => pc'[c] \in {"idle", "xpick"}
      /\ Fail(c) => pc'[c] \in {"ffail", "stop"}
      /\ Rejected(c) => pc'[c] \in {"idle", "xpick", "ffail", "stop"}
      /\ \A ok \in BOOLEAN :
           StopReturns(c, ok) => pc'[c] \in {"idle", "xpick", "ffail",
                                             "xcache"}
      /\ \A to, next :
           Advance(c, to, next)
             => pc'[c] \in {next, "idle", "xpick", "ffail", "stop"}
  BY ErrorsLead
<1>1. CASE RecoveryStep(c)
  <2>1. UNCHANGED cache
    BY <1>1 DEF RecoveryStep, RecoverList, RecoverNext, RecoverDone,
         RecoverScan, RecoverAdopt, RecoverProbe, RecoverCrash, Advance,
         StatusReports, DestroyTargets, DeployTargets, onlyCtl, otherStore,
         fileVars
  <2>2. pc'[c] \notin {"xrm", "mwrite", "xlog", "xkey"}
    <3>1. CASE RecoverList(c)
      BY <3>1, <1>p, <1>e DEF RecoverList, Go, Move, Return
    <3>2. CASE RecoverNext(c)
      BY <3>2, <1>p, <1>e DEF RecoverNext, RecoverRoute, Go, Move, Return
    <3>3. CASE RecoverDone(c)
      BY <3>3, <1>p, <1>e DEF RecoverDone, Go, Move, Return
    <3>4. CASE RecoverScan(c)
      BY <3>4, <1>p, <1>e DEF RecoverScan, Go, Move, Return
    <3>5. CASE RecoverAdopt(c)
      BY <3>5, <1>p, <1>e DEF RecoverAdopt, Go, Move, Return
    <3>6. CASE RecoverProbe(c)
      BY <3>6, <1>p, <1>e DEF RecoverProbe, Go, Move, Return
    <3>7. CASE RecoverCrash(c)
      BY <3>7, <1>p, <1>e DEF RecoverCrash, Go, Move, Return
    <3>8. CASE StatusReports(c)
      BY <3>8, <1>p, <1>e DEF StatusReports, Go, Move, Return
    <3>9. CASE DestroyTargets(c)
      BY <3>9, <1>p, <1>e DEF DestroyTargets, Go, Move, Return
    <3>10. CASE DeployTargets(c)
      BY <3>10, <1>p, <1>e DEF DeployTargets, Go, Move, Return
    <3> QED BY <1>1, <3>1, <3>2, <3>3, <3>4, <3>5, <3>6, <3>7, <3>8, <3>9,
           <3>10            DEF RecoveryStep
  <2> QED BY <1>0, <2>1, <2>2, AlienElsewhere
<1>2. CASE CheckCache(c)
  <2>1. UNCHANGED cache
    BY <1>2 DEF CheckCache, onlyCtl, otherStore, fileVars
  <2>2. CASE TargetFails(c)
    BY <1>0, <2>1, <2>2, ErrorsLead, AlienElsewhere
  <2>3. CASE Move(c, "xlog", [job[c] EXCEPT !.owned =
                                (modelCacheOwnedBy(cur(c), Mem(c).key)
                                   = "owned")])
    <3>1. /\ pc'[c] = "xlog" /\ job'[c].cur = cur(c)
          /\ job'[c].owned
               = (modelCacheOwnedBy(cur(c), Mem(c).key) = "owned")
      BY <1>0, <2>3, MoveSets DEF Job, cur
    <3>2. cur(c) \in Id /\ Mem(c).key # NoMarker
      BY <1>2, MemType DEF CheckCache, TypeInv, Working, Label, Critical,
                           Destroying, Row, NoMarker
    <3>3. modelCacheOwnedBy(cur(c), Mem(c).key) = "owned"
            => cache[cur(c)].data # "alien"
      BY <3>2 DEF modelCacheOwnedBy, AlienUnmarked
    <3> QED BY <1>0, <2>1, <3>1, <3>3, AlienHere
            DEF AlienStays, AlienUnmarked, Handling
  <2> QED BY <1>2, <2>2, <2>3 DEF CheckCache
<1>3. CASE RemoveLog(c)
  <2>1. UNCHANGED cache /\ pc[c] = "xlog"
    BY <1>3 DEF RemoveLog
  <2>2. pc'[c] = "xkey" /\ job'[c] = job[c]
    BY <1>3, MoveSets DEF RemoveLog, Go
  <2> QED BY <1>0, <2>1, <2>2, AlienHere
          DEF AlienStays, AlienUnmarked, Handling, cur
<1>4. CASE RemoveKey(c)
  <2>1. UNCHANGED cache /\ pc[c] = "xkey"
    BY <1>4 DEF RemoveKey
  <2>2. /\ pc'[c] = (IF job[c].owned THEN "xrm" ELSE "xdone")
        /\ job'[c].cur = cur(c) /\ ~job'[c].owned
    BY <1>0, <1>4, MoveSets DEF RemoveKey, Job, cur
  <2> QED BY <1>0, <2>1, <2>2, AlienHere
          DEF AlienStays, AlienUnmarked, Handling
<1>5. CASE RemoveCacheEntry(c) \/ RemoveCacheDir(c)
  <2>1. cur(c) \in Id /\ cache[cur(c)].data # "alien" /\ pc[c] = "xrm"
    BY <1>5, MemType DEF RemoveCacheEntry, RemoveCacheDir, AlienUnmarked,
         Handling, TypeInv, Working, Label, Critical, Destroying
  <2>2. /\ \A i \in Id \ {cur(c)} : cache'[i] = cache[i]
        /\ cache'[cur(c)].data # "alien"
    BY <1>0, <1>5, <2>1 DEF RemoveCacheEntry, RemoveCacheDir, Cache
  <2>3. job'[c] = job[c]
    BY <1>5, MoveSets DEF RemoveCacheEntry, RemoveCacheDir, Go
  <2> QED BY <1>0, <2>1, <2>2, <2>3, AlienHere
          DEF AlienStays, AlienUnmarked, cur
<1>6. CASE MakeCacheDir(c)
  <2>1. cur(c) \in Id
    BY <1>6, MemType DEF MakeCacheDir, TypeInv, Working, Label, Critical,
                         Deploying
  <2>2. \A i \in Id : /\ cache'[i].data = cache[i].data
                      /\ cache'[i].marker = cache[i].marker
    BY <1>0, <1>6, <2>1 DEF MakeCacheDir, Cache
  <2>3. pc'[c] = "marker"
    BY <1>6, MoveSets DEF MakeCacheDir, Go
  <2> QED BY <1>0, <2>2, <2>3, AlienHere
          DEF AlienStays, AlienUnmarked, Handling
<1>7. CASE ClaimCache(c)
  <2>1. cur(c) \in Id /\ Mem(c).key # NoMarker
    BY <1>7, MemType DEF ClaimCache, TypeInv, Working, Label, Critical,
                         Deploying, Row, NoMarker
  <2>2. CASE UNCHANGED cache /\ (Rejected(c) \/ Go(c, "download"))
    BY <1>0, <2>2, MoveSets, ErrorsLead, AlienElsewhere DEF Go
  <2>3. CASE /\ cache' = [cache EXCEPT ![cur(c)].marker = EmptyMarker]
             /\ Go(c, "mwrite") /\ Claimable(cur(c), Mem(c).key)
    <3>1. cache[cur(c)].data # "alien"
      BY <2>1, <2>3 DEF Claimable, AlienUnmarked
    <3>2. \A i \in Id : /\ cache'[i].data = cache[i].data
                        /\ i # cur(c) => cache'[i].marker = cache[i].marker
      BY <1>0, <2>1, <2>3 DEF Cache
    <3>3. job'[c] = job[c]
      BY <2>3, MoveSets DEF Go
    <3> QED BY <1>0, <2>1, <3>1, <3>2, <3>3, AlienHere
            DEF AlienStays, AlienUnmarked, cur
  <2> QED BY <1>7, <2>2, <2>3 DEF ClaimCache
<1>8. CASE WriteMarker(c)
  <2>1. cur(c) \in Id /\ cache[cur(c)].data # "alien"
    BY <1>8, MemType DEF WriteMarker, TypeInv, Working, Label, Critical,
                         Deploying, AlienUnmarked, Handling
  <2>2. \A i \in Id : /\ cache'[i].data = cache[i].data
                      /\ i # cur(c) => cache'[i].marker = cache[i].marker
    BY <1>0, <1>8, <2>1 DEF WriteMarker, Cache
  <2>3. pc'[c] = "download"
    BY <1>8, MoveSets DEF WriteMarker, Go
  <2> QED BY <1>0, <2>1, <2>2, <2>3, AlienHere
          DEF AlienStays, AlienUnmarked, Handling
<1>9. CASE \/ DestroyNext(c) \/ DestroyDone(c) \/ RouteThroughFailed(c)
           \/ BeginDestroy(c) \/ DestroyProbe(c) \/ FinishDestroy(c)
           \/ Purge(c) \/ StopVerifies(c) \/ StopTerminates(c)
           \/ StopGraceOver(c) \/ StopGivesUp(c)
  <2>1. UNCHANGED cache
    BY <1>9 DEF DestroyNext, DestroyDone, RouteThroughFailed, BeginDestroy,
         DestroyProbe, FinishDestroy, Purge, StopVerifies, StopTerminates,
         StopGraceOver, StopGivesUp, Advance, onlyCtl, otherStore, fileVars
  <2>2. CASE DestroyNext(c) \/ DestroyDone(c) \/ DestroyProbe(c) \/ Purge(c)
    <3>1. pc'[c] \notin {"xrm", "mwrite", "xlog", "xkey"}
      BY <2>2, <1>p, <1>e
         DEF DestroyNext, DestroyRoute, DestroyDone, DestroyProbe, Purge, Go,
             Move, Return
    <3> QED BY <1>0, <2>1, <3>1, AlienElsewhere
  <2>3. CASE \/ RouteThroughFailed(c) \/ BeginDestroy(c) \/ FinishDestroy(c)
             \/ StopVerifies(c) \/ StopTerminates(c) \/ StopGraceOver(c)
             \/ StopGivesUp(c)
    <3>1. pc'[c] \notin {"xrm", "mwrite", "xlog", "xkey"}
      <4>1. CASE RouteThroughFailed(c)
        BY <4>1, <1>p, <1>e DEF RouteThroughFailed, Go, Move, Return
      <4>2. CASE BeginDestroy(c)
        BY <4>2, <1>p, <1>e DEF BeginDestroy, Go, Move, Return
      <4>3. CASE FinishDestroy(c)
        BY <4>3, <1>p, <1>e DEF FinishDestroy, Go, Move, Return
      <4>4. CASE StopVerifies(c)
        BY <4>4, <1>p, <1>e DEF StopVerifies, Go, Move, Return
      <4>5. CASE StopTerminates(c)
        BY <4>5, <1>p, <1>e DEF StopTerminates, Go, Move, Return
      <4>6. CASE StopGraceOver(c)
        BY <4>6, <1>p, <1>e DEF StopGraceOver, Go, Move, Return
      <4>7. CASE StopGivesUp(c)
        BY <4>7, <1>p, <1>e DEF StopGivesUp, Go, Move, Return
      <4> QED BY <2>3, <4>1, <4>2, <4>3, <4>4, <4>5, <4>6, <4>7
    <3> QED BY <1>0, <2>1, <3>1, AlienElsewhere
  <2> QED BY <1>9, <2>2, <2>3
<1>10. CASE /\ DeployStep(c)
            /\ ~MakeCacheDir(c) /\ ~ClaimCache(c) /\ ~WriteMarker(c)
  <2>1. UNCHANGED cache
    BY <1>10 DEF DeployStep, ResolveFails, Resolved, ClearTombstone,
         CreateDeployment, StartValidating, writeAPIKey, StartDownloading,
         RecordIntent, StartStarting, Launch, LaunchFails, IdentityCaptured,
         BindRuntime, BecomesHealthy, BecomesReady, ChecksFail, RecordHealthy,
         StartRegistering, FinishDeploy, RecordFailure, Advance, onlyCtl,
         otherStore, fileVars
  <2>2. pc'[c] \notin {"xrm", "mwrite", "xlog", "xkey"}
    <3>1. CASE ResolveFails(c)
      BY <3>1, <1>p, <1>e DEF ResolveFails, Go, Move, Return
    <3>2. CASE Resolved(c)
      BY <3>2, <1>p, <1>e DEF Resolved, Go, Move, Return
    <3>3. CASE ClearTombstone(c)
      BY <3>3, <1>p, <1>e DEF ClearTombstone, Go, Move, Return
    <3>4. CASE CreateDeployment(c)
      BY <3>4, <1>p, <1>e DEF CreateDeployment, Go, Move, Return
    <3>5. CASE StartValidating(c)
      BY <3>5, <1>p, <1>e DEF StartValidating, Go, Move, Return
    <3>6. CASE writeAPIKey(c)
      BY <3>6, <1>p, <1>e DEF writeAPIKey, Go, Move, Return
    <3>7. CASE StartDownloading(c)
      BY <3>7, <1>p, <1>e DEF StartDownloading, Go, Move, Return
    <3>8. CASE RecordIntent(c)
      BY <3>8, <1>p, <1>e DEF RecordIntent, Go, Move, Return
    <3>9. CASE StartStarting(c)
      BY <3>9, <1>p, <1>e DEF StartStarting, Go, Move, Return
    <3>10. CASE Launch(c)
      BY <3>10, <1>p, <1>e DEF Launch, Go, Move, Return
    <3>11. CASE LaunchFails(c)
      BY <3>11, <1>p, <1>e DEF LaunchFails, Go, Move, Return
    <3>12. CASE IdentityCaptured(c)
      BY <3>12, <1>p, <1>e DEF IdentityCaptured, Go, Move, Return
    <3>13. CASE BindRuntime(c)
      BY <3>13, <1>p, <1>e DEF BindRuntime, Go, Move, Return
    <3>14. CASE BecomesHealthy(c)
      BY <3>14, <1>p, <1>e DEF BecomesHealthy, Go, Move, Return
    <3>15. CASE BecomesReady(c)
      BY <3>15, <1>p, <1>e DEF BecomesReady, Go, Move, Return
    <3>16. CASE ChecksFail(c)
      BY <3>16, <1>p, <1>e DEF ChecksFail, Go, Move, Return
    <3>17. CASE RecordHealthy(c)
      BY <3>17, <1>p, <1>e DEF RecordHealthy, Go, Move, Return
    <3>18. CASE StartRegistering(c)
      BY <3>18, <1>p, <1>e DEF StartRegistering, Go, Move, Return
    <3>19. CASE FinishDeploy(c)
      BY <3>19, <1>p, <1>e DEF FinishDeploy, Go, Move, Return
    <3>20. CASE RecordFailure(c)
      BY <3>20, <1>p, <1>e DEF RecordFailure, Go, Move, Return
    <3> QED BY <1>10, <3>1, <3>2, <3>3, <3>4, <3>5, <3>6, <3>7, <3>8, <3>9,
           <3>10, <3>11, <3>12, <3>13, <3>14, <3>15, <3>16, <3>17, <3>18,
           <3>19, <3>20            DEF DeployStep
  <2> QED BY <1>0, <2>1, <2>2, AlienElsewhere
<1> QED BY <1>1, <1>2, <1>3, <1>4, <1>5, <1>6, <1>7, <1>8, <1>9, <1>10
        DEF DestroyStep, DeployStep

\* Every step.
LEMMA AlienStep ==
  TypeInv /\ AlienUnmarked /\ [Next]_vars => AlienUnmarked' /\ AlienStays
<1> SUFFICES ASSUME TypeInv, AlienUnmarked, [Next]_vars
             PROVE  AlienUnmarked' /\ AlienStays
  OBVIOUS
<1>0. TypeInv' /\ pc \in [Cli -> Label] /\ cache \in [Id -> Cache]
  BY TypeStep DEF TypeInv, CtlOK, DataOK
<1>1. ASSUME NEW c \in Cli, Invocation(c) \/ CliStep(c) \/ FaultStep(c)
      PROVE  AlienUnmarked' /\ AlienStays
  <2>1. CASE Invocation(c) \/ Acquire(c) \/ StatusBusy(c) \/ Crash(c)
    <3>1. UNCHANGED cache
      BY <2>1 DEF Invocation, Invoke, Acquire, StatusBusy, Crash, onlyCtl,
                  otherStore, fileVars
    <3>2. pc'[c] \in {"idle", "wait", "rlist"}
      BY <1>0, <2>1 DEF Invocation, Invoke, Acquire, StatusBusy, Crash, Move
    <3>3. \A d \in Cli \ {c} : pc'[d] = pc[d] /\ job'[d] = job[d]
      BY <2>1 DEF Invocation, Invoke, Acquire, StatusBusy, Crash, Move,
                  TypeInv, CtlOK
    <3>4. ~Handling(pc'[c], job'[c].owned)
      BY <3>2 DEF Handling
    <3> QED BY <3>1, <3>3, <3>4 DEF AlienUnmarked, AlienStays, cur
  <2>2. CASE RecoveryStep(c) \/ DestroyStep(c) \/ DeployStep(c)
    BY <2>2, AlienCliStep
  <2>3. CASE FaultStep(c) /\ ~Crash(c)
    <3>1. Controlled(c)
      BY <2>3, FaultStepOK DEF StepOK
    <3>2. UNCHANGED cache
      BY <2>3 DEF FaultStep, StoreFails, DiskFails, StopFails, ProbeFails,
                  CaptureFails, ReapedWhileProbed, fileVars
    <3>3. pc'[c] \notin {"xrm", "mwrite", "xlog", "xkey"}
      BY <2>3, <1>0, ErrorsLead
         DEF Move, FaultStep, StoreFails, DiskFails, StopFails, ProbeFails,
             CaptureFails, ReapedWhileProbed
    <3> QED BY <3>1, <3>2, <3>3, AlienElsewhere
  <2> QED BY <1>1, <2>1, <2>2, <2>3 DEF CliStep
<1>2. ASSUME UNCHANGED <<cache, pc, job>> PROVE AlienUnmarked' /\ AlienStays
  BY <1>2 DEF AlienUnmarked, AlienStays, cur
<1>3. ASSUME NEW p \in Pid, ProcessStep(p) PROVE AlienUnmarked' /\ AlienStays
  <2>1. CASE RuntimeDownloads(p)
    <3>1. /\ pc' = pc /\ job' = job
          /\ \A i \in Id : /\ cache'[i].data = "alien"
                                <=> cache[i].data = "alien"
                           /\ cache'[i].marker = cache[i].marker
      BY <1>0, <2>1 DEF RuntimeDownloads, RuntimeWrites, ctlVars, Cache
    <3>2. ASSUME NEW d \in Cli, Handling(pc[d], job[d].owned)
          PROVE  job[d].cur \in Id
      BY <3>2 DEF TypeInv, CtlOK, CurrentKnown, Known, Handling, Working,
                  Label, Critical, Destroying, Deploying
    <3> QED BY <3>1, <3>2 DEF AlienUnmarked, AlienStays, cur
  <2>2. CASE ChildExecFails(p)
    <3>1. CASE UNCHANGED <<pc, job>>
      BY <1>2, <2>2, <3>1 DEF ChildExecFails, fileVars
    <3>2. CASE \E c \in Cli :
                 /\ pc[c] = "exec"
                 /\ Move(c, "ffail", [job[c] EXCEPT !.pid = NoPid, !.tok = 0])
      <4>1. PICK c \in Cli :
              /\ pc[c] = "exec"
              /\ Move(c, "ffail", [job[c] EXCEPT !.pid = NoPid, !.tok = 0])
        BY <3>2
      <4>2. /\ pc[c] \in Working /\ "ffail" \in Label \ {"exec"}
        BY <4>1 DEF Working, Label, Critical, Deploying
      <4>3. Controlled(c)
        BY <4>1, <4>2, MemType, DropMoves DEF TypeInv, Controlled
      <4>4. pc'[c] = "ffail" /\ UNCHANGED cache
        BY <1>0, <2>2, <4>1 DEF Move, ChildExecFails, fileVars
      <4> QED BY <4>3, <4>4, AlienElsewhere
    <3> QED BY <2>2, <3>1, <3>2 DEF ChildExecFails
  <2>3. CASE \/ ChildExecs(p) \/ RuntimeExits(p) \/ RuntimeReaped(p)
             \/ RuntimeForks(p) \/ OthersStart(p)
    BY <1>2, <2>3 DEF ChildExecs, RuntimeExits, RuntimeReaped, RuntimeForks,
                      OthersStart, ctlVars, fileVars
  <2> QED BY <1>3, <2>1, <2>2, <2>3 DEF ProcessStep
<1>4. ASSUME NEW i \in Id, ProxyRuns(i) PROVE AlienUnmarked' /\ AlienStays
  BY <1>2, <1>4 DEF ProxyRuns, ProxyOpensLog, ctlVars
<1>5. CASE UNCHANGED vars
  BY <1>2, <1>5 DEF vars, fileVars, ctlVars
<1> QED BY <1>1, <1>3, <1>4, <1>5 DEF Next

\* prepareModelCache and modelCacheOwnedBy: a directory that holds data iold
\* did not download is never emptied, whatever fails or is killed meanwhile.
THEOREM ForeignDataIsKept == Spec => AlienDataKept
<1>1. Init => AlienUnmarked
  BY DEF Init, FilesInit, AlienUnmarked, Handling, AlienCache, NoCache
<1>2. TypeInv /\ AlienUnmarked /\ [Next]_vars
        => [\A i \in Id : cache[i].data = "alien"
                            => cache'[i].data = "alien"]_vars
  BY AlienStep DEF AlienStays
<1> QED BY <1>1, <1>2, InitTyped, TypeStep, AlienStep, PTL
        DEF Spec, AlienDataKept

-----------------------------------------------------------------------------
(* Processes iold did not start.                                           *)

\* No live stranger is in group g.
Spared(g) ==
  \A p \in Pid : os[p].st = "live" /\ os[p].key = 0 => os[p].pgid # g

\* A recorded process was started after the machine was, and a deployment has
\* a key.
RowsOK ==
  \A i \in Id : /\ db[i].pid # NoPid => db[i].tok # 0
                /\ db[i].phase # Absent => db[i].key # 0

\* A stranger in a group leads it and has been there since the start.
SlotsOK ==
  \A p \in Pid :
    /\ os[p].st = "free" => os[p].key = 0
    /\ os[p].st = "forked" => os[p].key # 0
    /\ os[p].key = 0 /\ os[p].pgid # NoPid => os[p].pgid = p /\ os[p].tok = 0

\* The process a command is about to bind or to stop.
Held(l, j) ==
  /\ j.pid # NoPid => j.tok # 0
  /\ l \in {"exec"} \cup Stopping => j.pid # NoPid
  /\ l \in {"term", "grace"} => Spared(j.pid)
  /\ l = "exec" => os[j.pid].key # 0

Origins == RowsOK /\ SlotsOK /\ \A c \in Cli : Held(pc[c], job[c])

\* What the strangers' proofs start from.
ForeignInv == AgreeInv /\ MutualExclusion /\ Origins

\* A step that takes no process into its hands.
Eased(c) ==
  /\ \/ job'[c].pid = NoPid
     \/ job'[c].pid = job[c].pid /\ job'[c].tok = job[c].tok
  /\ pc'[c] \notin {"exec", "term", "grace", "kill"}
  /\ pc'[c] = "stop" => job'[c].pid # NoPid

\* Errors take none.
LEMMA ErrorsEase ==
  ASSUME TypeInv, NEW c \in Cli
  PROVE  /\ Return(c) => Eased(c)
         /\ TargetFails(c) => Eased(c)
         /\ Fail(c) => Eased(c)
         /\ Rejected(c) => Eased(c)
         /\ \A ok \in BOOLEAN : StopReturns(c, ok) => Eased(c)
         /\ \A l \in Label \ ({"exec"} \cup Stopping) : Go(c, l) => Eased(c)
<1>0. pc \in [Cli -> Label] /\ job \in [Cli -> Job] /\ job[c] \in Job
  BY DEF TypeInv, CtlOK
<1>1. Return(c) => Eased(c)
  BY <1>0 DEF Return, Eased, NoJob
<1>2. ASSUME NEW l \in Label \ ({"exec"} \cup Stopping), Go(c, l)
      PROVE  Eased(c)
  BY <1>0, <1>2 DEF Go, Move, Eased, Stopping
<1>3. ASSUME NEW l \in {"xpick", "ffail", "xcache"},
             Move(c, l, [job[c] EXCEPT !.pid = NoPid, !.tok = 0])
      PROVE  Eased(c)
  BY <1>0, <1>3 DEF Move, Eased, Job
<1>4. TargetFails(c) => Eased(c)
  BY <1>1, <1>3 DEF TargetFails
<1>5. Fail(c) => Eased(c)
  BY <1>0 DEF Fail, Go, Move, Eased
<1>6. Rejected(c) => Eased(c)
  BY <1>1, <1>4, <1>5 DEF Rejected
<1>7. \A ok \in BOOLEAN : StopReturns(c, ok) => Eased(c)
  BY <1>3, <1>4 DEF StopReturns
<1> QED BY <1>1, <1>2, <1>4, <1>5, <1>6, <1>7

\* A step of the command inside keeps what is known of the processes in hand.
LEMMA HeldStep ==
  ASSUME ForeignInv, NEW c \in Cli, pc[c] \in Critical, Controlled(c),
         Held(pc[c], job[c])', RowsOK', SlotsOK'
  PROVE  Origins'
<1>1. \A d \in Cli \ {c} : pc'[d] = pc[d] /\ job'[d] = job[d]
  BY OthersStay DEF ForeignInv, AgreeInv
<1>2. \A d \in Cli \ {c} : pc[d] \notin Critical
  BY DEF ForeignInv, MutualExclusion
<1>3. ASSUME NEW d \in Cli \ {c} PROVE Held(pc[d], job[d])'
  <2>1. pc[d] \notin Stopping \cup {"term", "grace", "exec"}
    BY <1>2 DEF Critical, Stopping, Deploying
  <2>2. job[d].pid # NoPid => job[d].tok # 0
    BY DEF ForeignInv, Origins, Held
  <2> QED BY <1>1, <2>1, <2>2 DEF Held
<1> QED BY <1>3 DEF Origins

\* A step that eases and leaves the process table alone.
LEMMA EasedStep ==
  ASSUME ForeignInv, NEW c \in Cli, pc[c] \in Critical, Controlled(c),
         Eased(c), RowsOK', SlotsOK'
  PROVE  Origins'
<1>1. Held(pc[c], job[c])
  BY DEF ForeignInv, Origins
<1>2. Held(pc[c], job[c])'
  BY <1>1 DEF Held, Eased, Stopping
<1> QED BY <1>2, HeldStep

\* Statements that change the table: the compare-and-set.
LEMMA TransitionRows ==
  ASSUME TypeInv, RowsOK, NEW i \in Id, NEW to, db[i].phase # Absent,
         Transition(i, to, clock)
  PROVE  RowsOK'
BY DEF TypeInv, DataOK, RowsOK, Transition, Row

\* A compare-and-set eases, whether it succeeds or not.
LEMMA AdvanceEases ==
  ASSUME ForeignInv, NEW c \in Cli, pc[c] \in Critical \cap Working, NEW to,
         NEW next \in Label \ ({"exec"} \cup Stopping), Advance(c, to, next)
  PROVE  RowsOK' /\ SlotsOK' /\ Eased(c)
<1>0. /\ TypeInv /\ Origins /\ pc \in [Cli -> Label]
      /\ job \in [Cli -> Job] /\ job[c] \in Job /\ cur(c) \in Id
  BY MemType DEF ForeignInv, AgreeInv, TypeInv, CtlOK
<1>1. SlotsOK'
  BY <1>0 DEF Advance, otherStore, Origins, SlotsOK
<1>2. CASE TransitionOK(cur(c), Mem(c).phase, to)
  <2>1. /\ Transition(cur(c), to, clock)
        /\ Move(c, next, [job[c] EXCEPT !.list[cur(c)].phase = to])
    BY <1>2 DEF Advance
  <2>2. db[cur(c)].phase # Absent
    BY <1>2 DEF TransitionOK, checkTransition, Phase, Absent
  <2>3. RowsOK'
    BY <1>0, <2>1, <2>2, TransitionRows DEF Origins
  <2>4. Eased(c)
    BY <1>0, <2>1 DEF Move, Eased, Job, Stopping
  <2> QED BY <1>1, <2>3, <2>4
<1>3. CASE ~TransitionOK(cur(c), Mem(c).phase, to)
  <2>1. Rejected(c) /\ UNCHANGED db
    BY <1>3 DEF Advance
  <2> QED BY <1>0, <1>1, <2>1, ErrorsEase DEF Origins, RowsOK
<1> QED BY <1>2, <1>3

\* Recovery and the choice of targets.
LEMMA RecoveryOrigins ==
  ASSUME ForeignInv, NEW c \in Cli, RecoveryStep(c)
  PROVE  Origins' /\ UNCHANGED os
<1> USE DEF Label, Critical, Recovering, Destroying, Stopping, Deploying
<1>0. /\ TypeInv /\ Origins /\ pc[c] \in Critical /\ Controlled(c)
      /\ pc \in [Cli -> Label] /\ job \in [Cli -> Job] /\ job[c] \in Job
      /\ db \in [Id -> Row] /\ Facts(pc[c], job[c], db)
      /\ pc[c] \in Working => cur(c) \in Id
  BY RecoveryStepOK, Here
     DEF StepOK, ForeignInv, AgreeInv, TypeInv, CtlOK, DataOK
<1>o. UNCHANGED os /\ SlotsOK'
  <2>1. UNCHANGED os
    BY DEF RecoveryStep, RecoverList, RecoverNext, RecoverDone, RecoverScan,
           RecoverAdopt, RecoverProbe, RecoverCrash, Advance, StatusReports,
           DestroyTargets, DeployTargets, onlyCtl, otherStore
  <2> QED BY <1>0, <2>1 DEF Origins, SlotsOK
<1>r. UNCHANGED onlyCtl => RowsOK'
  BY <1>0 DEF onlyCtl, Origins, RowsOK
<1>1. CASE RecoverList(c) \/ RecoverNext(c) \/ RecoverDone(c)
           \/ RecoverProbe(c) \/ StatusReports(c) \/ DestroyTargets(c)
           \/ DeployTargets(c)
  <2>1. UNCHANGED onlyCtl
    BY <1>1 DEF RecoverList, RecoverNext, RecoverDone, RecoverProbe,
                StatusReports, DestroyTargets, DeployTargets
  <2>2. Eased(c)
    <3>1. CASE RecoverList(c)
      BY <1>0, <3>1 DEF RecoverList, Move, Eased, Job
    <3>2. CASE RecoverNext(c)
      BY <1>0, <3>2 DEF RecoverNext, RecoverRoute, Move, Eased, Job
    <3>3. CASE RecoverDone(c)
      BY <1>0, <3>3, ErrorsEase DEF RecoverDone
    <3>4. CASE RecoverProbe(c)
      BY <1>0, <3>4, ErrorsEase DEF RecoverProbe
    <3>5. CASE StatusReports(c)
      BY <1>0, <3>5, ErrorsEase DEF StatusReports
    <3>6. CASE DestroyTargets(c)
      <4>1. CASE Return(c)
        BY <1>0, <4>1, ErrorsEase
      <4>2. CASE \E todo : Move(c, "xpick", [job[c] EXCEPT !.list = db,
                                                          !.todo = todo])
        BY <1>0, <4>2 DEF Move, Eased, Job
      <4> QED BY <3>6, <4>1, <4>2 DEF DestroyTargets
    <3>7. CASE DeployTargets(c)
      <4>1. CASE Return(c)
        BY <1>0, <4>1, ErrorsEase
      <4>2. CASE Move(c, "resolve", [job[c] EXCEPT !.list = db,
                                                  !.todo = existing])
        BY <1>0, <4>2 DEF Move, Eased, Job
      <4> QED BY <3>7, <4>1, <4>2 DEF DeployTargets
    <3> QED BY <1>1, <3>1, <3>2, <3>3, <3>4, <3>5, <3>6, <3>7
  <2> QED BY <1>0, <1>o, <1>r, <2>1, <2>2, EasedStep
<1>2. CASE RecoverScan(c)
  <2>1. CASE Go(c, "rcrash")
    BY <1>0, <1>2, <1>o, <1>r, <2>1, ErrorsEase, EasedStep DEF RecoverScan
  <2>2. ASSUME NEW p \in Pid, os[p].tok > Mem(c).upd,
               Move(c, "radopt", [job[c] EXCEPT !.pid = p, !.tok = os[p].tok])
        PROVE  Held(pc[c], job[c])'
    <3>1. pc'[c] = "radopt" /\ job'[c].tok = os[p].tok
      BY <1>0, <2>2 DEF Move, Job
    <3>2. os[p].tok \in Nat /\ Mem(c).upd \in Nat
      BY <1>0, <1>2, MemType
         DEF RecoverScan, TypeInv, DataOK, Slot, Row, Working
    <3>3. os[p].tok # 0
      BY <2>2, <3>2
    <3> QED BY <3>1, <3>3 DEF Held
  <2>3. \/ Go(c, "rcrash")
        \/ \E p \in Pid :
             /\ os[p].tok > Mem(c).upd
             /\ Move(c, "radopt", [job[c] EXCEPT !.pid = p, !.tok = os[p].tok])
    BY <1>2 DEF RecoverScan, FindByCommand
  <2> QED BY <1>0, <1>2, <1>o, <1>r, <2>1, <2>2, <2>3, HeldStep
          DEF RecoverScan
<1>3. CASE RecoverAdopt(c)
  <2>1. /\ SetRuntime(cur(c), job[c].pid, job[c].tok, clock)
        /\ pc'[c] = "rprobe" /\ job'[c].pid = NoPid /\ cur(c) \in Id
    <3>1. /\ SetRuntime(cur(c), job[c].pid, job[c].tok, clock)
          /\ Move(c, "rprobe", [job[c] EXCEPT !.list[cur(c)].pid = job[c].pid,
                                              !.list[cur(c)].tok = job[c].tok,
                                              !.pid = NoPid, !.tok = 0])
      BY <1>3, FactsAccepted
         DEF RecoverAdopt, StoreNeverRefuses, ForeignInv
    <3>2. cur(c) \in Id
      BY <1>0, <1>3 DEF RecoverAdopt, Working
    <3> QED BY <1>0, <3>1, <3>2 DEF Move, Job
  <2>2. Eased(c)
    BY <2>1 DEF Eased
  <2>3. job[c].pid # NoPid => job[c].tok # 0
    BY <1>0 DEF Origins, Held
  <2>4. RowsOK'
    <3>1. /\ \A i \in Id \ {cur(c)} : db'[i] = db[i]
          /\ db'[cur(c)].pid = job[c].pid /\ db'[cur(c)].tok = job[c].tok
          /\ db'[cur(c)].phase = db[cur(c)].phase
          /\ db'[cur(c)].key = db[cur(c)].key
      BY <1>0, <2>1 DEF SetRuntime, Row
    <3> QED BY <1>0, <2>1, <2>3, <3>1 DEF Origins, RowsOK
  <2> QED BY <1>0, <1>o, <2>2, <2>4, EasedStep
<1>4. CASE RecoverCrash(c)
  <2>1. pc[c] \in Critical \cap Working
    BY <1>4 DEF RecoverCrash, Working
  <2> QED BY <1>0, <1>4, <1>o, <2>1, AdvanceEases, EasedStep
          DEF RecoverCrash
<1> QED BY <1>1, <1>2, <1>3, <1>4, <1>o DEF RecoveryStep

\* What a step may do to a stranger: nothing.
Unharmed == \A p \in Pid : os[p].st = "live" /\ os[p].key = 0 => os'[p] = os[p]

\* Errors and plain moves of the command inside.
LEMMA ControlOrigins ==
  ASSUME ForeignInv, NEW c \in Cli, pc[c] \in Critical, Controlled(c),
         Eased(c), UNCHANGED <<db, os>>
  PROVE  Origins'
<1>1. RowsOK' /\ SlotsOK'
  BY DEF ForeignInv, Origins, RowsOK, SlotsOK
<1> QED BY <1>1, EasedStep

\* destroyOne and supervisor.Stop.
LEMMA DestroyOrigins ==
  ASSUME ForeignInv, NEW c \in Cli, DestroyStep(c)
  PROVE  Origins' /\ Unharmed
<1> USE DEF Label, Critical, Recovering, Destroying, Stopping, Deploying
<1>0. /\ TypeInv /\ Origins /\ pc[c] \in Critical /\ Controlled(c)
      /\ pc \in [Cli -> Label] /\ job \in [Cli -> Job] /\ job[c] \in Job
      /\ db \in [Id -> Row] /\ os \in [Pid -> Slot]
      /\ Facts(pc[c], job[c], db)
      /\ Held(pc[c], job[c]) /\ RowsOK /\ SlotsOK
      /\ pc[c] \in Working => cur(c) \in Id
  BY DestroyStepOK, Here
     DEF StepOK, ForeignInv, AgreeInv, TypeInv, CtlOK, DataOK, Origins
<1>e. /\ Return(c) => Eased(c)
      /\ TargetFails(c) => Eased(c)
      /\ Rejected(c) => Eased(c)
      /\ \A ok \in BOOLEAN : StopReturns(c, ok) => Eased(c)
      /\ \A l \in Label \ ({"exec"} \cup Stopping) : Go(c, l) => Eased(c)
  BY <1>0, ErrorsEase
<1>u. UNCHANGED os => Unharmed
  BY DEF Unharmed
<1>1. CASE DestroyNext(c)
  <2>1. PICK i \in job[c].todo :
          Move(c, DestroyRoute(c, job[c].list[i].phase),
               [job[c] EXCEPT !.cur = i, !.todo = @ \ {i}])
    BY <1>1 DEF DestroyNext
  <2>2. Eased(c)
    BY <1>0, <2>1 DEF DestroyRoute, Move, Eased, Job
  <2> QED BY <1>0, <1>1, <1>u, <2>2, ControlOrigins
          DEF DestroyNext, onlyCtl, otherStore
<1>2. CASE DestroyDone(c)
  <2>1. ASSUME Move(c, "tomb", [job[c] EXCEPT !.cur = job[c].target])
        PROVE  Eased(c)
    BY <1>0, <2>1 DEF Move, Eased, Job
  <2>2. Eased(c)
    BY <1>2, <1>e, <2>1 DEF DestroyDone
  <2> QED BY <1>0, <1>2, <1>u, <2>2, ControlOrigins
          DEF DestroyDone, onlyCtl, otherStore
<1>3. CASE RouteThroughFailed(c) \/ BeginDestroy(c) \/ FinishDestroy(c)
  <2>1. pc[c] \in Critical \cap Working
    BY <1>3 DEF RouteThroughFailed, BeginDestroy, FinishDestroy, Working
  <2>2. \E to, next : /\ next \in Label \ ({"exec"} \cup Stopping)
                      /\ Advance(c, to, next)
    BY <1>3 DEF RouteThroughFailed, BeginDestroy, FinishDestroy
  <2>3. UNCHANGED os
    BY <2>2 DEF Advance, otherStore
  <2> QED BY <1>0, <1>u, <2>1, <2>2, <2>3, AdvanceEases, EasedStep
<1>4. CASE DestroyProbe(c)
  <2>1. CASE Move(c, "stop", [job[c] EXCEPT !.pid = Mem(c).pid,
                                            !.tok = Mem(c).tok])
             /\ Mem(c).pid # NoPid
    <3>1. /\ pc'[c] = "stop"
          /\ job'[c].pid = Mem(c).pid /\ job'[c].tok = Mem(c).tok
      BY <1>0, <2>1 DEF Move, Job
    <3>2. pc[c] = "xprobe" /\ cur(c) \in Id
      BY <1>0, <1>4 DEF DestroyProbe, Working
    <3>3. Current(pc[c], job[c], db) /\ MadeAt(pc[c], job[c])
      BY <1>0 DEF Facts
    <3>4. Mem(c).pid = db[cur(c)].pid /\ Mem(c).tok = db[cur(c)].tok
      BY <3>2, <3>3 DEF Current, MadeAt, Making, Working, Mem, cur
    <3>5. job'[c].tok # 0
      BY <1>0, <2>1, <3>1, <3>2, <3>4 DEF RowsOK
    <3>6. Held(pc[c], job[c])'
      BY <2>1, <3>1, <3>5 DEF Held
    <3>7. UNCHANGED <<db, os>>
      BY <1>4 DEF DestroyProbe, onlyCtl, otherStore
    <3>8. RowsOK' /\ SlotsOK'
      BY <1>0, <3>7 DEF RowsOK, SlotsOK
    <3> QED BY <1>0, <1>u, <3>6, <3>7, <3>8, HeldStep
  <2>2. CASE Eased(c)
    BY <1>0, <1>4, <1>u, <2>2, ControlOrigins
       DEF DestroyProbe, onlyCtl, otherStore
  <2> QED BY <1>4, <1>e, <2>1, <2>2 DEF DestroyProbe
<1>5. CASE CheckCache(c)
  <2>1. ASSUME NEW b \in BOOLEAN,
               Move(c, "xlog", [job[c] EXCEPT !.owned = b])
        PROVE  Eased(c)
    BY <1>0, <2>1 DEF Move, Eased, Job
  <2>2. Eased(c)
    BY <1>5, <1>e, <2>1 DEF CheckCache
  <2> QED BY <1>0, <1>5, <1>u, <2>2, ControlOrigins
          DEF CheckCache, onlyCtl, otherStore
<1>6. CASE RemoveLog(c) \/ RemoveCacheEntry(c) \/ RemoveCacheDir(c)
  <2>1. \E l \in Label \ ({"exec"} \cup Stopping) : Go(c, l)
    BY <1>6 DEF RemoveLog, RemoveCacheEntry, RemoveCacheDir
  <2>2. UNCHANGED <<db, os>>
    BY <1>6 DEF RemoveLog, RemoveCacheEntry, RemoveCacheDir
  <2> QED BY <1>0, <1>e, <1>u, <2>1, <2>2, ControlOrigins
<1>7. CASE RemoveKey(c)
  <2>1. Eased(c)
    BY <1>0, <1>7 DEF RemoveKey, Move, Eased, Job
  <2> QED BY <1>0, <1>7, <1>u, <2>1, ControlOrigins DEF RemoveKey
<1>8. CASE Purge(c)
  <2>1. Delete(cur(c)) /\ Go(c, "xpick") /\ UNCHANGED os
    BY <1>8, FactsAccepted
       DEF Purge, StoreNeverRefuses, ForeignInv, otherStore
  <2>2. RowsOK' /\ SlotsOK'
    BY <1>0, <2>1 DEF Delete, NoRow, RowsOK, SlotsOK
  <2> QED BY <1>0, <1>e, <1>u, <2>1, <2>2, EasedStep
<1>9. CASE StopVerifies(c)
  <2>0. UNCHANGED <<db, os>>
    BY <1>9 DEF StopVerifies, onlyCtl, otherStore
  <2>1. CASE Owned(job[c].pid, job[c].tok, cur(c)) /\ Go(c, "term")
    <3>1. pc'[c] = "term" /\ job'[c] = job[c]
      BY <1>0, <2>1 DEF Go, Move
    <3>2. job[c].pid \in Pid /\ job[c].pid # NoPid /\ job[c].tok # 0
      BY <1>0, <1>9 DEF StopVerifies, Held, Job
    <3>3. os[job[c].pid].tok # 0
      BY <2>1, <3>2 DEF Owned
    <3>4. Spared(job[c].pid)
      BY <1>0, <3>2, <3>3 DEF Spared, SlotsOK
    <3>5. Held(pc[c], job[c])'
      BY <2>0, <3>1, <3>2, <3>4 DEF Held, Spared
    <3>6. RowsOK' /\ SlotsOK'
      BY <1>0, <2>0 DEF RowsOK, SlotsOK
    <3> QED BY <1>0, <1>u, <2>0, <3>5, <3>6, HeldStep
  <2>2. CASE \E ok \in BOOLEAN : StopReturns(c, ok)
    BY <1>0, <1>e, <1>u, <2>0, <2>2, ControlOrigins
  <2> QED BY <1>9, <2>1, <2>2 DEF StopVerifies
<1>10. CASE StopTerminates(c)
  <2>1. UNCHANGED <<db, os>> /\ pc'[c] = "grace" /\ job'[c] = job[c]
    BY <1>0, <1>10 DEF StopTerminates, onlyCtl, otherStore, Go, Move
  <2>2. Held(pc[c], job[c])'
    BY <1>0, <1>10, <2>1 DEF StopTerminates, Held, Spared
  <2>3. RowsOK' /\ SlotsOK'
    BY <1>0, <2>1 DEF RowsOK, SlotsOK
  <2> QED BY <1>0, <1>u, <2>1, <2>2, <2>3, HeldStep
<1>11. CASE StopGraceOver(c)
  <2>0. UNCHANGED db
    BY <1>11 DEF StopGraceOver
  <2>1. CASE KillGroup(job[c].pid) /\ Go(c, "kill")
    <3>1. pc'[c] = "kill" /\ job'[c] = job[c]
      BY <1>0, <2>1 DEF Go, Move
    <3>2. Held(pc[c], job[c])'
      BY <1>0, <1>11, <3>1 DEF StopGraceOver, Held
    <3>3. /\ \A p \in Pid : \/ os'[p] = os[p]
                            \/ os'[p] = Dead(os[p]) /\ os[p].pgid = job[c].pid
          /\ Spared(job[c].pid)
      BY <1>0, <1>11, <2>1 DEF StopGraceOver, KillGroup, Held
    <3>4. \A p \in Pid : /\ Dead(os[p]).st = "zombie"
                         /\ Dead(os[p]).key = os[p].key
                         /\ Dead(os[p]).pgid = os[p].pgid
                         /\ Dead(os[p]).tok = os[p].tok
      BY <1>0 DEF Dead, Slot
    <3>5. RowsOK' /\ SlotsOK'
      BY <1>0, <2>0, <3>3, <3>4 DEF RowsOK, SlotsOK
    <3>6. Unharmed
      BY <2>1, <1>0, <3>3 DEF Unharmed, Spared, KillGroup
    <3> QED BY <1>0, <3>2, <3>5, <3>6, HeldStep
  <2>2. CASE UNCHANGED os /\ StopReturns(c, TRUE)
    BY <1>0, <1>e, <1>u, <2>0, <2>2, ControlOrigins
  <2> QED BY <1>11, <2>1, <2>2 DEF StopGraceOver
<1>12. CASE StopGivesUp(c)
  <2>1. \E ok \in BOOLEAN : StopReturns(c, ok)
    BY <1>12 DEF StopGivesUp
  <2> QED BY <1>0, <1>12, <1>e, <1>u, <2>1, ControlOrigins
          DEF StopGivesUp, onlyCtl, otherStore
<1> QED BY <1>1, <1>2, <1>3, <1>4, <1>5, <1>6, <1>7, <1>8, <1>9, <1>10, <1>11,
           <1>12 DEF DestroyStep

\* executeDeploy.
LEMMA DeployOrigins ==
  ASSUME ForeignInv, NEW c \in Cli, DeployStep(c)
  PROVE  Origins' /\ Unharmed
<1> USE DEF Label, Critical, Recovering, Destroying, Stopping, Deploying
<1>0. /\ TypeInv /\ Origins /\ pc[c] \in Critical /\ Controlled(c)
      /\ pc \in [Cli -> Label] /\ job \in [Cli -> Job] /\ job[c] \in Job
      /\ db \in [Id -> Row] /\ os \in [Pid -> Slot]
      /\ Facts(pc[c], job[c], db)
      /\ Held(pc[c], job[c]) /\ RowsOK /\ SlotsOK
      /\ pc[c] \in Working => cur(c) \in Id
  BY DeployStepOK, Here
     DEF StepOK, ForeignInv, AgreeInv, TypeInv, CtlOK, DataOK, Origins
<1>e. /\ Return(c) => Eased(c)
      /\ Fail(c) => Eased(c)
      /\ Rejected(c) => Eased(c)
      /\ \A l \in Label \ ({"exec"} \cup Stopping) : Go(c, l) => Eased(c)
  BY <1>0, ErrorsEase
<1>u. UNCHANGED os => Unharmed
  BY DEF Unharmed
<1>1. CASE \/ ResolveFails(c) \/ Resolved(c) \/ writeAPIKey(c)
           \/ MakeCacheDir(c) \/ ClaimCache(c) \/ WriteMarker(c)
           \/ LaunchFails(c) \/ IdentityCaptured(c) \/ BecomesHealthy(c)
           \/ BecomesReady(c) \/ ChecksFail(c)
  <2>1. UNCHANGED <<db, os>>
    BY <1>1 DEF ResolveFails, Resolved, writeAPIKey, MakeCacheDir, ClaimCache,
         WriteMarker, LaunchFails, IdentityCaptured, BecomesHealthy,
         BecomesReady, ChecksFail, onlyCtl, otherStore
  <2>2. Return(c) \/ Fail(c) \/ Rejected(c)
          \/ \E l \in Label \ ({"exec"} \cup Stopping) : Go(c, l)
    BY <1>1 DEF ResolveFails, Resolved, writeAPIKey, MakeCacheDir, ClaimCache,
         WriteMarker, LaunchFails, IdentityCaptured, BecomesHealthy,
         BecomesReady, ChecksFail
  <2> QED BY <1>0, <1>e, <1>u, <2>1, <2>2, ControlOrigins
<1>2. CASE \/ StartValidating(c) \/ StartDownloading(c) \/ StartStarting(c)
           \/ RecordHealthy(c) \/ StartRegistering(c)
  <2>1. pc[c] \in Critical \cap Working
    BY <1>2 DEF StartValidating, StartDownloading, StartStarting,
                RecordHealthy, StartRegistering, Working
  <2>2. \E to, next : /\ next \in Label \ ({"exec"} \cup Stopping)
                      /\ Advance(c, to, next)
    BY <1>2 DEF StartValidating, StartDownloading, StartStarting,
                RecordHealthy, StartRegistering
  <2>3. UNCHANGED os
    BY <2>2 DEF Advance, otherStore
  <2> QED BY <1>0, <1>u, <2>1, <2>2, <2>3, AdvanceEases, EasedStep
<1>3. CASE ClearTombstone(c)
  <2>1. Go(c, "create") /\ UNCHANGED os
    BY <1>3 DEF ClearTombstone, otherStore
  <2>2. RowsOK' /\ SlotsOK'
    BY <1>0, <1>3, <2>1
       DEF ClearTombstone, Delete, NoRow, RowsOK, SlotsOK
  <2> QED BY <1>0, <1>e, <1>u, <2>1, <2>2, EasedStep
<1>4. CASE CreateDeployment(c)
  <2>1. /\ Create(cur(c), deploys + 1, clock) /\ UNCHANGED os
        /\ Move(c, "validate",
               [job[c] EXCEPT !.list[cur(c)] = NewRow(deploys + 1, clock),
                              !.made = TRUE])
    BY <1>4, FactsAccepted DEF CreateDeployment, StoreNeverRefuses, ForeignInv
  <2>2. Eased(c)
    BY <1>0, <2>1 DEF Move, Eased, Job
  <2>3. /\ NewRow(deploys + 1, clock).pid = NoPid
        /\ NewRow(deploys + 1, clock).key = deploys + 1
        /\ deploys + 1 # 0
    BY <1>0 DEF NewRow, NoRow, TypeInv, DataOK
  <2>4. RowsOK' /\ SlotsOK'
    BY <1>0, <2>1, <2>3 DEF Create, RowsOK, SlotsOK
  <2> QED BY <1>0, <1>u, <2>1, <2>2, <2>4, EasedStep
<1>5. CASE RecordIntent(c)
  <2>1. /\ SetRuntimeIntent(cur(c), clock) /\ Go(c, "starting")
        /\ UNCHANGED os /\ cur(c) \in Id /\ db[cur(c)].phase = "DOWNLOADING"
    BY <1>0, <1>5, FactsAccepted
       DEF RecordIntent, StoreNeverRefuses, ForeignInv, otherStore,
           SetRuntimeIntentOK, Working
  <2>2. /\ \A i \in Id \ {cur(c)} : db'[i] = db[i]
        /\ db'[cur(c)].pid = NoPid /\ db'[cur(c)].key = db[cur(c)].key
        /\ db'[cur(c)].phase = db[cur(c)].phase
    BY <1>0, <2>1 DEF SetRuntimeIntent, Row
  <2>3. RowsOK' /\ SlotsOK'
    BY <1>0, <2>1, <2>2 DEF RowsOK, SlotsOK
  <2> QED BY <1>0, <1>e, <1>u, <2>1, <2>3, EasedStep
<1>6. CASE Launch(c)
  <2>1. PICK p \in Pid :
          /\ Unused(p)
          /\ Fork(p, cur(c), Mem(c).key)
          /\ Move(c, "exec", [job[c] EXCEPT !.pid = p, !.tok = clock + 1])
    BY <1>6 DEF Launch
  <2>2. pc[c] = "launch" /\ cur(c) \in Id /\ clock \in Nat /\ UNCHANGED db
    BY <1>0, <1>6 DEF Launch, Working, TypeInv, DataOK
  <2>3. Mem(c).key = db[cur(c)].key /\ db[cur(c)].phase = "STARTING"
    <3>1. Current(pc[c], job[c], db)
      BY <1>0 DEF Facts
    <3> QED BY <2>2, <3>1 DEF Current, Expecting, Working, Mem, cur
  <2>4. Mem(c).key # 0
    BY <1>0, <2>2, <2>3 DEF RowsOK, Absent
  <2>5. /\ os'[p].st = "forked" /\ os'[p].key # 0
        /\ \A q \in Pid \ {p} : os'[q] = os[q]
    BY <1>0, <2>1, <2>4 DEF Fork
  <2>6. pc'[c] = "exec" /\ job'[c].pid = p /\ job'[c].tok = clock + 1
    BY <1>0, <2>1 DEF Move, Job
  <2>7. p # NoPid /\ clock + 1 # 0
    BY <2>2, UniverseAssumption
  <2>8. Held(pc[c], job[c])'
    BY <2>5, <2>6, <2>7 DEF Held
  <2>9. RowsOK' /\ SlotsOK'
    BY <1>0, <2>2, <2>5 DEF RowsOK, SlotsOK
  <2>10. Unharmed
    BY <2>1, <2>5 DEF Unharmed, Unused, Alive
  <2> QED BY <1>0, <2>8, <2>9, <2>10, HeldStep
<1>7. CASE BindRuntime(c)
  <2>1. /\ SetRuntime(cur(c), job[c].pid, job[c].tok, clock)
        /\ Go(c, "health") /\ UNCHANGED os /\ cur(c) \in Id
    BY <1>0, <1>7, FactsAccepted
       DEF BindRuntime, StoreNeverRefuses, ForeignInv, otherStore, Working
  <2>2. /\ \A i \in Id \ {cur(c)} : db'[i] = db[i]
        /\ db'[cur(c)].pid = job[c].pid /\ db'[cur(c)].tok = job[c].tok
        /\ db'[cur(c)].phase = db[cur(c)].phase
        /\ db'[cur(c)].key = db[cur(c)].key
    BY <1>0, <2>1 DEF SetRuntime, Row
  <2>3. RowsOK' /\ SlotsOK'
    BY <1>0, <2>1, <2>2 DEF RowsOK, SlotsOK, Held
  <2> QED BY <1>0, <1>e, <1>u, <2>1, <2>3, EasedStep
<1>8. CASE FinishDeploy(c) \/ RecordFailure(c)
  <2>1. UNCHANGED os
    BY <1>8 DEF FinishDeploy, RecordFailure, otherStore
  <2>2. cur(c) \in Id
    BY <1>0, <1>8 DEF FinishDeploy, RecordFailure, Working
  <2>3. Eased(c)
    BY <1>8, <1>e DEF FinishDeploy, RecordFailure
  <2>4. CASE UNCHANGED db
    BY <1>0, <1>u, <2>1, <2>3, <2>4, ControlOrigins
  <2>5. ASSUME NEW to, Transition(cur(c), to, clock),
               TransitionOK(cur(c), Mem(c).phase, to)
        PROVE  Origins'
    <3>1. db[cur(c)].phase # Absent
      BY <2>5 DEF TransitionOK, checkTransition, Phase, Absent
    <3>2. RowsOK' /\ SlotsOK'
      BY <1>0, <2>1, <2>2, <2>5, <3>1, TransitionRows DEF SlotsOK
    <3> QED BY <1>0, <2>3, <3>2, EasedStep
  <2> QED BY <1>8, <1>u, <2>1, <2>4, <2>5 DEF FinishDeploy, RecordFailure
<1> QED BY <1>1, <1>2, <1>3, <1>4, <1>5, <1>6, <1>7, <1>8 DEF DeployStep

\* Every fault but a kill.
LEMMA FaultOrigins ==
  ASSUME ForeignInv, NEW c \in Cli, FaultStep(c), ~Crash(c)
  PROVE  Origins' /\ Unharmed
<1> USE DEF Label, Critical, Recovering, Destroying, Stopping, Deploying
<1>0. /\ pc[c] \in Critical /\ Controlled(c) /\ job[c] \in Job
      /\ pc \in [Cli -> Label] /\ job \in [Cli -> Job]
      /\ os \in [Pid -> Slot] /\ TypeInv
      /\ Held(pc[c], job[c]) /\ RowsOK /\ SlotsOK
  BY FaultStepOK
     DEF StepOK, ForeignInv, AgreeInv, TypeInv, CtlOK, DataOK, Origins
<1>1. CASE CaptureFails(c)
  <2>1. pc[c] = "exec" /\ KillGroupAndWait(job[c].pid) /\ UNCHANGED db
    BY <1>1 DEF CaptureFails
  <2>2. Eased(c)
    BY <1>0, <1>1 DEF CaptureFails, Move, Eased, Job
  <2>3. \A p \in Pid : \/ os'[p] = os[p]
                       \/ os'[p] = FreeSlot /\ p = job[c].pid
                       \/ os'[p] = Dead(os[p]) /\ os[p].pgid = job[c].pid
    BY <1>0, <2>1 DEF KillGroupAndWait
  <2>4. \A p \in Pid : /\ Dead(os[p]).st = "zombie"
                       /\ Dead(os[p]).key = os[p].key
                       /\ Dead(os[p]).pgid = os[p].pgid
                       /\ Dead(os[p]).tok = os[p].tok
    BY <1>0 DEF Dead, Slot
  <2>5. FreeSlot.st = "free" /\ FreeSlot.key = 0 /\ FreeSlot.pgid = NoPid
    BY DEF FreeSlot
  <2>6. RowsOK' /\ SlotsOK'
    BY <1>0, <2>1, <2>3, <2>4, <2>5 DEF RowsOK, SlotsOK
  <2>7. Unharmed
    <3>1. job[c].pid # NoPid /\ os[job[c].pid].key # 0
      BY <1>0, <2>1 DEF Held
    <3> QED BY <1>0, <2>3, <3>1 DEF Unharmed, SlotsOK
  <2> QED BY <1>0, <2>2, <2>6, <2>7, EasedStep
<1>2. CASE ~CaptureFails(c)
  <2>1. Rejected(c) \/ StopReturns(c, FALSE)
    BY <1>2 DEF FaultStep, StoreFails, DiskFails, StopFails, ProbeFails,
                ReapedWhileProbed
  <2>2. Eased(c)
    BY <1>0, <2>1, ErrorsEase
  <2>3. CASE UNCHANGED os
    <3>1. UNCHANGED db
      BY <1>2 DEF FaultStep, StoreFails, DiskFails, StopFails, ProbeFails,
                  ReapedWhileProbed
    <3> QED BY <1>0, <2>2, <2>3, <3>1, ControlOrigins DEF Unharmed
  <2>4. CASE \E p \in Pid \cup {NoPid} :
               /\ p # NoPid /\ os[p].st = "zombie"
               /\ os' = [os EXCEPT ![p] = FreeSlot] /\ UNCHANGED db
    <3>1. RowsOK' /\ SlotsOK' /\ Unharmed
      BY <1>0, <2>4 DEF RowsOK, SlotsOK, FreeSlot, Unharmed
    <3> QED BY <1>0, <2>2, <3>1, EasedStep
  <2>5. CASE ReapedWhileProbed(c)
    <3>1. Mem(c).pid \in Pid \cup {NoPid}
      BY <1>0, <2>5, MemType DEF ReapedWhileProbed, TypeInv, Working, Row
    <3> QED BY <2>4, <2>5, <3>1 DEF ReapedWhileProbed, Reaped
  <2>6. CASE ~ReapedWhileProbed(c)
    BY <1>2, <2>3, <2>6
       DEF FaultStep, StoreFails, DiskFails, StopFails, ProbeFails
  <2> QED BY <2>5, <2>6
<1> QED BY <1>1, <1>2

\* Steps of the environment.  The kernel gives a new process a pid that no
\* process and no group has.
LEMMA ProcessOrigins ==
  ASSUME ForeignInv, StrangersLead = FALSE, NEW p \in Pid, ProcessStep(p)
  PROVE  Origins' /\ (pc' # pc => Unharmed)
<1>0. /\ TypeInv /\ os \in [Pid -> Slot] /\ os[p] \in Slot
      /\ pc \in [Cli -> Label] /\ job \in [Cli -> Job]
      /\ RowsOK /\ SlotsOK /\ \A d \in Cli : Held(pc[d], job[d])
  BY DEF ForeignInv, AgreeInv, TypeInv, DataOK, CtlOK, Origins
<1>d. UNCHANGED db => RowsOK'
  BY <1>0 DEF RowsOK
<1>1. CASE ChildExecs(p) \/ RuntimeExits(p)
  <2>1. /\ UNCHANGED <<db, pc, job>>
        /\ \A q \in Pid \ {p} : os'[q] = os[q]
        /\ os'[p].key = os[p].key /\ os'[p].pgid = os[p].pgid
        /\ os'[p].tok = os[p].tok
        /\ \/ os[p].st = "forked" /\ os'[p].st = "live"
           \/ os[p].st = "live" /\ os'[p].st = "zombie"
    <3>1. CASE ChildExecs(p)
      BY <1>0, <3>1 DEF ChildExecs, Slot
    <3>2. CASE RuntimeExits(p)
      BY <1>0, <3>2 DEF RuntimeExits, ProcessExits, Dead, Slot, ctlVars
    <3> QED BY <1>1, <3>1, <3>2
  <2>2. SlotsOK'
    BY <1>0, <2>1 DEF SlotsOK
  <2>3. ASSUME NEW g, Spared(g) PROVE Spared(g)'
    BY <1>0, <2>1, <2>3 DEF Spared, SlotsOK
  <2>4. ASSUME NEW d \in Cli PROVE Held(pc[d], job[d])'
    <3>1. pc[d] = "exec" => job[d].pid \in Pid
      BY <1>0, UniverseAssumption DEF Held, TypeInv, CtlOK, CurrentKnown, Known
    <3> QED BY <1>0, <2>1, <2>3, <3>1 DEF Held
  <2> QED BY <1>d, <2>1, <2>2, <2>4 DEF Origins
<1>2. CASE ChildExecFails(p)
  <2>1. /\ UNCHANGED db /\ os[p].st = "forked"
        /\ \A q \in Pid \ {p} : os'[q] = os[q]
        /\ os'[p] = FreeSlot
    BY <1>0, <1>2 DEF ChildExecFails
  <2>2. SlotsOK' /\ RowsOK' /\ Unharmed
    BY <1>0, <1>d, <2>1 DEF SlotsOK, FreeSlot, Unharmed
  <2>3. ASSUME NEW g, Spared(g) PROVE Spared(g)'
    BY <2>1, <2>3 DEF Spared, FreeSlot
  <2>4. CASE \E c \in Cli :
               /\ pc[c] = "exec"
               /\ Move(c, "ffail", [job[c] EXCEPT !.pid = NoPid, !.tok = 0])
    <3>1. PICK c \in Cli :
            /\ pc[c] = "exec"
            /\ Move(c, "ffail", [job[c] EXCEPT !.pid = NoPid, !.tok = 0])
      BY <2>4
    <3>2. /\ pc[c] \in Working \cap Critical /\ "ffail" \in Label \ {"exec"}
      BY <3>1 DEF Working, Label, Critical, Deploying
    <3>3. Controlled(c)
      BY <1>0, <3>1, <3>2, MemType, DropMoves DEF TypeInv, Controlled
    <3>4. job[c] \in Job
      BY <1>0
    <3>5. Eased(c)
      BY <1>0, <3>1, <3>4 DEF Move, Eased, Job, Stopping
    <3> QED BY <2>2, <3>2, <3>3, <3>5, EasedStep
  <2>5. CASE /\ UNCHANGED <<pc, job>>
             /\ {c \in Cli : pc[c] = "exec" /\ job[c].pid = p} = {}
    <3>1. ASSUME NEW d \in Cli PROVE Held(pc[d], job[d])'
      <4>1. pc[d] = "exec" => job[d].pid \in Pid \ {p}
        BY <1>0, <2>5, UniverseAssumption
           DEF Held, TypeInv, CtlOK, CurrentKnown, Known
      <4> QED BY <1>0, <2>1, <2>3, <2>5, <4>1 DEF Held
    <3> QED BY <2>2, <3>1 DEF Origins
  <2> QED BY <1>2, <2>2, <2>4, <2>5 DEF ChildExecFails
<1>3. CASE RuntimeReaped(p)
  <2>1. /\ UNCHANGED <<db, pc, job>> /\ os[p].st = "zombie"
        /\ \A q \in Pid \ {p} : os'[q] = os[q]
        /\ os'[p] = FreeSlot
        /\ \A c \in Cli : ~(pc[c] = "exec" /\ job[c].pid = p)
    BY <1>0, <1>3 DEF RuntimeReaped, Reaped, ctlVars
  <2>2. SlotsOK' /\ RowsOK'
    BY <1>0, <1>d, <2>1 DEF SlotsOK, FreeSlot
  <2>3. ASSUME NEW g, Spared(g) PROVE Spared(g)'
    BY <2>1, <2>3 DEF Spared, FreeSlot
  <2>4. ASSUME NEW d \in Cli PROVE Held(pc[d], job[d])'
    <3>1. pc[d] = "exec" => job[d].pid \in Pid \ {p}
      BY <1>0, <2>1 DEF TypeInv, CtlOK, CurrentKnown, Known
    <3> QED BY <1>0, <2>1, <2>3, <3>1 DEF Held
  <2> QED BY <2>1, <2>2, <2>4 DEF Origins
<1>4. CASE RuntimeForks(p) \/ OthersStart(p)
  <2>1. PICK q \in Pid :
          /\ Unused(q) /\ UNCHANGED <<db, pc, job>>
          /\ \A r \in Pid \ {q} : os'[r] = os[r]
          /\ os'[q].st = "live"
          /\ os'[q].key # 0 \/ os'[q].pgid = NoPid
    <3>1. CASE RuntimeForks(p)
      <4>1. PICK q \in Pid :
              /\ Unused(q)
              /\ os' = [os EXCEPT ![q] =
                         [os[p] EXCEPT !.shows = (Workers = "same"),
                                       !.tok = clock + 1]]
        BY <3>1 DEF RuntimeForks, ForkWorker
      <4>2. os'[q].st = "live" /\ os'[q].key # 0
        BY <1>0, <3>1, <4>1 DEF RuntimeForks, ForkWorker, Slot
      <4>3. UNCHANGED <<db, pc, job>>
        BY <3>1 DEF RuntimeForks, ctlVars
      <4> QED BY <1>0, <4>1, <4>2, <4>3
    <3>2. CASE OthersStart(p)
      <4>1. /\ Unused(p)
            /\ os' = [os EXCEPT ![p] = [FreeSlot EXCEPT !.st = "live",
                                          !.pgid = NoPid, !.tok = clock + 1]]
        BY <3>2 DEF OthersStart, StrangerStarts
      <4>2. os'[p].st = "live" /\ os'[p].pgid = NoPid
        BY <1>0, <4>1 DEF FreeSlot
      <4>3. UNCHANGED <<db, pc, job>>
        BY <3>2 DEF OthersStart, ctlVars
      <4> QED BY <1>0, <4>1, <4>2, <4>3
    <3> QED BY <1>4, <3>1, <3>2
  <2>2. SlotsOK' /\ RowsOK'
    BY <1>0, <1>d, <2>1 DEF SlotsOK
  <2>3. ASSUME NEW g, g # NoPid, Spared(g) PROVE Spared(g)'
    BY <2>1, <2>3 DEF Spared
  <2>4. ASSUME NEW d \in Cli PROVE Held(pc[d], job[d])'
    <3>1. pc[d] = "exec" => job[d].pid \in Pid \ {q}
      BY <1>0, <2>1
         DEF Held, SlotsOK, Unused, Alive, TypeInv, CtlOK, CurrentKnown, Known
    <3> QED BY <1>0, <2>1, <2>3, <3>1 DEF Held, Stopping
  <2> QED BY <2>1, <2>2, <2>4 DEF Origins
<1>5. CASE RuntimeDownloads(p)
  <2>1. UNCHANGED <<db, os, pc, job>>
    BY <1>5 DEF RuntimeDownloads, ctlVars
  <2> QED BY <1>0, <2>1 DEF Origins, RowsOK, SlotsOK, Held, Spared
<1> QED BY <1>1, <1>2, <1>3, <1>4, <1>5 DEF ProcessStep

\* Every step.
LEMMA OriginsStep ==
  ASSUME StrangersLead = FALSE
  PROVE  ForeignInv /\ [Next]_vars
           => ForeignInv' /\ [pc' # pc => Unharmed]_vars
<1> SUFFICES ASSUME ForeignInv, [Next]_vars
             PROVE  Origins' /\ (pc' # pc => Unharmed)
  BY AgreeStep, ExclusionStep DEF ForeignInv, AgreeInv
<1>1. ASSUME UNCHANGED <<db, os, pc, job>>
      PROVE  Origins' /\ (pc' # pc => Unharmed)
  BY <1>1 DEF ForeignInv, Origins, RowsOK, SlotsOK, Held, Spared
<1>2. ASSUME NEW c \in Cli, Invocation(c) \/ CliStep(c) \/ FaultStep(c)
      PROVE  Origins' /\ Unharmed
  <2>1. CASE Invocation(c) \/ Acquire(c) \/ StatusBusy(c) \/ Crash(c)
    <3>1. UNCHANGED <<db, os>>
      BY <2>1 DEF Invocation, Invoke, Acquire, StatusBusy, Crash, onlyCtl,
                  otherStore
    <3>2. pc \in [Cli -> Label] /\ job \in [Cli -> Job]
      BY DEF ForeignInv, AgreeInv, TypeInv, CtlOK
    <3>3. /\ pc'[c] \in {"wait", "rlist", "idle"}
          /\ job'[c].pid = NoPid \/ job'[c] = job[c]
          /\ \A d \in Cli \ {c} : pc'[d] = pc[d] /\ job'[d] = job[d]
      <4>1. CASE Invocation(c)
        <5>1. PICK op, flag, i :
                Move(c, "wait", [NoJob EXCEPT !.op = op, !.flag = flag,
                                              !.target = i])
          BY <4>1 DEF Invocation, Invoke
        <5> QED BY <3>2, <5>1 DEF Move, NoJob
      <4>2. CASE Acquire(c) \/ StatusBusy(c) \/ Crash(c)
        BY <3>2, <4>2 DEF Acquire, StatusBusy, Crash, Move, NoJob
      <4> QED BY <2>1, <4>1, <4>2
    <3> QED BY <3>1, <3>3
            DEF Unharmed, ForeignInv, Origins, RowsOK, SlotsOK, Held, Spared,
                Stopping
  <2>2. CASE RecoveryStep(c)
    BY <2>2, RecoveryOrigins DEF Unharmed
  <2>3. CASE DestroyStep(c)
    BY <2>3, DestroyOrigins
  <2>4. CASE DeployStep(c)
    BY <2>4, DeployOrigins
  <2>5. CASE FaultStep(c) /\ ~Crash(c)
    BY <2>5, FaultOrigins
  <2> QED BY <1>2, <2>1, <2>2, <2>3, <2>4, <2>5 DEF CliStep
<1>3. ASSUME NEW i \in Id, ProxyRuns(i)
      PROVE  Origins' /\ (pc' # pc => Unharmed)
  BY <1>1, <1>3 DEF ProxyRuns, ctlVars
<1>4. CASE UNCHANGED vars
  BY <1>1, <1>4 DEF vars, ctlVars
<1> QED BY <1>2, <1>3, <1>4, ProcessOrigins DEF Next

\* At the start there are no rows, and strangers lead their groups.
LEMMA InitOrigins == Init => ForeignInv
<1> SUFFICES ASSUME Init PROVE RowsOK /\ SlotsOK /\ \A c \in Cli : Held(pc[c], job[c])
  BY InitAgrees DEF ForeignInv, Origins
<1>1. RowsOK
  BY DEF Init, StoreInit, NoRow, RowsOK
<1>2. SlotsOK
  <2>1. PICK i \in Id :
          os = [p \in Pid |->
                  IF p \in Strangers
                  THEN [FreeSlot EXCEPT !.st = "live", !.id = i,
                                        !.shows = TRUE, !.pgid = p]
                  ELSE FreeSlot]
    BY DEF Init, ProcessesInit
  <2>2. ASSUME NEW p \in Pid
        PROVE  \/ os[p].st = "live" /\ os[p].pgid = p /\ os[p].tok = 0
               \/ os[p].st = "free" /\ os[p].pgid = NoPid /\ os[p].key = 0
    BY <2>1 DEF FreeSlot
  <2> QED BY <2>2 DEF SlotsOK
<1>3. ASSUME NEW c \in Cli PROVE Held(pc[c], job[c])
  BY DEF Init, Held, NoJob, Stopping
<1> QED BY <1>1, <1>2, <1>3

\* supervisor.Stop verifies what it is about to signal, and the pid it was
\* given is not reused while the group lives: no command ever kills a process
\* that iold did not start.  The processes that others start meanwhile must not
\* lead groups of their own: one that takes the number of an emptied group
\* during the grace period is killed, as ReusedGroup shows.
THEOREM StrangersAreUnharmed ==
  ASSUME StrangersLead = FALSE PROVE Spec => StrangersUnharmed
<1>1. ForeignInv /\ [Next]_vars
        => ForeignInv' /\ [pc' # pc => \A p \in Pid :
             os[p].st = "live" /\ os[p].key = 0 => os'[p] = os[p]]_vars
  BY OriginsStep DEF Unharmed
<1> QED BY <1>1, InitOrigins, PTL DEF Spec, StrangersUnharmed

-----------------------------------------------------------------------------
(* The inductive invariant about runtimes.                                 *)

\* A runtime is one process, and never both is its pid not stored and its stop
\* failing.
Single == Workers = "none" /\ ~({"store", "stop"} \subseteq FaultKinds)

\* Commands are not killed and the store does not fail.
Orderly == FaultKinds \cap {"crash", "store"} = {}

\* When a runtime can be traced.  Outside of this it may be lost:
\* OrphanedRuntime, FailedStop.
Traceable == Single \/ Orderly

\* The running processes of a deployment.
Of(i) == {p \in Pid : Running(p) /\ os[p].id = i}
Quiet(i) == Of(i) = {}
Bound(i) == \A p \in Of(i) : db[i].pid # NoPid
Led(i, g, t) == \A p \in Of(i) : os[p].pgid = g /\ (p = g => os[p].tok = t)

\* A runtime works for a deployment, in a group; without workers it leads the
\* group and shows the command.  Only runtimes and what was there at the start
\* show a command.
Leads ==
  \A p \in Pid :
    /\ Running(p) => os[p].id \in Id /\ os[p].pgid \in Pid
    /\ Running(p) /\ Workers = "none" => os[p].pgid = p /\ os[p].shows
    /\ os[p].shows => os[p].key # 0 \/ os[p].tok = 0

\* There is one group of runtime processes.
Kin == \A p, q \in Pid : Running(p) /\ Running(q) => os[p].pgid = os[q].pgid

\* A child that has not reached exec is alone; it holds the lock unless its
\* parent still waits for it.
Hatching ==
  \A p \in Pid : os[p].st = "forked" =>
    /\ os[p].key # 0 /\ os[p].pgid = p
    /\ \A q \in Pid : Running(q) => q = p
    /\ lock = p \/ \E c \in Cli : pc[c] = "exec" /\ job[c].pid = p

\* The row of a runtime is active and names its group, or it is a STARTING
\* intent that is older than the runtime.
Traced ==
  \A p \in Pid : Running(p) =>
    LET r == db[os[p].id] IN
    /\ r.phase \notin Gone
    /\ r.key = os[p].key
    /\ \/ r.pid = os[p].pgid /\ (os[p].pgid = p => r.tok = os[p].tok)
       \/ /\ r.phase = "STARTING" /\ r.pid = NoPid /\ r.intent
          /\ r.upd < os[p].tok

\* Workers do not lead: their runtime has to be in the hands of the command
\* that started it until it is on record.
Watched ==
  \/ Single
  \/ \A p \in Pid : Running(p) /\ db[os[p].id].pid = NoPid =>
       \E c \in Cli : pc[c] \in {"exec", "bind"} /\ job[c].pid = os[p].pgid

\* A row is not newer than the clock, and a deployment has a key.
Dated ==
  \A i \in Id : /\ db[i].upd <= clock
                /\ db[i].phase # Absent => db[i].key # 0

\* What a command may rely on at each label: the deployment has no process, or
\* they are in the group it holds, or that is on record; files that it has
\* removed do not come back.
Guiding(l, j) ==
  /\ l \in {"validate", "key", "mkdir", "marker", "mwrite", "download",
            "intent", "starting", "launch", "xcache", "xlog", "xkey", "xrm",
            "xdone", "kill"} => Quiet(j.cur)
  /\ l = "rcrash" /\ db[j.cur].pid = NoPid => Quiet(j.cur)
  /\ l \in {"radopt", "exec", "bind", "health", "healthy", "ready", "register",
            "unreg"} \cup Stopping
       => Led(j.cur, j.pid, j.tok)
  /\ l \in {"health", "healthy", "ffail"} => Bound(j.cur)
  /\ l \in Stopping => Bound(j.cur) \/ "store" \in FaultKinds
  /\ l \in {"xlog", "xkey"} /\ ~j.owned => ~cache[j.cur].dir
  /\ l \in {"xrm", "xdone"} => j.cur \notin keys
  /\ l = "xdone" => ~cache[j.cur].dir

Guided == \A c \in Cli : pc[c] \in Critical => Guiding(pc[c], job[c])

ProcInv == Leads /\ Kin /\ Hatching /\ Traced /\ Watched /\ Dated

RunInv == AgreeInv /\ MutualExclusion /\ ProcInv /\ Guided /\ NoResidue

-----------------------------------------------------------------------------
(* What follows from it.                                                   *)

\* A command inside an operation knows where it is.
LEMMA Inside ==
  ASSUME RunInv, NEW c \in Cli, pc[c] \in Critical
  PROVE  /\ TypeInv /\ AgreeInv /\ MutualExclusion /\ ProcInv /\ NoResidue
         /\ OneActive
         /\ job[c] \in Job /\ db \in [Id -> Row] /\ os \in [Pid -> Slot]
         /\ pc \in [Cli -> Label] /\ job \in [Cli -> Job]
         /\ cache \in [Id -> Cache] /\ clock \in Nat
         /\ Facts(pc[c], job[c], db) /\ Guiding(pc[c], job[c])
         /\ pc[c] \in Working => cur(c) \in Id
         /\ lock = c
         /\ \A d \in Cli \ {c} : pc[d] \notin Critical
BY Here DEF RunInv, AgreeInv, TypeInv, DataOK, CtlOK, Guided, MutualExclusion

\* While somebody works, no child is left to reach exec but the one it waits
\* for.
LEMMA NoneHatching ==
  ASSUME RunInv, NEW c \in Cli, pc[c] \in Critical, NEW p \in Pid,
         os[p].st = "forked"
  PROVE  pc[c] = "exec" /\ job[c].pid = p
<1>1. lock # p
  BY Inside, CommandAssumption
<1>2. PICK d \in Cli : pc[d] = "exec" /\ job[d].pid = p
  BY <1>1 DEF RunInv, ProcInv, Hatching
<1>3. "exec" \in Critical
  BY DEF Critical, Deploying
<1> QED BY <1>2, <1>3, Inside

\* Outside of the start of a runtime, whoever has workers is on record.
LEMMA AllBound ==
  ASSUME RunInv, NEW c \in Cli, pc[c] \in Critical \ {"exec", "bind"}, ~Single,
         NEW p \in Pid, Running(p)
  PROVE  db[os[p].id].pid # NoPid
<1>1. {"exec", "bind"} \subseteq Critical
  BY DEF Critical, Deploying
<1> QED BY <1>1, Inside DEF RunInv, ProcInv, Watched

\* Only a STARTING row may have a process that is not on record.
LEMMA BoundUnlessStarting ==
  ASSUME RunInv, NEW i \in Id, db[i].phase # "STARTING"
  PROVE  Bound(i)
BY UniverseAssumption DEF RunInv, ProcInv, Leads, Traced, Bound, Of

\* A process that is on record is in the group on record.
LEMMA BoundIsRecorded ==
  ASSUME RunInv, NEW i \in Id, Bound(i)
  PROVE  /\ Led(i, db[i].pid, db[i].tok)
         /\ db[i].pid = NoPid => Quiet(i)
BY DEF RunInv, ProcInv, Traced, Bound, Of, Led, Quiet

\* No process is in no group.
LEMMA LedByNobody ==
  ASSUME RunInv, NEW i \in Id, NEW t, Led(i, NoPid, t)
  PROVE  Quiet(i)
BY UniverseAssumption DEF RunInv, ProcInv, Leads, Led, Quiet, Of

\* All processes belong to the one active deployment.
LEMMA OnlyOne ==
  ASSUME RunInv, NEW i \in Id, db[i].phase \notin Gone, NEW p \in Pid,
         Running(p)
  PROVE  p \in Of(i)
BY DEF RunInv, ProcInv, AgreeInv, Leads, Traced, OneActive, Active, Gone, Of

-----------------------------------------------------------------------------
(* How steps keep it.                                                      *)

\* A step of the command inside keeps what the others go by.
LEMMA GuidedStep ==
  ASSUME RunInv, NEW c \in Cli, pc[c] \in Critical, Controlled(c),
         pc'[c] \in Critical => Guiding(pc[c], job[c])'
  PROVE  Guided'
<1>1. \A d \in Cli \ {c} : pc'[d] = pc[d] /\ pc[d] \notin Critical
  <2>1. ASSUME NEW d \in Cli \ {c} PROVE pc'[d] = pc[d]
    BY Inside DEF Controlled, Moves, Move, Return
  <2> QED BY <2>1, Inside
<1> QED BY <1>1 DEF Guided

\* Nothing happens to processes and rows, and no runtime leaves the hands of
\* its command unless that cannot matter.
LEMMA ControlKeepsProc ==
  ASSUME RunInv, NEW c \in Cli, pc[c] \in Critical \ {"exec"}, Controlled(c),
         UNCHANGED <<db, os, clock>>,
         pc[c] = "bind" => "store" \in FaultKinds,
         Traceable
  PROVE  ProcInv'
<1>1. Leads' /\ Kin' /\ Traced' /\ Dated'
  BY DEF RunInv, ProcInv, Leads, Kin, Traced, Dated, Running
<1>2. Hatching'
  BY NoneHatching DEF Hatching
<1>3. Watched'
  <2>1. CASE Single
    BY <2>1 DEF Watched
  <2>2. CASE ~Single
    <3>1. pc[c] # "bind"
      BY <2>2 DEF Traceable, Orderly
    <3> QED BY <2>2, <3>1, AllBound DEF Watched, Running
  <2> QED BY <2>1, <2>2
<1> QED BY <1>1, <1>2, <1>3 DEF ProcInv

\* A statement of the store changes one row: it has no processes, or they are
\* on record afterwards.
LEMMA RowKeepsProc ==
  ASSUME RunInv, NEW c \in Cli, pc[c] \in Critical \ {"exec"}, NEW i \in Id,
         pc[c] = "bind" => i = cur(c),
         UNCHANGED <<os, clock>>, \A k \in Id \ {i} : db'[k] = db[k],
         db'[i].upd <= clock, db'[i].phase # Absent => db'[i].key # 0,
         \/ Quiet(i)
         \/ /\ db'[i].phase \notin Gone /\ db'[i].key = db[i].key
            /\ Led(i, db'[i].pid, db'[i].tok)
  PROVE  ProcInv'
<1>0. ProcInv /\ Facts(pc[c], job[c], db)
  BY Inside
<1>1. Leads' /\ Kin'
  BY <1>0 DEF ProcInv, Leads, Kin, Running
<1>2. Hatching'
  BY NoneHatching DEF Hatching
<1>3. Dated'
  BY <1>0 DEF ProcInv, Dated
<1>4. ASSUME NEW p \in Pid, Running(p), os[p].id = i
      PROVE  /\ db'[i].phase \notin Gone /\ db'[i].key = os[p].key
             /\ db'[i].pid = os[p].pgid /\ os[p].pgid \in Pid
             /\ os[p].pgid = p => db'[i].tok = os[p].tok
  BY <1>0, <1>4 DEF ProcInv, Traced, Leads, Quiet, Led, Of
<1>5. Traced'
  BY <1>0, <1>4 DEF ProcInv, Traced, Leads, Running
<1>6. Watched'
  <2>1. CASE Single
    BY <2>1 DEF Watched
  <2>2. CASE ~Single /\ pc[c] # "bind"
    BY <1>0, <1>4, <2>2, AllBound, UniverseAssumption
       DEF Watched, ProcInv, Leads, Running
  <2>3. CASE pc[c] = "bind"
    <3>1. /\ "bind" \in Working
          /\ db[i].phase = "STARTING"
      BY <1>0, <2>3 DEF Facts, Current, Expecting, Working, Label, Critical,
                        Deploying, cur
    <3>2. \A p \in Pid : Running(p) => os[p].id = i
      BY <3>1, OnlyOne DEF Gone, Absent, Of
    <3> QED BY <1>4, <3>2, UniverseAssumption DEF Watched, Running
  <2> QED BY <2>1, <2>2, <2>3
<1> QED BY <1>1, <1>2, <1>3, <1>5, <1>6 DEF ProcInv

\* What a step of the command inside has to preserve.
Kept == ProcInv' /\ Guided' /\ NoResidue'

\* Nothing on disk or in the table changes.
LEMMA FilesKeep ==
  ASSUME RunInv, UNCHANGED <<db, keys, cache>>
  PROVE  NoResidue'
BY DEF RunInv, NoResidue, Owns, Active

\* A step of control.
LEMMA ControlKeepsAll ==
  ASSUME RunInv, Traceable, NEW c \in Cli, pc[c] \in Critical \ {"exec"},
         Controlled(c), UNCHANGED <<db, os, clock, keys, cache>>,
         pc[c] = "bind" => "store" \in FaultKinds,
         pc'[c] \in Critical => Guiding(pc[c], job[c])'
  PROVE  Kept
BY GuidedStep, ControlKeepsProc, FilesKeep DEF Kept

\* The labels at which nothing is known of processes or files.
Plain == {"rlist", "rpick", "rscan", "rprobe", "work", "xpick", "xfail",
          "xbegin", "xprobe", "xpurge", "resolve", "tomb", "create"}

\* A step of control to such a label, or the end of a command.
LEMMA PlainKeeps ==
  ASSUME RunInv, Traceable, NEW c \in Cli, pc[c] \in Critical \ {"exec"},
         Controlled(c), UNCHANGED <<db, os, clock, keys, cache>>,
         pc[c] = "bind" => "store" \in FaultKinds,
         pc'[c] \in Plain \cup {"idle"}
  PROVE  Kept
<1>1. pc'[c] \in Critical => Guiding(pc[c], job[c])'
  BY DEF Guiding, Plain, Critical, Recovering, Destroying, Stopping, Deploying
<1> QED BY <1>1, ControlKeepsAll

\* A target that cannot be destroyed.
LEMMA TargetFailsKeeps ==
  ASSUME RunInv, Traceable, NEW c \in Cli,
         pc[c] \in Destroying \cup Stopping,
         UNCHANGED <<db, os, clock, keys, cache>>, TargetFails(c)
  PROVE  Kept
<1>1. pc[c] \in Critical \ {"exec", "bind"}
  BY DEF Critical, Destroying, Stopping
<1>2. TypeInv /\ pc \in [Cli -> Label]
  BY <1>1, Inside
<1>3. Controlled(c)
  BY <1>2, TargetFailsControlled DEF TypeInv
<1>4. pc'[c] \in {"idle", "xpick"}
  BY <1>2 DEF TargetFails, Return, Move
<1> QED BY <1>1, <1>3, <1>4, PlainKeeps DEF Plain

\* A deployment that fails: before its process is there, while it is in hand,
\* or once it is on record.
LEMMA FailKeeps ==
  ASSUME RunInv, Traceable, NEW c \in Cli, pc[c] \in Failing,
         UNCHANGED <<db, os, clock, keys, cache>>,
         pc[c] = "bind" => "store" \in FaultKinds, Fail(c)
  PROVE  Kept
<1>1. /\ pc[c] \in Critical \ {"exec"} /\ pc[c] \in Working
      /\ "stop" \in Critical /\ "ffail" \in Critical
  BY DEF Failing, Critical, Deploying, Stopping, Working, Label
<1>2. /\ TypeInv /\ pc \in [Cli -> Label] /\ job \in [Cli -> Job]
      /\ cur(c) \in Id /\ Guiding(pc[c], job[c]) /\ Facts(pc[c], job[c], db)
  BY <1>1, Inside
<1>3. Controlled(c)
  BY <1>1, <1>2, FailControlled DEF TypeInv
<1>4. /\ Led(cur(c), job[c].pid, job[c].tok)
      /\ Bound(cur(c)) \/ pc[c] = "bind"
  <2>1. CASE pc[c] \in {"key", "mkdir", "marker", "mwrite", "intent",
                        "starting", "launch"}
    BY <1>2, <2>1 DEF Guiding, Quiet, Led, Bound, cur
  <2>2. CASE pc[c] \in {"bind", "health", "healthy"}
    BY <1>2, <2>2 DEF Guiding, cur
  <2>3. CASE pc[c] \in {"ready", "register", "unreg"}
    <3>1. db[cur(c)].phase # "STARTING"
      BY <1>1, <1>2, <2>3 DEF Facts, Current, Expecting, cur
    <3> QED BY <1>2, <2>3, <3>1, BoundUnlessStarting DEF Guiding, cur
  <2> QED BY <2>1, <2>2, <2>3 DEF Failing
<1>5. UNCHANGED job
  BY <1>2 DEF Fail, Go, Move
<1>6. CASE pc'[c] = "stop"
  <2>1. Guiding(pc[c], job[c])'
    BY <1>4, <1>5, <1>6
       DEF Guiding, Stopping, Led, Bound, Of, Running, cur
  <2> QED BY <1>1, <1>3, <2>1, ControlKeepsAll
<1>7. CASE pc'[c] = "ffail"
  <2>1. job[c].pid = NoPid
    BY <1>2, <1>7 DEF Fail, Go, Move
  <2>2. Quiet(cur(c))
    BY <1>2, <1>4, <2>1, LedByNobody
  <2>3. Guiding(pc[c], job[c])'
    BY <1>5, <1>7, <2>2
       DEF Guiding, Stopping, Quiet, Bound, Of, Running, cur
  <2> QED BY <1>1, <1>3, <2>3, ControlKeepsAll
<1> QED BY <1>2, <1>6, <1>7 DEF Fail, Go, Move

\* An error of a statement or of a file operation.
LEMMA RejectedKeeps ==
  ASSUME RunInv, Traceable, NEW c \in Cli, pc[c] \in Critical \ {"exec"},
         UNCHANGED <<db, os, clock, keys, cache>>,
         pc[c] = "bind" => "store" \in FaultKinds, Rejected(c)
  PROVE  Kept
<1>1. CASE pc[c] \in Destroying
  BY <1>1, TargetFailsKeeps DEF Rejected
<1>2. CASE pc[c] \notin Destroying /\ pc[c] \in Failing /\ Fail(c)
  BY <1>2, FailKeeps
<1>3. CASE Return(c)
  <2>1. Controlled(c) /\ pc'[c] = "idle"
    BY <1>3, Inside DEF Controlled, Return
  <2> QED BY <2>1, PlainKeeps
<1> QED BY <1>1, <1>2, <1>3 DEF Rejected, Failing

\* supervisor.Stop returns: nil only if no process of the group is left.
LEMMA StopReturnsKeeps ==
  ASSUME RunInv, Traceable, NEW c \in Cli, pc[c] \in Stopping,
         UNCHANGED <<db, os, clock, keys, cache>>,
         NEW ok \in BOOLEAN, StopReturns(c, ok),
         ok => Quiet(cur(c)), job[c].made => Bound(cur(c))
  PROVE  Kept
<1> DEFINE j == [job[c] EXCEPT !.pid = NoPid, !.tok = 0]
<1>1. /\ pc[c] \in Critical \ {"exec", "bind"} /\ pc[c] \in Working
      /\ "xcache" \in Critical /\ "ffail" \in Critical
  BY DEF Stopping, Critical, Deploying, Destroying, Working, Label
<1>2. /\ TypeInv /\ pc \in [Cli -> Label] /\ job \in [Cli -> Job]
      /\ job[c] \in Job
  BY <1>1, Inside
<1>3. Controlled(c)
  BY <1>1, <1>2, StopReturnsControlled DEF TypeInv
<1>4. j.cur = cur(c)
  BY <1>2 DEF Job, cur
<1>5. CASE job[c].made
  <2>1. pc'[c] = "ffail" /\ job'[c].cur = cur(c)
    BY <1>2, <1>4, <1>5 DEF StopReturns, Move
  <2>2. Guiding(pc[c], job[c])'
    BY <1>5, <2>1 DEF Guiding, Stopping, Bound, Of, Running
  <2> QED BY <1>1, <1>3, <2>2, ControlKeepsAll
<1>6. CASE ~job[c].made /\ ok
  <2>1. pc'[c] = "xcache" /\ job'[c].cur = cur(c)
    BY <1>2, <1>4, <1>6 DEF StopReturns, Move
  <2>2. Guiding(pc[c], job[c])'
    BY <1>6, <2>1 DEF Guiding, Stopping, Quiet, Of, Running
  <2> QED BY <1>1, <1>3, <2>2, ControlKeepsAll
<1>7. CASE ~job[c].made /\ ~ok
  BY <1>7, TargetFailsKeeps DEF StopReturns
<1> QED BY <1>5, <1>6, <1>7

\* A compare-and-set that leaves the row active: its processes are on record.
LEMMA AdvanceKeepsProc ==
  ASSUME RunInv, NEW c \in Cli,
         pc[c] \in (Critical \cap Working) \ {"exec", "bind"},
         NEW to, Transition(cur(c), to, clock), UNCHANGED <<os, clock>>,
         db[cur(c)].phase # Absent,
         Bound(cur(c)), to \notin Gone \/ Quiet(cur(c))
  PROVE  ProcInv'
<1>1. cur(c) \in Id /\ db \in [Id -> Row] /\ clock \in Nat
  BY Inside
<1>2. /\ \A k \in Id \ {cur(c)} : db'[k] = db[k]
      /\ db'[cur(c)].phase = to /\ db'[cur(c)].key = db[cur(c)].key
      /\ db'[cur(c)].pid = db[cur(c)].pid /\ db'[cur(c)].tok = db[cur(c)].tok
      /\ db'[cur(c)].upd = clock
  BY <1>1 DEF Transition, Row
<1>3. Led(cur(c), db[cur(c)].pid, db[cur(c)].tok)
  BY <1>1, BoundIsRecorded
<1>4. db[cur(c)].key # 0
  BY <1>1 DEF RunInv, ProcInv, Dated
<1> QED BY <1>1, <1>2, <1>3, <1>4, RowKeepsProc

\* It succeeds, and residue is as it was.
LEMMA AdvanceKeeps ==
  ASSUME RunInv, NEW c \in Cli,
         pc[c] \in (Critical \cap Working) \ {"exec", "bind"},
         pc[c] \in DOMAIN Attempt, NEW next, Advance(c, Attempt[pc[c]], next),
         Controlled(c), Bound(cur(c)), Attempt[pc[c]] \notin Gone,
         \A i, j : /\ i = cur(c) /\ j.cur = i
                   /\ j.pid = job[c].pid /\ j.tok = job[c].tok
                   /\ Bound(i)' /\ \A k : Of(k)' = Of(k)
                   /\ db'[i].pid = db[i].pid
                   => Guiding(next, j)'
  PROVE  Kept
<1> DEFINE to == Attempt[pc[c]]
           j == [job[c] EXCEPT !.list[cur(c)].phase = to]
<1>1. /\ cur(c) \in Id /\ db \in [Id -> Row] /\ clock \in Nat
      /\ job[c] \in Job /\ job \in [Cli -> Job] /\ pc \in [Cli -> Label]
      /\ AgreeInv /\ NoResidue
  BY Inside
<1>2. /\ Move(c, next, j) /\ Transition(cur(c), to, clock)
      /\ UNCHANGED otherStore
  BY <1>1, FactsAccepted DEF StoreNeverRefuses, Advance
<1>3. UNCHANGED <<os, clock, keys, cache>>
  BY <1>2 DEF otherStore, fileVars
<1>12. db[cur(c)].phase # Absent
  BY <1>1, FactsAccepted
     DEF StoreNeverRefuses, TransitionOK, checkTransition, Phase, Absent
<1>4. ProcInv'
  BY <1>2, <1>3, <1>12, AdvanceKeepsProc
<1>5. /\ \A k \in Id \ {cur(c)} : db'[k] = db[k]
      /\ db'[cur(c)].phase = to
      /\ db'[cur(c)].pid = db[cur(c)].pid
  BY <1>1, <1>2 DEF Transition, Row
<1>6. NoResidue'
  BY <1>1, <1>3, <1>5 DEF NoResidue, Owns, Active, Gone
<1>7. \A i : Of(i)' = Of(i)
  BY <1>3 DEF Of, Running
<1>. PICK i : i = cur(c)
  OBVIOUS
<1>8. Bound(i)'
  BY <1>5, <1>7 DEF Bound
<1>9. j.cur = i /\ j.pid = job[c].pid /\ j.tok = job[c].tok
  BY <1>1 DEF Job, cur
<1>10. pc'[c] = next /\ job'[c] = j
  BY <1>1, <1>2 DEF Move
<1>11. Guiding(pc[c], job[c])'
  BY <1>5, <1>7, <1>8, <1>9, <1>10
<1> QED BY <1>4, <1>6, <1>11, GuidedStep DEF Kept

-----------------------------------------------------------------------------
(* Recovery.                                                               *)

\* A STARTING intent adopts the process that was started for it, or there is
\* none: nobody else's process is younger and shows its command.
LEMMA ScanFinds ==
  ASSUME RunInv, Traceable, NEW c \in Cli, pc[c] = "rscan",
         NEW matches, matches = FindByCommand(cur(c), Mem(c).upd)
  PROVE  /\ Cardinality(matches) # 1 => Quiet(cur(c))
         /\ \A p \in matches : Cardinality(matches) = 1
              => Led(cur(c), p, os[p].tok)
<1>1. pc[c] \in Critical \ {"exec", "bind"} /\ pc[c] \in Working
  BY DEF Critical, Recovering, Working, Label
<1>2. /\ ProcInv /\ os \in [Pid -> Slot] /\ db \in [Id -> Row]
      /\ cur(c) \in Id /\ Facts(pc[c], job[c], db)
  BY <1>1, Inside
<1>3. Mem(c) = db[cur(c)] /\ db[cur(c)].pid = NoPid
  BY <1>1, <1>2 DEF Facts, Current, Mem, cur
<1>4. \A p \in matches : /\ p \in Of(cur(c)) /\ os[p].st = "live"
                         /\ os[p].shows
  BY <1>2, <1>3 DEF FindByCommand, ProcInv, Leads, Of, Running, Slot, Row
<1>5. CASE Quiet(cur(c))
  BY <1>5 DEF Led, Quiet
<1>6. CASE ~Quiet(cur(c))
  <2>1. PICK p \in Pid : p \in Of(cur(c))
    BY <1>6 DEF Quiet, Of
  <2>2. Single
    BY <1>1, <1>3, <2>1, AllBound DEF Of
  <2>3. \A q \in Of(cur(c)) : os[q].pgid = q /\ os[q].shows /\ q = p
    BY <1>2, <2>1, <2>2 DEF ProcInv, Leads, Kin, Of, Single
  <2>4. os[p].st = "live"
    BY <1>1, <2>1, NoneHatching DEF Of, Running
  <2>5. os[p].tok > Mem(c).upd
    BY <1>2, <1>3, <2>1, UniverseAssumption
       DEF ProcInv, Traced, Leads, Of, Slot, Row
  <2>6. matches = {p}
    BY <1>4, <2>1, <2>3, <2>4, <2>5 DEF FindByCommand, Of
  <2>7. Cardinality(matches) = 1
    BY <2>6, FS_Singleton
  <2> QED BY <2>3, <2>6, <2>7 DEF Led
<1> QED BY <1>5, <1>6

\* Recovery and the choice of targets.
LEMMA RecoveryKeeps ==
  ASSUME RunInv, Traceable, NEW c \in Cli, RecoveryStep(c)
  PROVE  Kept
<1> USE DEF Critical, Recovering, Destroying, Stopping, Deploying
<1>0. /\ TypeInv /\ Controlled(c) /\ pc[c] \in Critical
      /\ pc \in [Cli -> Label] /\ job \in [Cli -> Job] /\ job[c] \in Job
      /\ db \in [Id -> Row] /\ os \in [Pid -> Slot]
      /\ Facts(pc[c], job[c], db) /\ Guiding(pc[c], job[c])
      /\ pc[c] \in Working => cur(c) \in Id
  BY RecoveryStepOK, Inside DEF StepOK, RunInv, AgreeInv
<1>u. UNCHANGED onlyCtl => UNCHANGED <<db, os, clock, keys, cache>>
  BY DEF onlyCtl, otherStore, fileVars
<1>1. CASE \/ RecoverList(c) \/ RecoverDone(c) \/ StatusReports(c)
           \/ DestroyTargets(c) \/ DeployTargets(c)
  <2>1. pc'[c] \in Plain \cup {"idle"}
    BY <1>0, <1>1 DEF RecoverList, RecoverDone, StatusReports, DestroyTargets,
         DeployTargets, Go, Move, Return, Plain
  <2>2. UNCHANGED onlyCtl /\ pc[c] \in {"rlist", "rpick", "work"}
    BY <1>1 DEF RecoverList, RecoverDone, StatusReports, DestroyTargets,
                DeployTargets
  <2> QED BY <1>0, <1>u, <2>1, <2>2, PlainKeeps
<1>2. CASE RecoverNext(c)
  <2>1. PICK i \in job[c].todo :
          Move(c, RecoverRoute(job[c].list[i]),
               [job[c] EXCEPT !.cur = i, !.todo = @ \ {i}])
    BY <1>2 DEF RecoverNext
  <2>2. /\ pc[c] = "rpick" /\ UNCHANGED <<db, os, clock, keys, cache>>
        /\ i \in Id /\ job[c].list[i] = db[i]
    BY <1>0, <1>2, <1>u DEF RecoverNext, Facts, Fresh, Job
  <2>3. /\ pc'[c] = RecoverRoute(db[i]) /\ job'[c].cur = i
    BY <1>0, <2>1, <2>2 DEF Move, Job
  <2>4. CASE pc'[c] = "rcrash"
    <3>1. db[i].pid = NoPid => db[i].phase # "STARTING" \/ ~db[i].intent
      BY <2>3, <2>4 DEF RecoverRoute
    <3>2. db[i].pid = NoPid => Quiet(i)
      BY <3>1, UniverseAssumption
         DEF RunInv, ProcInv, Traced, Leads, Quiet, Of
    <3>3. Guiding(pc[c], job[c])'
      BY <2>2, <2>3, <2>4, <3>2 DEF Guiding, Quiet, Of, Running
    <3> QED BY <1>0, <2>2, <3>3, ControlKeepsAll
  <2>5. CASE pc'[c] \in {"rprobe", "rscan"}
    BY <1>0, <2>2, <2>5, PlainKeeps DEF Plain
  <2> QED BY <2>3, <2>4, <2>5 DEF RecoverRoute
<1>3. CASE RecoverScan(c)
  <2> DEFINE matches == FindByCommand(cur(c), Mem(c).upd)
  <2>1. /\ pc[c] = "rscan" /\ UNCHANGED <<db, os, clock, keys, cache>>
    BY <1>3, <1>u DEF RecoverScan
  <2>2. /\ Cardinality(matches) # 1 => Quiet(cur(c))
        /\ \A p \in matches : Cardinality(matches) = 1
             => Led(cur(c), p, os[p].tok)
    BY <2>1, ScanFinds
  <2>3. CASE Cardinality(matches) # 1 /\ Go(c, "rcrash")
    <3>1. pc'[c] = "rcrash" /\ job'[c] = job[c]
      BY <1>0, <2>3 DEF Go, Move
    <3>2. Guiding(pc[c], job[c])'
      BY <2>1, <2>2, <2>3, <3>1 DEF Guiding, Quiet, Of, Running, cur
    <3> QED BY <1>0, <2>1, <3>2, ControlKeepsAll
  <2>4. CASE /\ Cardinality(matches) = 1
             /\ \E p \in matches :
                  Move(c, "radopt", [job[c] EXCEPT !.pid = p,
                                                   !.tok = os[p].tok])
    <3>1. PICK p \in matches :
            Move(c, "radopt", [job[c] EXCEPT !.pid = p, !.tok = os[p].tok])
      BY <2>4
    <3>2. /\ pc'[c] = "radopt" /\ job'[c].cur = cur(c) /\ job'[c].pid = p
          /\ job'[c].tok = os[p].tok
      BY <1>0, <3>1 DEF Move, Job, cur
    <3>3. Led(cur(c), p, os[p].tok)
      BY <2>2, <2>4
    <3>4. Guiding(pc[c], job[c])'
      BY <2>1, <3>2, <3>3 DEF Guiding, Led, Of, Running
    <3> QED BY <1>0, <2>1, <3>4, ControlKeepsAll
  <2> QED BY <1>3, <2>3, <2>4 DEF RecoverScan
<1>4. CASE RecoverAdopt(c)
  <2>1. /\ SetRuntime(cur(c), job[c].pid, job[c].tok, clock)
        /\ Move(c, "rprobe",
               [job[c] EXCEPT !.list[cur(c)].pid = job[c].pid,
                              !.list[cur(c)].tok = job[c].tok,
                              !.pid = NoPid, !.tok = 0])
        /\ UNCHANGED <<os, clock, keys, cache>>
    BY <1>4, FactsAccepted
       DEF RecoverAdopt, StoreNeverRefuses, RunInv, otherStore, fileVars
  <2>2. pc[c] = "radopt" /\ pc[c] \in Working /\ cur(c) \in Id
    BY <1>0, <1>4 DEF RecoverAdopt, Working, Label
  <2>3. /\ \A k \in Id \ {cur(c)} : db'[k] = db[k]
        /\ db'[cur(c)].phase = db[cur(c)].phase
        /\ db'[cur(c)].key = db[cur(c)].key
        /\ db'[cur(c)].pid = job[c].pid /\ db'[cur(c)].tok = job[c].tok
        /\ db'[cur(c)].upd = clock
    BY <1>0, <2>1, <2>2 DEF SetRuntime, Row
  <2>4. /\ Led(cur(c), job[c].pid, job[c].tok)
        /\ db[cur(c)].phase = "STARTING" /\ clock \in Nat
    BY <1>0, <2>2
       DEF Guiding, Facts, Current, Expecting, cur, TypeInv, DataOK
  <2>9. db[cur(c)].key # 0
    BY <2>2, <2>4 DEF RunInv, ProcInv, Dated, Absent
  <2>5. ProcInv'
    BY <1>0, <2>1, <2>2, <2>3, <2>4, <2>9, RowKeepsProc
       DEF Gone, Absent
  <2>6. NoResidue'
    BY <2>1, <2>2, <2>3 DEF RunInv, NoResidue, Owns, Active
  <2>7. pc'[c] = "rprobe"
    BY <1>0, <2>1 DEF Move
  <2>8. Guiding(pc[c], job[c])'
    BY <2>7 DEF Guiding
  <2> QED BY <1>0, <2>5, <2>6, <2>8, GuidedStep DEF Kept
<1>5. CASE RecoverProbe(c)
  <2>1. /\ pc[c] = "rprobe" /\ UNCHANGED <<db, os, clock, keys, cache>>
        /\ pc'[c] \in {"rpick", "rcrash"} /\ job'[c] = job[c]
    BY <1>0, <1>5, <1>u DEF RecoverProbe, Go, Move
  <2>2. db[cur(c)].pid # NoPid
    BY <1>0, <2>1 DEF Facts, Current, Working, Label, cur
  <2>3. Guiding(pc[c], job[c])'
    BY <2>1, <2>2 DEF Guiding, cur
  <2> QED BY <1>0, <2>1, <2>3, ControlKeepsAll
<1>6. CASE RecoverCrash(c)
  <2>1. /\ pc[c] = "rcrash" /\ pc[c] \in Working /\ cur(c) \in Id
        /\ pc[c] \in DOMAIN Attempt /\ Attempt[pc[c]] = "CRASHED"
    BY <1>0, <1>6 DEF RecoverCrash, Working, Label, Attempt
  <2>2. Bound(cur(c))
    BY <1>0, <2>1 DEF Guiding, Bound, Quiet, cur
  <2>3. \A j : Guiding("rpick", j)'
    BY DEF Guiding
  <2> QED BY <1>0, <1>6, <2>1, <2>2, <2>3, AdvanceKeeps
          DEF RecoverCrash, Gone, Absent
<1> QED BY <1>1, <1>2, <1>3, <1>4, <1>5, <1>6 DEF RecoveryStep

-----------------------------------------------------------------------------
(* Destroying and stopping.                                                *)

\* Processes that only end stay traced.
LEMMA FewerProcesses ==
  ASSUME RunInv, UNCHANGED <<db, clock>>,
         \A q \in Pid : \/ os'[q] = os[q]
                        \/ /\ os'[q].st \notin {"forked", "live"}
                           /\ ~os'[q].shows
  PROVE  /\ Leads' /\ Kin' /\ Traced' /\ Dated'
         /\ \A i : Of(i)' \subseteq Of(i)
         /\ \A i : Quiet(i) => Quiet(i)'
         /\ \A i : Bound(i) => Bound(i)'
         /\ \A i, g, t : Led(i, g, t) => Led(i, g, t)'
<1>1. ASSUME NEW q \in Pid, Running(q)'
      PROVE  Running(q) /\ os'[q] = os[q]
  BY <1>1 DEF Running
<1>2. Leads'
  BY <1>1 DEF RunInv, ProcInv, Leads
<1>3. Kin' /\ Traced' /\ Dated'
  BY <1>1 DEF RunInv, ProcInv, Kin, Traced, Dated
<1>4. \A i : \A q \in Of(i)' : q \in Of(i) /\ os'[q] = os[q]
  BY <1>1 DEF Of
<1> QED BY <1>2, <1>3, <1>4 DEF Quiet, Bound, Led

\* What the command inside ends does not matter to anybody.
LEMMA KillsKeepProc ==
  ASSUME RunInv, NEW c \in Cli, pc[c] \in Critical \ {"exec", "bind"},
         UNCHANGED <<db, clock>>,
         \A q \in Pid : \/ os'[q] = os[q]
                        \/ /\ os'[q].st \notin {"forked", "live"}
                           /\ ~os'[q].shows
  PROVE  ProcInv'
<1>1. Leads' /\ Kin' /\ Traced' /\ Dated'
  BY FewerProcesses
<1>2. Hatching'
  BY NoneHatching DEF Hatching
<1>3. Watched'
  BY AllBound DEF Watched, Running
<1> QED BY <1>1, <1>2, <1>3 DEF ProcInv

\* supervisor.Stop: it gives up on a group only if that is on record, and
\* reports success only if no process of it is left.
LEMMA StopKeeps ==
  ASSUME RunInv, Traceable, NEW c \in Cli,
         StopVerifies(c) \/ StopTerminates(c) \/ StopGraceOver(c)
           \/ StopGivesUp(c),
         Controlled(c)
  PROVE  Kept
<1> USE DEF Critical, Stopping
<1>0. /\ TypeInv /\ pc[c] \in Stopping
      /\ pc \in [Cli -> Label] /\ job \in [Cli -> Job] /\ job[c] \in Job
      /\ os \in [Pid -> Slot] /\ ProcInv /\ Guiding(pc[c], job[c])
  BY Inside DEF StopVerifies, StopTerminates, StopGraceOver, StopGivesUp
<1>1. /\ Led(cur(c), job[c].pid, job[c].tok)
      /\ Bound(cur(c)) \/ "store" \in FaultKinds
  BY <1>0 DEF Guiding, cur
<1>2. ~processGroupAlive(job[c].pid) => Quiet(cur(c))
  BY <1>1 DEF processGroupAlive, Alive, Quiet, Led, Of, Running
<1>3. Quiet(cur(c)) => Bound(cur(c))
  BY DEF Quiet, Bound
<1>u. UNCHANGED onlyCtl => UNCHANGED <<db, os, clock, keys, cache>>
  BY DEF onlyCtl, otherStore, fileVars
<1>4. ASSUME NEW l \in {"term", "grace"}, Go(c, l), UNCHANGED onlyCtl
      PROVE  Kept
  <2>1. pc'[c] = l /\ job'[c] = job[c]
    BY <1>0, <1>4 DEF Go, Move
  <2>2. Guiding(pc[c], job[c])'
    BY <1>1, <1>4, <1>u, <2>1 DEF Guiding, Led, Bound, Of, Running, cur
  <2> QED BY <1>0, <1>4, <1>u, <2>2, ControlKeepsAll
<1>5. CASE StopVerifies(c)
  <2>1. CASE ~Alive(job[c].pid) /\ StopReturns(c, ~processGroupAlive(job[c].pid))
    <3>1. Bound(cur(c))
      <4>1. CASE "store" \in FaultKinds
        <5>1. Workers = "none"
          BY <4>1 DEF Traceable, Single, Orderly
        <5>2. Quiet(cur(c))
          BY <1>0, <1>1, <2>1, <5>1
             DEF ProcInv, Leads, Led, Of, Quiet, Running, Alive
        <5> QED BY <1>3, <5>2
      <4> QED BY <1>1, <4>1
    <3> QED BY <1>0, <1>2, <1>5, <1>u, <2>1, <3>1, StopReturnsKeeps
            DEF StopVerifies
  <2>2. CASE /\ Alive(job[c].pid) /\ StopReturns(c, FALSE)
             /\ ~(/\ Owned(job[c].pid, job[c].tok, cur(c))
                  /\ os[job[c].pid].pgid = job[c].pid)
    <3>1. Bound(cur(c))
      <4>1. CASE "store" \in FaultKinds
        <5>1. Workers = "none"
          BY <4>1 DEF Traceable, Single, Orderly
        <5>2. ASSUME NEW q \in Of(cur(c)) PROVE FALSE
          <6>1. /\ q = job[c].pid /\ os[q].pgid = q /\ os[q].shows
                /\ os[q].tok = job[c].tok /\ os[q].id = cur(c) /\ Running(q)
            BY <1>0, <1>1, <5>1, <5>2 DEF ProcInv, Leads, Led, Of
          <6>2. os[q].st = "live"
            BY <1>0, <5>2, <6>1, NoneHatching DEF Running, Of
          <6> QED BY <2>2, <6>1, <6>2 DEF Owned
        <5> QED BY <5>2 DEF Bound
      <4> QED BY <1>1, <4>1
    <3> QED BY <1>0, <1>5, <1>u, <2>2, <3>1, StopReturnsKeeps
            DEF StopVerifies
  <2>3. CASE Go(c, "term")
    BY <1>4, <1>5, <2>3 DEF StopVerifies
  <2> QED BY <1>5, <2>1, <2>2, <2>3 DEF StopVerifies
<1>6. CASE StopTerminates(c)
  BY <1>4, <1>6 DEF StopTerminates
<1>7. CASE StopGraceOver(c)
  <2>0. UNCHANGED <<db, clock, keys, cache>>
    BY <1>7 DEF StopGraceOver, fileVars
  <2>1. CASE KillGroup(job[c].pid) /\ Go(c, "kill")
    <3>1. pc'[c] = "kill" /\ job'[c] = job[c]
      BY <1>0, <2>1 DEF Go, Move
    <3>2. \A q \in Pid : \/ os'[q] = os[q] /\ ~(/\ os[q].pgid = job[c].pid
                                                /\ Running(q))
                         \/ /\ os'[q].st = "zombie"
                            /\ ~os'[q].shows
      BY <1>0, <2>1 DEF KillGroup, Dead, Slot, Running
    <3>3. ProcInv'
      BY <1>0, <2>0, <3>2, KillsKeepProc
    <3>4. Quiet(cur(c))'
      <4>1. \A q \in Pid : Running(q)' => q \notin Of(cur(c)) /\ os'[q] = os[q]
        BY <1>1, <3>2 DEF Led, Of, Running
      <4> QED BY <3>1, <4>1 DEF Quiet, Of, Running, cur
    <3>5. Guiding(pc[c], job[c])'
      BY <3>1, <3>4 DEF Guiding, Led, Bound, Quiet, cur
    <3>6. NoResidue'
      BY <2>0, FilesKeep
    <3> QED BY <1>0, <3>3, <3>5, <3>6, GuidedStep DEF Kept
  <2>2. CASE UNCHANGED os /\ StopReturns(c, TRUE)
              /\ ~processGroupAlive(job[c].pid)
    BY <1>0, <1>2, <1>3, <2>0, <2>2, StopReturnsKeeps
  <2> QED BY <1>7, <2>1, <2>2 DEF StopGraceOver
<1>8. CASE StopGivesUp(c)
  <2>1. Quiet(cur(c))
    BY <1>0, <1>8 DEF StopGivesUp, Guiding, cur
  <2> QED BY <1>0, <1>3, <1>8, <1>u, <2>1, StopReturnsKeeps DEF StopGivesUp
<1> QED BY <1>5, <1>6, <1>7, <1>8

\* destroyOne.
LEMMA DestroyKeeps ==
  ASSUME RunInv, Traceable, NEW c \in Cli, DestroyStep(c)
  PROVE  Kept
<1> USE DEF Critical, Recovering, Destroying, Stopping, Deploying
<1>0. /\ TypeInv /\ Controlled(c) /\ pc[c] \in Critical
      /\ pc \in [Cli -> Label] /\ job \in [Cli -> Job] /\ job[c] \in Job
      /\ db \in [Id -> Row] /\ cache \in [Id -> Cache] /\ clock \in Nat
      /\ Facts(pc[c], job[c], db) /\ Guiding(pc[c], job[c])
      /\ pc[c] \in Working => cur(c) \in Id
      /\ ProcInv /\ NoResidue /\ AgreeInv
  BY DestroyStepOK, Inside DEF StepOK, RunInv, AgreeInv
<1>u. UNCHANGED onlyCtl => UNCHANGED <<db, os, clock, keys, cache>>
  BY DEF onlyCtl, otherStore, fileVars
<1>w. /\ {"xfail", "xbegin", "xprobe", "xcache", "xlog", "xkey", "xrm",
          "xdone", "xpurge"} \subseteq Working
  BY DEF Working, Label
<1>1. CASE DestroyNext(c) \/ DestroyDone(c)
  <2>1. pc'[c] \in Plain \cup {"idle"}
    <3>1. CASE DestroyNext(c)
      BY <1>0, <3>1 DEF DestroyNext, DestroyRoute, Move, Plain
    <3>2. CASE DestroyDone(c)
      BY <1>0, <3>2 DEF DestroyDone, Move, Return, Plain
    <3> QED BY <1>1, <3>1, <3>2
  <2>2. UNCHANGED onlyCtl /\ pc[c] = "xpick"
    BY <1>1 DEF DestroyNext, DestroyDone
  <2> QED BY <1>0, <1>u, <2>1, <2>2, PlainKeeps
<1>2. CASE RouteThroughFailed(c) \/ BeginDestroy(c)
  <2>1. /\ pc[c] \in {"xfail", "xbegin"} /\ pc[c] \in DOMAIN Attempt
        /\ Attempt[pc[c]] \in {"FAILED", "DESTROYING"}
        /\ \E next \in {"xbegin", "xprobe"} : Advance(c, Attempt[pc[c]], next)
    BY <1>2 DEF RouteThroughFailed, BeginDestroy, Attempt
  <2>2. db[cur(c)].phase # "STARTING" /\ cur(c) \in Id
    BY <1>0, <1>w, <2>1 DEF Facts, Current, Expecting, cur
  <2>3. Bound(cur(c))
    BY <2>2, BoundUnlessStarting
  <2>4. \A j : Guiding("xbegin", j)' /\ Guiding("xprobe", j)'
    BY DEF Guiding
  <2> QED BY <1>0, <1>w, <2>1, <2>3, <2>4, AdvanceKeeps DEF Gone, Absent
<1>3. CASE DestroyProbe(c)
  <2>1. /\ pc[c] = "xprobe" /\ UNCHANGED <<db, os, clock, keys, cache>>
    BY <1>3, <1>u DEF DestroyProbe
  <2>2. /\ cur(c) \in Id /\ db[cur(c)].phase = "DESTROYING"
        /\ Mem(c).pid = db[cur(c)].pid /\ Mem(c).tok = db[cur(c)].tok
    BY <1>0, <1>w, <2>1
       DEF Facts, Current, MadeAt, Making, Expecting, Mem, cur
  <2>3. /\ Led(cur(c), Mem(c).pid, Mem(c).tok) /\ Bound(cur(c))
        /\ Mem(c).pid = NoPid => Quiet(cur(c))
    BY <2>2, BoundUnlessStarting, BoundIsRecorded
  <2>4. CASE Mem(c).pid = NoPid /\ Go(c, "xcache")
    <3>1. pc'[c] = "xcache" /\ job'[c] = job[c]
      BY <1>0, <2>4 DEF Go, Move
    <3>2. Guiding(pc[c], job[c])'
      BY <2>1, <2>3, <2>4, <3>1 DEF Guiding, Quiet, Of, Running, cur
    <3> QED BY <1>0, <2>1, <3>2, ControlKeepsAll
  <2>5. CASE TargetFails(c)
    BY <2>1, <2>5, TargetFailsKeeps
  <2>6. CASE Move(c, "stop", [job[c] EXCEPT !.pid = Mem(c).pid,
                                            !.tok = Mem(c).tok])
    <3>1. /\ pc'[c] = "stop" /\ job'[c].cur = cur(c)
          /\ job'[c].pid = Mem(c).pid /\ job'[c].tok = Mem(c).tok
      BY <1>0, <2>6 DEF Move, Job, cur
    <3>2. Guiding(pc[c], job[c])'
      BY <2>1, <2>3, <3>1 DEF Guiding, Led, Bound, Of, Running
    <3> QED BY <1>0, <2>1, <3>2, ControlKeepsAll
  <2> QED BY <1>3, <2>4, <2>5, <2>6 DEF DestroyProbe
<1>4. CASE CheckCache(c)
  <2>1. /\ pc[c] = "xcache" /\ UNCHANGED <<db, os, clock, keys, cache>>
        /\ Quiet(cur(c))
    BY <1>0, <1>4, <1>u DEF CheckCache, Guiding, cur
  <2>2. CASE TargetFails(c)
    BY <2>1, <2>2, TargetFailsKeeps
  <2>3. CASE \E b \in BOOLEAN : /\ Move(c, "xlog", [job[c] EXCEPT !.owned = b])
                                /\ ~b => ~cache[cur(c)].dir
    <3>1. PICK b \in BOOLEAN : /\ Move(c, "xlog", [job[c] EXCEPT !.owned = b])
                               /\ ~b => ~cache[cur(c)].dir
      BY <2>3
    <3>2. pc'[c] = "xlog" /\ job'[c].cur = cur(c) /\ job'[c].owned = b
      BY <1>0, <3>1 DEF Move, Job, cur
    <3>3. Guiding(pc[c], job[c])'
      BY <2>1, <3>1, <3>2 DEF Guiding, Quiet, Of, Running
    <3> QED BY <1>0, <2>1, <3>3, ControlKeepsAll
  <2>4. modelCacheOwnedBy(cur(c), Mem(c).key) \in {"owned", "refused"}
          \/ ~cache[cur(c)].dir
    BY DEF modelCacheOwnedBy
  <2> QED BY <1>4, <2>2, <2>3, <2>4 DEF CheckCache
<1>5. CASE RemoveLog(c)
  <2>1. /\ pc[c] = "xlog" /\ UNCHANGED <<db, os, clock, keys, cache>>
        /\ pc'[c] = "xkey" /\ job'[c] = job[c]
    BY <1>0, <1>5 DEF RemoveLog, Go, Move
  <2>2. Guiding(pc[c], job[c])'
    BY <1>0, <2>1 DEF Guiding, Quiet, Of, Running
  <2> QED BY <1>0, <2>1, <2>2, ControlKeepsAll
<1>6. CASE RemoveKey(c)
  <2>1. /\ pc[c] = "xkey" /\ UNCHANGED <<db, os, clock, cache>>
        /\ keys' = keys \ {cur(c)}
        /\ pc'[c] = (IF job[c].owned THEN "xrm" ELSE "xdone")
        /\ job'[c].cur = cur(c)
    BY <1>0, <1>6 DEF RemoveKey, Move, Job, cur
  <2>2. Guiding(pc[c], job[c])'
    BY <1>0, <2>1 DEF Guiding, Quiet, Of, Running, cur
  <2>3. ProcInv'
    BY <1>0, <2>1, ControlKeepsProc
  <2>4. NoResidue'
    BY <1>0, <2>1 DEF NoResidue, Owns, Active
  <2> QED BY <1>0, <2>2, <2>3, <2>4, GuidedStep DEF Kept
<1>7. CASE RemoveCacheEntry(c) \/ RemoveCacheDir(c)
  <2>1. /\ pc[c] = "xrm" /\ UNCHANGED <<db, os, clock, keys>>
        /\ cur(c) \in Id /\ db[cur(c)].phase = "DESTROYING"
    BY <1>0, <1>7, <1>w
       DEF RemoveCacheEntry, RemoveCacheDir, Facts, Current, Expecting, cur
  <2>2. /\ \A i \in Id \ {cur(c)} : cache'[i] = cache[i]
        /\ job'[c] = job[c]
        /\ \/ pc'[c] = "xrm"
           \/ pc'[c] = "xdone" /\ ~cache'[cur(c)].dir
    BY <1>0, <1>7, <2>1 DEF RemoveCacheEntry, RemoveCacheDir, Go, Move, Cache
  <2>3. Guiding(pc[c], job[c])'
    BY <1>0, <2>1, <2>2 DEF Guiding, Quiet, Of, Running, cur
  <2>4. ProcInv'
    BY <1>0, <2>1, ControlKeepsProc
  <2>5. NoResidue'
    BY <1>0, <2>1, <2>2 DEF NoResidue, Owns, Active, Absent
  <2> QED BY <1>0, <2>3, <2>4, <2>5, GuidedStep DEF Kept
<1>8. CASE FinishDestroy(c)
  <2>1. pc[c] = "xdone" /\ pc[c] \in DOMAIN Attempt
        /\ Attempt[pc[c]] = "DESTROYED" /\ cur(c) \in Id
    BY <1>0, <1>8, <1>w DEF FinishDestroy, Attempt
  <2>2. /\ Quiet(cur(c)) /\ cur(c) \notin keys /\ ~cache[cur(c)].dir
        /\ Bound(cur(c)) /\ db[cur(c)].phase = "DESTROYING"
    BY <1>0, <1>w, <2>1
       DEF Guiding, Quiet, Bound, cur, Facts, Current, Expecting
  <2>3. /\ Transition(cur(c), "DESTROYED", clock)
        /\ UNCHANGED <<os, clock, keys, cache>>
        /\ \E j : Move(c, IF purge(c) THEN "xpurge" ELSE "xpick", j)
    BY <1>0, <1>8, <2>1, FactsAccepted
       DEF FinishDestroy, Advance, StoreNeverRefuses, otherStore, fileVars
  <2>4. ProcInv'
    BY <1>0, <1>w, <2>1, <2>2, <2>3, AdvanceKeepsProc DEF Absent
  <2>5. NoResidue'
    BY <1>0, <2>1, <2>2, <2>3 DEF Transition, NoResidue, Owns, Active
  <2>6. pc'[c] \in {"xpurge", "xpick"}
    BY <1>0, <2>3 DEF Move
  <2>7. Guiding(pc[c], job[c])'
    BY <2>6 DEF Guiding
  <2> QED BY <1>0, <2>4, <2>5, <2>7, GuidedStep DEF Kept
<1>9. CASE Purge(c)
  <2>1. /\ pc[c] = "xpurge" /\ Delete(cur(c)) /\ Go(c, "xpick")
        /\ UNCHANGED <<os, clock, keys, cache>> /\ cur(c) \in Id
        /\ db[cur(c)].phase = "DESTROYED"
    BY <1>0, <1>9, <1>w, FactsAccepted
       DEF Purge, StoreNeverRefuses, DeleteOK, otherStore, fileVars
  <2>2. /\ \A i \in Id \ {cur(c)} : db'[i] = db[i]
        /\ db'[cur(c)] = NoRow
    BY <1>0, <2>1 DEF Delete
  <2>3. Quiet(cur(c))
    BY <1>0, <2>1 DEF ProcInv, Traced, Gone, Quiet, Of
  <2>4. ProcInv'
    BY <1>0, <2>1, <2>2, <2>3, RowKeepsProc DEF NoRow
  <2>5. NoResidue'
    BY <1>0, <2>1, <2>2 DEF NoResidue, Owns, Active
  <2>6. pc'[c] = "xpick"
    BY <1>0, <2>1 DEF Go, Move
  <2>7. Guiding(pc[c], job[c])'
    BY <2>6 DEF Guiding
  <2> QED BY <1>0, <2>4, <2>5, <2>7, GuidedStep DEF Kept
<1>10. CASE StopVerifies(c) \/ StopTerminates(c) \/ StopGraceOver(c)
              \/ StopGivesUp(c)
  BY <1>0, <1>10, StopKeeps
<1> QED BY <1>1, <1>2, <1>3, <1>4, <1>5, <1>6, <1>7, <1>8, <1>9, <1>10
        DEF DestroyStep

-----------------------------------------------------------------------------
(* Deploying.                                                              *)

\* Before it starts a runtime, a deployment in progress has no process, and
\* neither has any other.
LEMMA NobodyRuns ==
  ASSUME RunInv, NEW i \in Id, db[i].phase \notin Gone, Quiet(i)
  PROVE  \A p \in Pid : ~Running(p)
BY OnlyOne DEF Quiet

\* supervisor.Start: the one process there is can be traced by the intent that
\* was recorded before it, and is in the hands of the command.
LEMMA LaunchKeeps ==
  ASSUME RunInv, Traceable, NEW c \in Cli, Launch(c), Controlled(c)
  PROVE  Kept
<1>0. /\ pc[c] = "launch" /\ pc[c] \in Critical /\ pc[c] \in Working
      /\ "exec" \in Critical
  BY DEF Launch, Critical, Deploying, Working, Label
<1>1. /\ TypeInv /\ pc \in [Cli -> Label] /\ job \in [Cli -> Job]
      /\ job[c] \in Job /\ db \in [Id -> Row] /\ os \in [Pid -> Slot]
      /\ clock \in Nat /\ cur(c) \in Id /\ ProcInv /\ NoResidue
      /\ Facts(pc[c], job[c], db) /\ Guiding(pc[c], job[c])
  BY <1>0, Inside
<1>2. /\ db[cur(c)].phase = "STARTING" /\ db[cur(c)].pid = NoPid
      /\ db[cur(c)].intent /\ Mem(c).key = db[cur(c)].key
      /\ db[cur(c)].key # 0 /\ db[cur(c)].upd \in Nat
      /\ db[cur(c)].upd <= clock
  BY <1>0, <1>1
     DEF Facts, Current, Expecting, Mem, cur, ProcInv, Dated, Row, Absent
<1>3. \A q \in Pid : ~Running(q)
  BY <1>0, <1>1, <1>2, NobodyRuns DEF Guiding, cur, Gone, Absent
<1>4. PICK p \in Pid :
        /\ Fork(p, cur(c), Mem(c).key)
        /\ Move(c, "exec", [job[c] EXCEPT !.pid = p, !.tok = clock + 1])
  BY DEF Launch
<1>5. UNCHANGED <<db, keys, cache>>
  BY DEF Launch
<1>6. /\ clock' = clock + 1
      /\ os'[p] = [st |-> "forked", id |-> cur(c), key |-> Mem(c).key,
                   shows |-> TRUE, pgid |-> p, tok |-> clock + 1]
      /\ \A q \in Pid \ {p} : os'[q] = os[q]
  BY <1>1, <1>4 DEF Fork
<1>7. /\ pc'[c] = "exec" /\ job'[c].cur = cur(c) /\ job'[c].pid = p
      /\ job'[c].tok = clock + 1 /\ job'[c].made = job[c].made
  BY <1>1, <1>4 DEF Move, Job, cur
<1>8. \A q \in Pid : Running(q)' => q = p
  BY <1>3, <1>6 DEF Running
<1>9. ASSUME NEW q \in Pid, os'[q].st = "forked" PROVE q = p
  <2>1. CASE q # p
    <3>1. os[q].st = "forked"
      BY <1>6, <1>9, <2>1
    <3> QED BY <1>0, <3>1, NoneHatching
  <2> QED BY <2>1
<1>10. Leads'
  <2>1. ASSUME NEW q \in Pid, os'[q].shows
        PROVE  os'[q].key # 0 \/ os'[q].tok = 0
    BY <1>1, <1>2, <1>6, <2>1 DEF ProcInv, Leads
  <2> QED BY <1>1, <1>6, <1>8, <2>1 DEF Leads
<1>11. Kin' /\ Hatching'
  BY <1>2, <1>6, <1>7, <1>8, <1>9 DEF Kin, Hatching
<1>12. Traced' /\ Dated'
  <2>1. Dated'
    BY <1>1, <1>5, <1>6 DEF ProcInv, Dated, Row
  <2>2. Traced'
    BY <1>1, <1>2, <1>5, <1>6, <1>8 DEF Traced, Gone, Absent
  <2> QED BY <2>1, <2>2
<1>13. Watched'
  BY <1>6, <1>7, <1>8 DEF Watched
<1>14. NoResidue'
  BY <1>5, FilesKeep
<1>15. \A i : Of(i)' \subseteq {p}
  BY <1>8 DEF Of
<1>16. Guiding(pc[c], job[c])'
  BY <1>6, <1>7, <1>15 DEF Guiding, Stopping, Led
<1> QED BY <1>0, <1>10, <1>11, <1>12, <1>13, <1>14, <1>16, GuidedStep
        DEF Kept, ProcInv

\* Start returns: the child is past exec.
LEMMA CaptureKeeps ==
  ASSUME RunInv, Traceable, NEW c \in Cli, IdentityCaptured(c), Controlled(c)
  PROVE  Kept
<1>0. /\ pc[c] = "exec" /\ pc[c] \in Critical /\ "bind" \in Critical
  BY DEF IdentityCaptured, Critical, Deploying
<1>1. /\ TypeInv /\ pc \in [Cli -> Label] /\ job \in [Cli -> Job]
      /\ ProcInv /\ Guiding(pc[c], job[c])
  BY <1>0, Inside
<1>2. /\ UNCHANGED <<db, os, clock, keys, cache>>
      /\ pc'[c] = "bind" /\ job'[c] = job[c]
      /\ os[job[c].pid].st \in {"live", "zombie"}
  BY <1>1 DEF IdentityCaptured, Go, Move, onlyCtl, otherStore, fileVars
<1>3. \A q \in Pid : os[q].st # "forked"
  BY <1>0, <1>2, NoneHatching
<1>4. Leads' /\ Kin' /\ Traced' /\ Dated' /\ Hatching'
  BY <1>1, <1>2, <1>3
     DEF ProcInv, Leads, Kin, Traced, Dated, Hatching, Running
<1>5. Watched'
  <2>1. ASSUME NEW q \in Pid, Running(q), db[os[q].id].pid = NoPid, ~Single
        PROVE  job[c].pid = os[q].pgid
    <3>1. {"exec", "bind"} \subseteq Critical
      BY DEF Critical, Deploying
    <3> QED BY <1>0, <1>1, <2>1, <3>1, Inside DEF ProcInv, Watched
  <2> QED BY <1>2, <2>1 DEF Watched, Running
<1>6. NoResidue'
  BY <1>2, FilesKeep
<1>7. Guiding(pc[c], job[c])'
  BY <1>0, <1>1, <1>2 DEF Guiding, Stopping, Led, Of, Running
<1> QED BY <1>0, <1>4, <1>5, <1>6, <1>7, GuidedStep DEF Kept, ProcInv

\* executeDeploy.
LEMMA DeployKeeps ==
  ASSUME RunInv, Traceable, NEW c \in Cli, DeployStep(c)
  PROVE  Kept
<1> USE DEF Critical, Recovering, Destroying, Stopping, Deploying
<1>0. /\ TypeInv /\ Controlled(c) /\ pc[c] \in Critical
      /\ pc \in [Cli -> Label] /\ job \in [Cli -> Job] /\ job[c] \in Job
      /\ db \in [Id -> Row] /\ cache \in [Id -> Cache] /\ clock \in Nat
      /\ Facts(pc[c], job[c], db) /\ Guiding(pc[c], job[c])
      /\ pc[c] \in Working => cur(c) \in Id
      /\ ProcInv /\ NoResidue /\ AgreeInv /\ deploys \in Nat
  BY DeployStepOK, Inside DEF StepOK, RunInv, AgreeInv, TypeInv, DataOK
<1>u. UNCHANGED onlyCtl => UNCHANGED <<db, os, clock, keys, cache>>
  BY DEF onlyCtl, otherStore, fileVars
<1>w. Deploying \ {"resolve"} \subseteq Working
  BY DEF Working, Label
<1>1. CASE ResolveFails(c) \/ Resolved(c)
  <2>1. /\ pc[c] = "resolve" /\ UNCHANGED onlyCtl
        /\ pc'[c] \in Plain \cup {"idle"}
    BY <1>0, <1>1 DEF ResolveFails, Resolved, Return, Go, Move, Plain
  <2> QED BY <1>0, <1>u, <2>1, PlainKeeps
<1>2. CASE ClearTombstone(c)
  <2>1. /\ pc[c] = "tomb" /\ UNCHANGED <<os, clock, keys, cache>>
        /\ cur(c) \in Id /\ Go(c, "create")
        /\ db' = db \/ Delete(cur(c))
    BY <1>0, <1>2, <1>w DEF ClearTombstone, otherStore, fileVars
  <2>2. \A i \in Id : db[i].phase \in Gone
    BY <1>0, <2>1 DEF Facts, Clears
  <2>3. Quiet(cur(c))
    BY <1>0, <2>1, <2>2 DEF ProcInv, Traced, Quiet, Of
  <2>4. /\ \A i \in Id \ {cur(c)} : db'[i] = db[i]
        /\ db'[cur(c)] \in {db[cur(c)], NoRow}
    BY <1>0, <2>1 DEF Delete
  <2>5. ProcInv'
    BY <1>0, <2>1, <2>3, <2>4, RowKeepsProc DEF NoRow, ProcInv, Dated, Row
  <2>6. NoResidue'
    BY <1>0, <2>1, <2>2, <2>4 DEF NoResidue, Owns, Active, Gone
  <2>7. pc'[c] = "create"
    BY <1>0, <2>1 DEF Go, Move
  <2>8. Guiding(pc[c], job[c])'
    BY <2>7 DEF Guiding
  <2> QED BY <1>0, <2>5, <2>6, <2>8, GuidedStep DEF Kept
<1>3. CASE CreateDeployment(c)
  <2> DEFINE row == NewRow(deploys + 1, clock)
  <2>1. /\ pc[c] = "create" /\ UNCHANGED <<os, clock, keys, cache>>
        /\ cur(c) \in Id /\ db[cur(c)].phase = Absent
        /\ Create(cur(c), deploys + 1, clock)
        /\ Move(c, "validate", [job[c] EXCEPT !.list[cur(c)] = row,
                                              !.made = TRUE])
    BY <1>0, <1>3, <1>w, FactsAccepted
       DEF CreateDeployment, StoreNeverRefuses, CreateOK, fileVars
  <2>2. /\ \A i \in Id \ {cur(c)} : db'[i] = db[i]
        /\ db'[cur(c)] = row
    BY <1>0, <2>1 DEF Create
  <2>3. row.phase = "REQUESTED" /\ row.key = deploys + 1 /\ row.upd = clock
    BY DEF NewRow, NoRow
  <2>4. Quiet(cur(c))
    BY <1>0, <2>1 DEF ProcInv, Traced, Gone, Quiet, Of
  <2>5. ProcInv'
    BY <1>0, <2>1, <2>2, <2>3, <2>4, RowKeepsProc
  <2>6. NoResidue'
    BY <1>0, <2>1, <2>2, <2>3 DEF NoResidue, Owns, Active, Absent
  <2>7. pc'[c] = "validate" /\ job'[c].cur = cur(c)
    BY <1>0, <2>1 DEF Move, Job, cur
  <2>8. Guiding(pc[c], job[c])'
    BY <2>1, <2>4, <2>7 DEF Guiding, Quiet, Of, Running
  <2> QED BY <1>0, <2>5, <2>6, <2>8, GuidedStep DEF Kept
<1>4. CASE StartValidating(c) \/ StartDownloading(c) \/ StartStarting(c)
  <2>1. PICK next \in {"key", "intent", "launch"} :
          /\ pc[c] \in {"validate", "download", "starting"}
          /\ pc[c] \in DOMAIN Attempt
          /\ Attempt[pc[c]] \in {"VALIDATING", "DOWNLOADING", "STARTING"}
          /\ Advance(c, Attempt[pc[c]], next)
    BY <1>4 DEF StartValidating, StartDownloading, StartStarting, Attempt
  <2>2. Quiet(cur(c)) /\ Bound(cur(c))
    BY <1>0, <2>1 DEF Guiding, Quiet, Bound, cur
  <2>3. ASSUME NEW i, NEW j, i = cur(c), j.cur = i, \A k : Of(k)' = Of(k)
        PROVE  Guiding(next, j)'
    BY <2>1, <2>2, <2>3 DEF Guiding, Quiet
  <2> QED BY <1>0, <1>w, <2>1, <2>2, <2>3, AdvanceKeeps DEF Gone, Absent
<1>5. CASE writeAPIKey(c)
  <2>1. /\ pc[c] = "key" /\ UNCHANGED <<db, os, clock, cache>>
        /\ keys' = keys \cup {cur(c)} /\ cur(c) \in Id
        /\ db[cur(c)].phase = "VALIDATING"
        /\ pc'[c] = "mkdir" /\ job'[c] = job[c]
    BY <1>0, <1>5, <1>w
       DEF writeAPIKey, Go, Move, Facts, Current, Expecting, cur
  <2>2. Guiding(pc[c], job[c])'
    BY <1>0, <2>1 DEF Guiding, Quiet, Of, Running
  <2>3. ProcInv'
    BY <1>0, <2>1, ControlKeepsProc
  <2>4. NoResidue'
    BY <1>0, <2>1 DEF NoResidue, Owns, Active, Absent
  <2> QED BY <1>0, <2>2, <2>3, <2>4, GuidedStep DEF Kept
<1>6. CASE MakeCacheDir(c) \/ WriteMarker(c) \/ (ClaimCache(c) /\ ~Rejected(c))
  <2>1. /\ pc[c] \in {"mkdir", "mwrite", "marker"}
        /\ UNCHANGED <<db, os, clock, keys>> /\ cur(c) \in Id
        /\ db[cur(c)].phase = "VALIDATING"
        /\ \A i \in Id \ {cur(c)} : cache'[i] = cache[i]
        /\ pc'[c] \in {"marker", "mwrite", "download"} /\ job'[c] = job[c]
    BY <1>0, <1>6, <1>w
       DEF MakeCacheDir, WriteMarker, ClaimCache, Go, Move, Facts, Current,
           Expecting, cur
  <2>2. Guiding(pc[c], job[c])'
    BY <1>0, <2>1 DEF Guiding, Quiet, Of, Running
  <2>3. ProcInv'
    BY <1>0, <2>1, ControlKeepsProc
  <2>4. NoResidue'
    BY <1>0, <2>1 DEF NoResidue, Owns, Active, Absent
  <2> QED BY <1>0, <2>2, <2>3, <2>4, GuidedStep DEF Kept
<1>7. CASE ClaimCache(c) /\ Rejected(c)
  <2>1. pc[c] = "marker" /\ pc'[c] \notin {"mwrite", "download"}
    BY <1>0, <1>7 DEF ClaimCache, Rejected, Fail, Go, Move
  <2>2. UNCHANGED <<db, os, clock, keys, cache>>
    BY <1>0, <1>7, <2>1 DEF ClaimCache, Go, Move
  <2> QED BY <1>0, <1>7, <2>1, <2>2, RejectedKeeps
<1>8. CASE RecordIntent(c)
  <2>1. /\ pc[c] = "intent" /\ UNCHANGED <<os, clock, keys, cache>>
        /\ cur(c) \in Id /\ SetRuntimeIntent(cur(c), clock)
        /\ db[cur(c)].phase = "DOWNLOADING"
        /\ pc'[c] = "starting" /\ job'[c] = job[c]
    BY <1>0, <1>8, <1>w, FactsAccepted
       DEF RecordIntent, StoreNeverRefuses, SetRuntimeIntentOK, otherStore,
           fileVars, Go, Move
  <2>2. /\ \A i \in Id \ {cur(c)} : db'[i] = db[i]
        /\ db'[cur(c)].phase = "DOWNLOADING"
        /\ db'[cur(c)].key = db[cur(c)].key /\ db'[cur(c)].upd = clock
    BY <1>0, <2>1 DEF SetRuntimeIntent, Row
  <2>3. Quiet(cur(c)) /\ db[cur(c)].key # 0
    BY <1>0, <2>1 DEF Guiding, cur, ProcInv, Dated, Absent
  <2>4. ProcInv'
    BY <1>0, <2>1, <2>2, <2>3, RowKeepsProc
  <2>5. NoResidue'
    BY <1>0, <2>1, <2>2 DEF NoResidue, Owns, Active
  <2>6. Guiding(pc[c], job[c])'
    BY <2>1, <2>3 DEF Guiding, Quiet, Of, Running, cur
  <2> QED BY <1>0, <2>4, <2>5, <2>6, GuidedStep DEF Kept
<1>9. CASE Launch(c) \/ IdentityCaptured(c)
  BY <1>0, <1>9, LaunchKeeps, CaptureKeeps
<1>10. CASE LaunchFails(c) \/ ChecksFail(c)
  <2>1. /\ pc[c] \in {"launch", "health", "ready"} /\ Fail(c)
        /\ UNCHANGED <<db, os, clock, keys, cache>>
    BY <1>10, <1>u DEF LaunchFails, ChecksFail
  <2> QED BY <2>1, FailKeeps DEF Failing
<1>11. CASE BindRuntime(c)
  <2>1. /\ pc[c] = "bind" /\ UNCHANGED <<os, clock, keys, cache>>
        /\ cur(c) \in Id /\ db[cur(c)].phase = "STARTING"
        /\ SetRuntime(cur(c), job[c].pid, job[c].tok, clock)
        /\ pc'[c] = "health" /\ job'[c] = job[c]
    BY <1>0, <1>11, <1>w, FactsAccepted
       DEF BindRuntime, StoreNeverRefuses, SetRuntimeOK, otherStore,
           fileVars, Go, Move
  <2>2. /\ \A i \in Id \ {cur(c)} : db'[i] = db[i]
        /\ db'[cur(c)].phase = "STARTING"
        /\ db'[cur(c)].key = db[cur(c)].key /\ db'[cur(c)].upd = clock
        /\ db'[cur(c)].pid = job[c].pid /\ db'[cur(c)].tok = job[c].tok
    BY <1>0, <2>1 DEF SetRuntime, Row
  <2>3. Led(cur(c), job[c].pid, job[c].tok) /\ db[cur(c)].key # 0
    BY <1>0, <2>1 DEF Guiding, cur, ProcInv, Dated, Absent
  <2>4. ProcInv'
    BY <1>0, <2>1, <2>2, <2>3, RowKeepsProc DEF Gone, Absent
  <2>5. NoResidue'
    BY <1>0, <2>1, <2>2 DEF NoResidue, Owns, Active
  <2>6. job[c].pid = NoPid => Quiet(cur(c))
    BY <2>1, <2>3, LedByNobody
  <2>7. Guiding(pc[c], job[c])'
    BY <2>1, <2>2, <2>3, <2>6
       DEF Guiding, Quiet, Led, Bound, Of, Running, cur
  <2> QED BY <1>0, <2>4, <2>5, <2>7, GuidedStep DEF Kept
<1>12. CASE BecomesHealthy(c) \/ BecomesReady(c)
  <2>1. /\ pc[c] \in {"health", "ready"}
        /\ UNCHANGED <<db, os, clock, keys, cache>>
        /\ pc'[c] = (IF pc[c] = "health" THEN "healthy" ELSE "register")
        /\ job'[c] = job[c]
    BY <1>0, <1>12, <1>u DEF BecomesHealthy, BecomesReady, Go, Move
  <2>2. Guiding(pc[c], job[c])'
    BY <1>0, <2>1 DEF Guiding, Led, Bound, Of, Running
  <2> QED BY <1>0, <2>1, <2>2, ControlKeepsAll
<1>13. CASE RecordHealthy(c) \/ StartRegistering(c)
  <2>1. PICK next \in {"ready", "unreg"} :
          /\ pc[c] \in {"healthy", "register"} /\ pc[c] \in DOMAIN Attempt
          /\ Attempt[pc[c]] \in {"HEALTHY", "REGISTERING"}
          /\ Advance(c, Attempt[pc[c]], next) /\ UNCHANGED os
    BY <1>13 DEF RecordHealthy, StartRegistering, Attempt, Advance, otherStore
  <2>2. Led(cur(c), job[c].pid, job[c].tok) /\ cur(c) \in Id
    BY <1>0, <1>w, <2>1 DEF Guiding, cur
  <2>3. Bound(cur(c))
    <3>1. CASE pc[c] = "healthy"
      BY <1>0, <3>1 DEF Guiding, cur
    <3>2. CASE pc[c] = "register"
      <4>1. db[cur(c)].phase = "HEALTHY"
        BY <1>0, <1>w, <3>2 DEF Facts, Current, Expecting, cur
      <4> QED BY <2>2, <4>1, BoundUnlessStarting
    <3> QED BY <2>1, <3>1, <3>2
  <2>4. ASSUME NEW i, NEW j, i = cur(c), j.cur = i, j.pid = job[c].pid,
               j.tok = job[c].tok, \A k : Of(k)' = Of(k)
        PROVE  Guiding(next, j)'
    BY <2>1, <2>2, <2>4 DEF Guiding, Led
  <2> QED BY <1>0, <1>w, <2>1, <2>3, <2>4, AdvanceKeeps DEF Gone, Absent
<1>14. CASE FinishDeploy(c) \/ RecordFailure(c)
  <2>1. /\ pc[c] \in {"unreg", "ffail"} /\ pc[c] \in DOMAIN Attempt
        /\ Attempt[pc[c]] \in {"UNREGISTERED_HEALTHY", "FAILED"}
        /\ cur(c) \in Id /\ UNCHANGED <<os, clock, keys, cache>>
        /\ Transition(cur(c), Attempt[pc[c]], clock) /\ pc'[c] = "idle"
    BY <1>0, <1>14, <1>w, FactsAccepted
       DEF FinishDeploy, RecordFailure, StoreNeverRefuses, Attempt,
           otherStore, fileVars, Return
  <2>2. /\ db[cur(c)].phase \in Underway
        /\ pc[c] = "unreg" => db[cur(c)].phase = "REGISTERING"
    BY <1>0, <1>w, <2>1 DEF Facts, Current, Expecting, cur, Underway
  <2>3. Bound(cur(c))
    <3>1. CASE pc[c] = "ffail"
      BY <1>0, <3>1 DEF Guiding, cur
    <3>2. CASE pc[c] = "unreg"
      BY <2>1, <2>2, <3>2, BoundUnlessStarting
    <3> QED BY <2>1, <3>1, <3>2
  <2>4. ProcInv'
    BY <1>0, <1>w, <2>1, <2>2, <2>3, AdvanceKeepsProc
       DEF Underway, Gone, Absent
  <2>5. NoResidue'
    BY <1>0, <2>1, <2>2
       DEF Transition, NoResidue, Owns, Active, Underway, Absent
  <2> QED BY <1>0, <2>1, <2>4, <2>5, GuidedStep DEF Kept
<1> QED BY <1>1, <1>2, <1>3, <1>4, <1>5, <1>6, <1>7, <1>8, <1>9, <1>10,
           <1>11, <1>12, <1>13, <1>14 DEF DeployStep

-----------------------------------------------------------------------------
(* Faults.                                                                 *)

\* Start cannot read its child's identity: nothing that it started is left.
LEMMA CaptureFailsKeeps ==
  ASSUME RunInv, Traceable, NEW c \in Cli, CaptureFails(c), Controlled(c)
  PROVE  Kept
<1> DEFINE g == job[c].pid
<1>0. /\ pc[c] = "exec" /\ pc[c] \in Critical /\ pc[c] \in Working
      /\ "ffail" \in Critical
  BY DEF CaptureFails, Critical, Deploying, Working, Label
<1>1. /\ TypeInv /\ pc \in [Cli -> Label] /\ job \in [Cli -> Job]
      /\ job[c] \in Job /\ os \in [Pid -> Slot] /\ cur(c) \in Id
      /\ ProcInv /\ Guiding(pc[c], job[c]) /\ Facts(pc[c], job[c], db)
  BY <1>0, Inside
<1>2. /\ UNCHANGED <<db, clock, keys, cache>>
      /\ pc'[c] = "ffail" /\ job'[c].cur = cur(c)
      /\ os[g].st \in {"live", "zombie"}
      /\ os' = [p \in Pid |->
                  IF p = g THEN FreeSlot
                  ELSE IF os[p].pgid = g /\ os[p].st \in {"forked", "live"}
                  THEN Dead(os[p]) ELSE os[p]]
  BY <1>1 DEF CaptureFails, KillGroupAndWait, Move, Job, cur, fileVars
<1>3. \A p \in Pid : os[p].st # "forked"
  BY <1>0, <1>2, NoneHatching
<1>4. db[cur(c)].phase = "STARTING"
  BY <1>0, <1>1 DEF Facts, Current, Expecting, cur
<1>5. \A p \in Pid : Running(p) => os[p].pgid = g
  BY <1>0, <1>1, <1>4, OnlyOne DEF Guiding, Led, cur, Gone, Absent
<1>6. \A p \in Pid : \/ os'[p] = os[p]
                     \/ /\ os'[p].st \notin {"forked", "live"}
                        /\ ~os'[p].shows
  BY <1>1, <1>2 DEF Dead, FreeSlot, Slot
<1>7. ASSUME NEW p \in Pid, Running(p)' PROVE FALSE
  BY <1>1, <1>2, <1>5, <1>7 DEF Running, Dead, FreeSlot, Slot
<1>8. Leads' /\ Kin' /\ Traced' /\ Dated'
  BY <1>2, <1>6, FewerProcesses
<1>9. Hatching' /\ Watched'
  BY <1>3, <1>6, <1>7 DEF Hatching, Watched
<1>10. NoResidue'
  BY <1>2, FilesKeep
<1>11. Guiding(pc[c], job[c])'
  BY <1>2, <1>7 DEF Guiding, Stopping, Bound, Of
<1> QED BY <1>0, <1>8, <1>9, <1>10, <1>11, GuidedStep DEF Kept, ProcInv

\* Every fault but a kill.
LEMMA FaultKeeps ==
  ASSUME RunInv, Traceable, NEW c \in Cli, FaultStep(c), ~Crash(c)
  PROVE  Kept
<1> USE DEF Critical, Recovering, Destroying, Stopping, Deploying
<1>0. /\ pc[c] \in Critical /\ Controlled(c)
      /\ TypeInv /\ pc \in [Cli -> Label] /\ os \in [Pid -> Slot]
      /\ Guiding(pc[c], job[c])
  <2>1. pc[c] \in Critical
    BY FaultAgrees DEF RunInv
  <2>2. TypeInv
    BY DEF RunInv, AgreeInv
  <2>3. Controlled(c)
    BY <2>2, FaultStepOK DEF StepOK
  <2> QED BY <2>1, <2>3, Inside
<1>1. CASE StoreFails(c) \/ DiskFails(c) \/ ProbeFails(c)
  <2>1. /\ Rejected(c) /\ UNCHANGED <<db, os, clock, keys, cache>>
        /\ pc[c] # "exec" /\ (pc[c] = "bind" => "store" \in FaultKinds)
    BY <1>1 DEF StoreFails, DiskFails, ProbeFails, Fault, fileVars
  <2> QED BY <1>0, <2>1, RejectedKeeps
<1>2. CASE StopFails(c)
  <2>1. /\ StopReturns(c, FALSE) /\ UNCHANGED <<db, os, clock, keys, cache>>
        /\ pc[c] \in Stopping /\ "stop" \in FaultKinds
    BY <1>2 DEF StopFails, Fault, fileVars
  <2>2. Bound(cur(c))
    BY <1>0, <2>1 DEF Guiding, Traceable, Single, Orderly, cur
  <2> QED BY <2>1, <2>2, StopReturnsKeeps
<1>3. CASE CaptureFails(c)
  BY <1>0, <1>3, CaptureFailsKeeps
<1>4. CASE ReapedWhileProbed(c)
  <2>1. /\ pc[c] \in {"rprobe", "xprobe"} /\ Rejected(c)
        /\ UNCHANGED <<db, clock, keys, cache>> /\ Reaped(Mem(c).pid)
    BY <1>4 DEF ReapedWhileProbed, Reaped, fileVars
  <2>2. \A q \in Pid : \/ os'[q] = os[q]
                       \/ /\ os'[q].st \notin {"forked", "live"}
                          /\ ~os'[q].shows
    BY <1>0, <2>1 DEF Reaped, FreeSlot
  <2>3. ProcInv'
    BY <1>0, <2>1, <2>2, KillsKeepProc
  <2>4. pc'[c] \in {"idle", "xpick"}
    BY <1>0, <2>1, ErrorsLead DEF Rejected, TargetFails, Return, Move
  <2>5. pc'[c] \in Critical => Guiding(pc[c], job[c])'
    BY <2>4 DEF Guiding
  <2>6. NoResidue'
    BY <2>1, FilesKeep
  <2> QED BY <1>0, <2>3, <2>5, <2>6, GuidedStep DEF Kept
<1> QED BY <1>1, <1>2, <1>3, <1>4 DEF FaultStep

\* A kill, an invocation, and what happens around the lock. Where kills happen
\* nothing relies on the command that started a runtime.
LEMMA OutsideKeeps ==
  ASSUME RunInv, Traceable, NEW c \in Cli,
         Invocation(c) \/ Acquire(c) \/ StatusBusy(c) \/ Crash(c)
  PROVE  Kept
<1> USE DEF Critical, Recovering, Destroying, Stopping, Deploying
<1>0. /\ pc \in [Cli -> Label] /\ job \in [Cli -> Job] /\ ProcInv /\ Guided
      /\ MutualExclusion /\ Nobody \notin Pid /\ Cli \cap Pid = {}
  BY CommandAssumption DEF RunInv, AgreeInv, TypeInv, CtlOK
<1>1. UNCHANGED <<db, os, clock, keys, cache>>
  BY DEF Invocation, Invoke, Acquire, StatusBusy, Crash, onlyCtl, otherStore,
         fileVars
<1>2. \A d \in Cli \ {c} : pc'[d] = pc[d] /\ job'[d] = job[d]
  BY <1>0 DEF Invocation, Invoke, Acquire, StatusBusy, Crash, Move
<1>3. pc'[c] \in {"wait", "rlist", "idle"}
  BY <1>0 DEF Invocation, Invoke, Acquire, StatusBusy, Crash, Move
<1>4. \A j : Guiding("rlist", j)'
  BY DEF Guiding
<1>5. Guided'
  <2>1. ASSUME NEW d \in Cli \ {c}, pc'[d] \in Critical
        PROVE  Guiding(pc[d], job[d])'
    BY <1>0, <1>1, <1>2, <2>1
       DEF Guided, Guiding, Quiet, Bound, Led, Of, Running
  <2>2. pc'[c] \in Critical => Guiding(pc[c], job[c])'
    BY <1>3, <1>4 DEF Guiding
  <2> QED BY <2>1, <2>2 DEF Guided
<1>6. Leads' /\ Kin' /\ Traced' /\ Dated'
  BY <1>0, <1>1 DEF ProcInv, Leads, Kin, Traced, Dated, Running
<1>7. Hatching'
  <2> SUFFICES ASSUME NEW p \in Pid, os[p].st = "forked"
               PROVE  lock' = p \/ \E d \in Cli : pc'[d] = "exec"
                                                   /\ job'[d].pid = p
    BY <1>0, <1>1 DEF ProcInv, Hatching, Running
  <2>1. lock = p \/ \E d \in Cli : pc[d] = "exec" /\ job[d].pid = p
    BY <1>0 DEF ProcInv, Hatching
  <2>2. CASE lock = p
    BY <1>0, <2>2 DEF Invocation, Invoke, Move, Acquire, LockFree, StatusBusy,
                      Crash, LockLeft
  <2>3. CASE \E d \in Cli \ {c} : pc[d] = "exec" /\ job[d].pid = p
    BY <1>2, <2>3
  <2>4. CASE pc[c] = "exec" /\ job[c].pid = p
    <3>1. Crash(c) /\ lock = c
      BY <1>0, <2>4
         DEF Invocation, Invoke, Acquire, StatusBusy, MutualExclusion
    <3> QED BY <2>4, <3>1 DEF Crash, LockLeft
  <2> QED BY <2>1, <2>2, <2>3, <2>4
<1>8. Watched'
  <2>1. CASE Crash(c)
    <3>1. Single
      BY <2>1 DEF Crash, Fault, Traceable, Orderly
    <3> QED BY <3>1 DEF Watched
  <2>2. CASE Invocation(c) \/ Acquire(c) \/ StatusBusy(c)
    <3>1. pc[c] \notin {"exec", "bind"}
      BY <2>2 DEF Invocation, Invoke, Acquire, StatusBusy
    <3> QED BY <1>0, <1>1, <1>2, <3>1 DEF ProcInv, Watched, Running
  <2> QED BY <2>1, <2>2
<1>9. NoResidue'
  BY <1>1, FilesKeep
<1> QED BY <1>5, <1>6, <1>7, <1>8, <1>9 DEF Kept, ProcInv

-----------------------------------------------------------------------------
(* The environment.                                                        *)

\* What a command relies on stays true unless processes or directories appear.
LEMMA GuidedElsewhere ==
  ASSUME RunInv, UNCHANGED <<db, pc, job, keys>>,
         \A i : Quiet(i) => Quiet(i)', \A i : Bound(i) => Bound(i)',
         \A i, g, t : Led(i, g, t) => Led(i, g, t)',
         \A i \in Id : Quiet(i) /\ ~cache[i].dir => ~cache'[i].dir
  PROVE  Guided'
<1> SUFFICES ASSUME NEW c \in Cli, pc[c] \in Critical
             PROVE  Guiding(pc[c], job[c])'
  BY DEF Guided
<1>1. Guiding(pc[c], job[c]) /\ (pc[c] \in Working => cur(c) \in Id)
  BY Inside
<1>2. {"xlog", "xkey", "xdone"} \subseteq Working
  BY DEF Working, Label, Critical, Destroying
<1>3. PICK i : i = job[c].cur
  OBVIOUS
<1>4. job'[c].cur = i
  BY <1>3
<1> QED BY <1>1, <1>2, <1>3, <1>4 DEF Guiding, cur

\* Processes end, and nobody waits for them.
LEMMA EndKeeps ==
  ASSUME RunInv, UNCHANGED <<db, clock, keys, cache, pc, job>>,
         \A q \in Pid : \/ os'[q] = os[q]
                        \/ /\ os'[q].st \notin {"forked", "live"}
                           /\ ~os'[q].shows,
         \/ UNCHANGED lock
         \/ \A q \in Pid : ~(Running(q)')
  PROVE  Kept
<1>0. ProcInv
  BY DEF RunInv
<1>1. /\ Leads' /\ Kin' /\ Traced' /\ Dated'
      /\ \A i : Quiet(i) => Quiet(i)'
      /\ \A i : Bound(i) => Bound(i)'
      /\ \A i, g, t : Led(i, g, t) => Led(i, g, t)'
  BY FewerProcesses
<1>2. \A q \in Pid : Running(q)' => Running(q) /\ os'[q] = os[q]
  BY DEF Running
<1>3. Watched'
  BY <1>0, <1>2 DEF ProcInv, Watched
<1>4. Hatching'
  <2> SUFFICES ASSUME NEW p \in Pid, os'[p].st = "forked"
               PROVE  /\ os'[p].key # 0 /\ os'[p].pgid = p
                      /\ \A q \in Pid : Running(q)' => q = p
                      /\ \/ lock' = p
                         \/ \E c \in Cli : pc'[c] = "exec" /\ job'[c].pid = p
    BY DEF Hatching
  <2>1. os'[p] = os[p]
    OBVIOUS
  <2>2. /\ os[p].key # 0 /\ os[p].pgid = p
        /\ \A q \in Pid : Running(q) => q = p
        /\ lock = p \/ \E c \in Cli : pc[c] = "exec" /\ job[c].pid = p
    BY <1>0, <2>1 DEF ProcInv, Hatching
  <2>3. Running(p)'
    BY <2>1, <2>2 DEF Running
  <2> QED BY <1>2, <2>1, <2>2, <2>3
<1>5. Guided'
  BY <1>1, GuidedElsewhere
<1>6. NoResidue'
  BY FilesKeep
<1> QED BY <1>1, <1>3, <1>4, <1>5, <1>6 DEF Kept, ProcInv

\* exec, whether it succeeds or not.
LEMMA ExecKeeps ==
  ASSUME RunInv, Traceable, NEW p \in Pid, ChildExecs(p) \/ ChildExecFails(p)
  PROVE  Kept
<1>0. /\ TypeInv /\ ProcInv /\ os \in [Pid -> Slot] /\ os[p].st = "forked"
      /\ pc \in [Cli -> Label] /\ job \in [Cli -> Job]
      /\ UNCHANGED <<db, clock, keys, cache>>
  BY DEF RunInv, AgreeInv, TypeInv, DataOK, CtlOK, ChildExecs,
         ChildExecFails, fileVars
<1>1. \A q \in Pid : Running(q) => q = p
  BY <1>0 DEF ProcInv, Hatching
<1>2. Running(p)
  BY <1>0 DEF ProcInv, Hatching, Running
<1>3. CASE ChildExecs(p)
  <2>1. /\ UNCHANGED <<pc, job>>
        /\ \A q \in Pid : /\ os'[q].id = os[q].id /\ os'[q].key = os[q].key
                          /\ os'[q].pgid = os[q].pgid
                          /\ os'[q].tok = os[q].tok
                          /\ os'[q].shows = os[q].shows
                          /\ q # p => os'[q].st = os[q].st
        /\ os'[p].st = "live"
    BY <1>0, <1>3 DEF ChildExecs, Slot
  <2>2. \A q \in Pid : Running(q)' <=> Running(q)
    BY <1>0, <2>1 DEF Running
  <2>3. Leads' /\ Kin' /\ Traced' /\ Watched' /\ Dated'
    BY <1>0, <2>1, <2>2
       DEF ProcInv, Leads, Kin, Traced, Watched, Dated
  <2>4. \A q \in Pid : os'[q].st # "forked"
    BY <1>0, <1>1, <2>1 DEF ProcInv, Hatching, Running
  <2>5. \A i : Of(i)' = Of(i)
    BY <2>1, <2>2 DEF Of
  <2>6. Guided'
    BY <1>0, <2>1, <2>5, GuidedElsewhere DEF Quiet, Bound, Led, Of
  <2>7. NoResidue'
    BY <1>0, FilesKeep
  <2> QED BY <2>3, <2>4, <2>6, <2>7 DEF Kept, ProcInv, Hatching
<1>4. CASE ChildExecFails(p)
  <2>1. \A q \in Pid : \/ os'[q] = os[q] /\ q # p
                       \/ /\ os'[q].st \notin {"forked", "live"}
                          /\ ~os'[q].shows
    BY <1>0, <1>4 DEF ChildExecFails, FreeSlot
  <2>2. \A q \in Pid : ~(Running(q)')
    BY <1>1, <2>1 DEF Running
  <2>3. CASE UNCHANGED <<pc, job>>
    BY <1>0, <2>1, <2>2, <2>3, EndKeeps
  <2>4. CASE \E c \in Cli :
               /\ pc[c] = "exec"
               /\ Move(c, "ffail", [job[c] EXCEPT !.pid = NoPid, !.tok = 0])
    <3>1. PICK c \in Cli :
            /\ pc[c] = "exec"
            /\ Move(c, "ffail", [job[c] EXCEPT !.pid = NoPid, !.tok = 0])
      BY <2>4
    <3>2. /\ pc[c] \in Critical /\ pc[c] \in Working
          /\ "ffail" \in Label \ {"exec"}
      BY <3>1 DEF Label, Critical, Deploying, Working
    <3>3. Controlled(c)
      <4>1. cur(c) \in Id
        BY <3>2, Inside
      <4> QED BY <1>0, <3>1, <3>2, <4>1, DropMoves DEF Controlled, TypeInv
    <3>4. Leads' /\ Kin' /\ Traced' /\ Dated'
      BY <1>0, <2>1, FewerProcesses
    <3>5. Hatching' /\ Watched'
      BY <1>0, <1>1, <2>1, <2>2
         DEF ProcInv, Hatching, Watched, Running
    <3>6. NoResidue'
      BY <1>0, FilesKeep
    <3>7. pc'[c] = "ffail"
      BY <1>0, <3>1 DEF Move
    <3>8. Guiding(pc[c], job[c])'
      BY <2>2, <3>7 DEF Guiding, Stopping, Bound, Of
    <3> QED BY <3>2, <3>3, <3>4, <3>5, <3>6, <3>8, GuidedStep
            DEF Kept, ProcInv
  <2> QED BY <1>4, <2>3, <2>4 DEF ChildExecFails
<1> QED BY <1>3, <1>4

\* A worker belongs to the group of the process that forks it; others start
\* outside of it.
LEMMA StartKeeps ==
  ASSUME RunInv, Traceable, NEW p \in Pid, RuntimeForks(p) \/ OthersStart(p)
  PROVE  Kept
<1>0. /\ ProcInv /\ os \in [Pid -> Slot] /\ clock \in Nat
      /\ db \in [Id -> Row]
  BY DEF RunInv, AgreeInv, TypeInv, DataOK
<1>1. UNCHANGED <<db, keys, cache, lock, pc, job>> /\ clock' = clock + 1
  BY DEF RuntimeForks, OthersStart, ForkWorker, StrangerStarts, fileVars,
         ctlVars
<1>2. Dated'
  BY <1>0, <1>1 DEF ProcInv, Dated, Row
<1>3. NoResidue'
  BY <1>1, FilesKeep
<1>4. CASE RuntimeForks(p)
  <2>1. /\ Running(p) /\ os[p].st = "live" /\ Workers # "none"
    BY <1>4 DEF RuntimeForks, ForkWorker, Running
  <2>2. PICK q \in Pid :
          /\ Unused(q)
          /\ os' = [os EXCEPT ![q] =
                     [os[p] EXCEPT !.shows = (Workers = "same"),
                                   !.tok = clock + 1]]
    BY <1>4 DEF RuntimeForks, ForkWorker
  <2>3. /\ os'[q].st = "live" /\ os'[q].id = os[p].id
        /\ os'[q].key = os[p].key /\ os'[q].pgid = os[p].pgid
        /\ os'[q].tok = clock + 1
        /\ \A r \in Pid \ {q} : os'[r] = os[r]
    BY <1>0, <2>1, <2>2 DEF Slot
  <2>4. os[q].st = "free" /\ \A r \in Pid : Running(r) => os[r].pgid # q
    BY <2>2 DEF Unused, Alive, Running
  <2>5. \A r \in Pid : Running(r)' <=> Running(r) \/ r = q
    BY <2>1, <2>3 DEF Running
  <2>6. os[p].key # 0
    BY <2>1 DEF Running
  <2>7. Leads' /\ Kin'
    BY <1>0, <2>1, <2>3, <2>5, <2>6 DEF ProcInv, Leads, Kin
  <2>8. \A r \in Pid : os'[r].st # "forked"
    <3>1. \A r \in Pid : os[r].st # "forked"
      BY <1>0, <2>1 DEF ProcInv, Hatching
    <3> QED BY <2>3, <3>1
  <2>9. Traced'
    <3>1. ASSUME NEW r \in Pid \ {q}, Running(r)
          PROVE  os'[r] = os[r] /\ db'[os[r].id] = db[os[r].id]
      BY <1>1, <2>3
    <3>2. /\ os[p].id \in Id /\ db[os[p].id].upd < clock + 1
          /\ os[p].pgid # q
      BY <1>0, <2>1, <2>4 DEF ProcInv, Leads, Dated, Row
    <3> QED BY <1>0, <1>1, <2>1, <2>3, <2>5, <3>1, <3>2 DEF ProcInv, Traced
  <2>10. Watched'
    BY <1>0, <1>1, <2>1, <2>3, <2>5 DEF ProcInv, Watched
  <2>11. /\ \A i : Quiet(i) => Quiet(i)'
         /\ \A i : Bound(i) => Bound(i)'
         /\ \A i, g, t : Led(i, g, t) => Led(i, g, t)'
    <3>1. ASSUME NEW i, NEW r \in Of(i)'
          PROVE  \/ r \in Of(i) /\ os'[r] = os[r]
                 \/ r = q /\ p \in Of(i)
      BY <2>1, <2>3, <2>5, <3>1 DEF Of
    <3>2. \A r \in Pid : Running(r) => os[r].pgid # q
      BY <2>4
    <3> QED BY <1>1, <2>1, <2>3, <2>4, <3>1 DEF Quiet, Bound, Led, Of
  <2>12. Guided'
    BY <1>1, <2>11, GuidedElsewhere
  <2> QED BY <1>2, <1>3, <2>7, <2>8, <2>9, <2>10, <2>12
          DEF Kept, ProcInv, Hatching
<1>5. CASE OthersStart(p)
  <2>0. PICK g \in {p, NoPid} :
          /\ Unused(p)
          /\ os' = [os EXCEPT ![p] = [FreeSlot EXCEPT !.st = "live",
                                         !.pgid = g, !.tok = clock + 1]]
    BY <1>5 DEF OthersStart, StrangerStarts
  <2>1. /\ os[p].st = "free" /\ os'[p].key = 0 /\ ~os'[p].shows
        /\ os'[p].st = "live"
        /\ \A r \in Pid \ {p} : os'[r] = os[r]
    BY <1>0, <2>0 DEF Unused, Alive, FreeSlot
  <2>2. \A r \in Pid : Running(r)' <=> Running(r) /\ os'[r] = os[r]
    BY <2>1 DEF Running
  <2>3. \A r \in Pid : Running(r) => Running(r)' /\ os'[r] = os[r]
    BY <2>1 DEF Running
  <2>4. Leads'
    BY <1>0, <2>1, <2>2 DEF ProcInv, Leads
  <2>5. Kin' /\ Traced' /\ Watched'
    BY <1>0, <1>1, <2>2 DEF ProcInv, Kin, Traced, Watched
  <2>6. Hatching'
    BY <1>0, <1>1, <2>1, <2>2 DEF ProcInv, Hatching
  <2>7. \A i : \A r \in Of(i)' : r \in Of(i) /\ os'[r] = os[r]
    BY <2>2 DEF Of
  <2>8. Guided'
    BY <1>1, <2>7, GuidedElsewhere DEF Quiet, Bound, Led
  <2> QED BY <1>2, <1>3, <2>4, <2>5, <2>6, <2>8 DEF Kept, ProcInv
<1> QED BY <1>4, <1>5

\* A runtime downloads its model while its record is active.
LEMMA DownloadKeeps ==
  ASSUME RunInv, NEW p \in Pid, RuntimeDownloads(p)
  PROVE  Kept
<1>1. /\ UNCHANGED <<db, os, clock, keys, lock, pc, job>> /\ Running(p)
      /\ cache' = [cache EXCEPT ![os[p].id].dir = TRUE,
                                ![os[p].id].data = "model"]
      /\ ProcInv /\ NoResidue /\ cache \in [Id -> Cache]
  BY DEF RuntimeDownloads, RuntimeWrites, ctlVars, Running, RunInv, AgreeInv,
         TypeInv, DataOK
<1>2. /\ os[p].id \in Active /\ p \in Of(os[p].id)
      /\ \A i \in Id \ {os[p].id} : cache'[i] = cache[i]
  BY <1>1 DEF ProcInv, Traced, Leads, Gone, Active, Of
<1>3. ProcInv'
  BY <1>1 DEF ProcInv, Leads, Kin, Hatching, Traced, Watched, Dated, Running
<1>4. NoResidue'
  BY <1>1, <1>2 DEF NoResidue, Owns, Active
<1>5. \A i : Of(i)' = Of(i)
  BY <1>1 DEF Of, Running
<1>6. Guided'
  BY <1>1, <1>2, <1>5, GuidedElsewhere DEF Quiet, Bound, Led
<1> QED BY <1>3, <1>4, <1>6 DEF Kept

\* Every step of a process.
LEMMA ProcessKeeps ==
  ASSUME RunInv, Traceable, NEW p \in Pid, ProcessStep(p)
  PROVE  Kept
<1>1. CASE RuntimeExits(p) \/ RuntimeReaped(p)
  <2>1. UNCHANGED <<db, clock, keys, cache, lock, pc, job>>
    BY <1>1 DEF RuntimeExits, RuntimeReaped, ProcessExits, Reaped, fileVars,
                ctlVars
  <2>2. os \in [Pid -> Slot]
    BY DEF RunInv, AgreeInv, TypeInv, DataOK
  <2>3. \A q \in Pid : \/ os'[q] = os[q]
                       \/ /\ os'[q].st \notin {"forked", "live"}
                          /\ ~os'[q].shows
    <3>1. \/ os' = [os EXCEPT ![p] = Dead(os[p])]
          \/ os' = [os EXCEPT ![p] = FreeSlot]
      BY <1>1 DEF RuntimeExits, RuntimeReaped, ProcessExits, Reaped
    <3>2. /\ os[p] \in Slot
          /\ Dead(os[p]).st = "zombie" /\ ~Dead(os[p]).shows
      BY <2>2 DEF Dead, Slot
    <3>3. FreeSlot.st = "free" /\ ~FreeSlot.shows
      BY DEF FreeSlot
    <3> QED BY <2>2, <3>1, <3>2, <3>3
  <2> QED BY <2>1, <2>3, EndKeeps
<1> QED BY <1>1, ExecKeeps, StartKeeps, DownloadKeeps DEF ProcessStep

-----------------------------------------------------------------------------
(* Theorems.                                                               *)

\* Every step keeps the runtimes traced.
LEMMA RunStep ==
  ASSUME Traceable PROVE RunInv /\ [Next]_vars => RunInv'
<1> SUFFICES ASSUME RunInv, [Next]_vars PROVE Kept
  BY AgreeStep, ExclusionStep DEF RunInv, AgreeInv, Kept
<1>1. ASSUME UNCHANGED <<db, os, clock, keys, cache, lock, pc, job>>
      PROVE  Kept
  BY <1>1, EndKeeps
<1>2. ASSUME NEW i \in Id, ProxyRuns(i) PROVE Kept
  BY <1>1, <1>2 DEF ProxyRuns, ProxyOpensLog, ctlVars
<1>3. CASE UNCHANGED vars
  BY <1>1, <1>3 DEF vars, fileVars, ctlVars
<1>4. ASSUME NEW c \in Cli, Invocation(c) \/ CliStep(c) \/ FaultStep(c)
      PROVE  Kept
  BY <1>4, OutsideKeeps, RecoveryKeeps, DestroyKeeps, DeployKeeps, FaultKeeps
     DEF CliStep, FaultStep
<1> QED BY <1>2, <1>3, <1>4, ProcessKeeps DEF Next

\* At the start nothing runs and nothing is there but foreign data.
LEMMA InitRuns == Init => RunInv
<1> SUFFICES ASSUME Init PROVE ProcInv /\ Guided /\ NoResidue
  BY InitAgrees DEF RunInv
<1>1. PICK i \in Id :
        os = [p \in Pid |->
                IF p \in Strangers
                THEN [FreeSlot EXCEPT !.st = "live", !.id = i,
                                      !.shows = TRUE, !.pgid = p]
                ELSE FreeSlot]
  BY DEF Init, ProcessesInit
<1>2. \A p \in Pid : os[p].key = 0 /\ os[p].tok = 0 /\ os[p].st # "forked"
  BY <1>1 DEF FreeSlot
<1>3. Leads /\ Kin /\ Hatching /\ Traced /\ Watched
  BY <1>2 DEF Leads, Kin, Hatching, Traced, Watched, Running
<1>4. Dated
  <2>1. clock = 0
    BY DEF Init, ProcessesInit
  <2>2. \A k \in Id : db[k].upd = 0 /\ db[k].phase = Absent
    BY DEF Init, StoreInit, NoRow
  <2> QED BY <2>1, <2>2 DEF Dated
<1>5. Guided
  BY DEF Init, Guided, Critical, Recovering, Destroying, Stopping, Deploying
<1>6. NoResidue
  BY DEF Init, FilesInit, NoResidue, Owns, AlienCache, NoCache
<1> QED BY <1>3, <1>4, <1>5, <1>6 DEF ProcInv

\* The invariant: every process of a runtime can be traced to its record.
THEOREM RuntimesAreTraced == ASSUME Traceable PROVE Spec => []RunInv
<1>1. RunInv /\ [Next]_vars => RunInv'
  BY RunStep
<1> QED BY <1>1, InitRuns, PTL DEF Spec

\* store.go keeps a row as long as resources can exist for it: no record is
\* dropped, or marked DESTROYED, while a process of its runtime is left.
THEOREM NothingIsDropped ==
  ASSUME Traceable PROVE Spec => []NothingDroppedWhileRunning
<1>1. RunInv => NothingDroppedWhileRunning
  BY DEF RunInv, ProcInv, Leads, Traced, Gone, Active,
         NothingDroppedWhileRunning
<1> QED BY <1>1, RuntimesAreTraced, PTL

\* So two deployments never share the GPU, not even an old and a new
\* deployment of one id across deploy --replace.
THEOREM OneRuntimeAtATime == ASSUME Traceable PROVE Spec => []OneRuntime
BY NothingIsDropped, OneIsActive, RuntimesDoNotOverlap, PTL

\* The two-phase record of deploy.go -- the intent before the process, pid and
\* token after it -- always leads back to the runtime.
THEOREM RuntimesAreAccounted ==
  ASSUME Traceable PROVE Spec => []RuntimeAccounted
<1>1. RunInv => RuntimeAccounted
  <2> SUFFICES ASSUME RunInv, NEW p \in Pid, Running(p), os[p].pgid = p,
                      ~(/\ db[os[p].id].pid = p
                        /\ db[os[p].id].tok = os[p].tok)
               PROVE  \/ /\ db[os[p].id].phase = "STARTING"
                         /\ db[os[p].id].pid = NoPid
                         /\ db[os[p].id].intent
                         /\ db[os[p].id].upd < os[p].tok
                         /\ FindByCommand(os[p].id, db[os[p].id].upd)
                              \subseteq {p}
                      \/ \E c \in Cli : /\ pc[c] \in {"exec", "bind"}
                                                       \cup Stopping
                                        /\ job[c].made /\ job[c].pid = p
    BY DEF RuntimeAccounted
  <2>1. /\ ProcInv /\ os \in [Pid -> Slot] /\ db \in [Id -> Row]
        /\ os[p].id \in Id
    BY DEF RunInv, AgreeInv, TypeInv, DataOK, ProcInv, Leads
  <2>2. /\ db[os[p].id].phase = "STARTING" /\ db[os[p].id].pid = NoPid
        /\ db[os[p].id].intent /\ db[os[p].id].upd < os[p].tok
    BY <2>1 DEF ProcInv, Traced
  <2>3. CASE Single
    <3>1. ASSUME NEW q \in FindByCommand(os[p].id, db[os[p].id].upd)
          PROVE  q = p
      <4>1. /\ q \in Pid /\ os[q].st = "live" /\ os[q].shows
            /\ os[q].tok > db[os[p].id].upd /\ db[os[p].id].upd \in Nat
        BY <2>1 DEF FindByCommand, Row
      <4>2. Running(q)
        BY <2>1, <4>1 DEF ProcInv, Leads, Running, Slot
      <4> QED BY <2>1, <2>3, <4>1, <4>2 DEF ProcInv, Leads, Kin, Single
    <3> QED BY <2>2, <3>1
  <2>4. CASE ~Single
    <3>1. PICK c \in Cli : pc[c] \in {"exec", "bind"} /\ job[c].pid = p
      BY <2>1, <2>2, <2>4 DEF ProcInv, Watched
    <3>2. pc[c] \in Critical /\ pc[c] \in Making
      BY <3>1 DEF Critical, Deploying, Making
    <3>3. job[c].made
      BY <3>2, Inside DEF Facts, MadeAt
    <3> QED BY <3>1, <3>3
  <2> QED BY <2>3, <2>4
<1> QED BY <1>1, RuntimesAreTraced, PTL

\* destroyOne removes the key file and the owned cache before it marks the
\* record, and a runtime that could write them again is gone by then.
THEOREM NothingIsLeft == ASSUME Traceable PROVE Spec => []NoResidue
<1>1. RunInv => NoResidue
  BY DEF RunInv
<1> QED BY <1>1, RuntimesAreTraced, PTL

-----------------------------------------------------------------------------
(* The commands implement Deployments.                                     *)

\* What a step of iold looks like to somebody who only knows the promise.
Fulfils == [Promise!Next]_(Promise!vars)

\* Nothing the promise is about changes.
LEMMA NothingHappens ==
  ASSUME UNCHANGED <<db, os, keys, cache>> PROVE Fulfils
BY DEF Fulfils, Promise!vars, Owns, Running

\* One row changes its stage along an edge of Deployments, or keeps it.
LEMMA StageChanges ==
  ASSUME UNCHANGED <<os, keys, cache>>, NEW i \in Id,
         \A k \in Id \ {i} : db'[k] = db[k],
         NEW from, from = StageOf(db[i].phase),
         NEW to, to = StageOf(db'[i].phase),
         \/ from = to
         \/ /\ from = "absent" /\ to = "deploying"
            /\ \A k \in Id : db[k].phase \in Gone
         \/ from = "deploying" /\ to = "serving"
         \/ from \in {"deploying", "serving"} /\ to = "broken"
         \/ from \in {"serving", "broken"} /\ to = "destroying"
         \/ from = "destroying" /\ to = "destroyed" /\ Quiet(i) /\ ~Owns(i)
         \/ from = "destroyed" /\ to = "absent"
  PROVE  Fulfils
<1> DEFINE stage == [k \in Id |-> StageOf(db[k].phase)]
           running == {os[p].id : p \in {q \in Pid : Running(q)}}
           littered == {k \in Id : Owns(k)}
<1>1. stage[i] = from /\ stage' = [stage EXCEPT ![i] = to]
  <2>1. \A k \in Id : StageOf(db[k].phase)' = StageOf(db'[k].phase)
    BY DEF StageOf
  <2>2. \A k \in Id \ {i} : StageOf(db[k].phase)' = StageOf(db[k].phase)
    BY <2>1
  <2>3. StageOf(db[i].phase)' = to
    BY <2>1
  <2> QED BY <2>2, <2>3
<1>2. running' = running /\ littered' = littered
  BY DEF Running, Owns
<1>3. CASE from = to
  <2>1. stage' = stage
    BY <1>1, <1>3
  <2> QED BY <1>2, <2>1 DEF Fulfils, Promise!vars
<1>4. CASE /\ from = "absent" /\ to = "deploying"
           /\ \A k \in Id : db[k].phase \in Gone
  <2>1. \A k \in Id : stage[k] \in {"absent", "destroyed"}
    BY <1>4 DEF Gone, StageOf, Absent
  <2>2. Promise!Deploy(i)
    BY <1>1, <1>2, <1>4, <2>1
       DEF Promise!Deploy, Promise!Becomes, Promise!Inactive
  <2> QED BY <2>2 DEF Fulfils, Promise!Next
<1>5. CASE from = "deploying" /\ to = "serving"
  <2>1. Promise!Serve(i)
    BY <1>1, <1>2, <1>5 DEF Promise!Serve, Promise!Becomes
  <2> QED BY <2>1 DEF Fulfils, Promise!Next
<1>6. CASE from \in {"deploying", "serving"} /\ to = "broken"
  <2>1. Promise!Break(i)
    BY <1>1, <1>2, <1>6 DEF Promise!Break, Promise!Becomes
  <2> QED BY <2>1 DEF Fulfils, Promise!Next
<1>7. CASE from \in {"serving", "broken"} /\ to = "destroying"
  <2>1. Promise!Destroy(i)
    BY <1>1, <1>2, <1>7 DEF Promise!Destroy, Promise!Becomes
  <2> QED BY <2>1 DEF Fulfils, Promise!Next
<1>8. CASE from = "destroying" /\ to = "destroyed" /\ Quiet(i) /\ ~Owns(i)
  <2>1. i \notin running \cup littered
    BY <1>8 DEF Quiet, Of
  <2>2. Promise!Retire(i)
    BY <1>1, <1>2, <1>8, <2>1 DEF Promise!Retire, Promise!Becomes
  <2> QED BY <2>2 DEF Fulfils, Promise!Next
<1>9. CASE from = "destroyed" /\ to = "absent"
  <2>1. Promise!Forget(i)
    BY <1>1, <1>2, <1>9 DEF Promise!Forget, Promise!Becomes
  <2> QED BY <2>1 DEF Fulfils, Promise!Next
<1> QED BY <1>3, <1>4, <1>5, <1>6, <1>7, <1>8, <1>9

\* Some runtimes end, or none: there is one at most.
LEMMA RuntimesEnd ==
  ASSUME RunInv, UNCHANGED <<db, keys, cache>>,
         \A p \in Pid : Running(p)' => Running(p) /\ os'[p].id = os[p].id
  PROVE  Fulfils
<1> DEFINE running == {os[p].id : p \in {q \in Pid : Running(q)}}
<1>1. UNCHANGED <<[k \in Id |-> StageOf(db[k].phase)],
                  {k \in Id : Owns(k)}>>
  BY DEF Owns
<1>2. running' \subseteq running
  OBVIOUS
<1>3. \A i, k \in running : i = k /\ i \in Id
  BY DEF RunInv, AgreeInv, ProcInv, Leads, Traced, OneActive, Active, Gone
<1>4. CASE running' = running
  BY <1>1, <1>4 DEF Fulfils, Promise!vars
<1>5. CASE running' # running
  <2>1. PICK i \in running : i \notin running'
    BY <1>2, <1>5
  <2>2. running' = running \ {i} /\ i \in Id
    BY <1>2, <1>3, <2>1
  <2>3. Promise!EndRuntime(i)
    BY <1>1, <2>2 DEF Promise!EndRuntime
  <2> QED BY <2>2, <2>3 DEF Fulfils, Promise!Next
<1> QED BY <1>4, <1>5

\* The files of one deployment appear while it is active, or disappear while it
\* is being destroyed and has no runtime.
LEMMA FilesChange ==
  ASSUME UNCHANGED <<db, os>>, NEW i \in Id,
         \A k \in Id \ {i} : Owns(k)' <=> Owns(k),
         Owns(i)' => Owns(i) \/ db[i].phase \notin Gone,
         Owns(i) => Owns(i)' \/ (db[i].phase = "DESTROYING" /\ Quiet(i))
  PROVE  Fulfils
<1> DEFINE stage == [k \in Id |-> StageOf(db[k].phase)]
           running == {os[p].id : p \in {q \in Pid : Running(q)}}
           littered == {k \in Id : Owns(k)}
<1>1. stage' = stage /\ running' = running
  BY DEF Running
<1>2. CASE Owns(i)' <=> Owns(i)
  <2>1. littered' = littered
    BY <1>2
  <2> QED BY <1>1, <2>1 DEF Fulfils, Promise!vars
<1>3. CASE Owns(i)' /\ ~Owns(i)
  <2>1. littered' = littered \cup {i}
    BY <1>3
  <2>2. stage[i] \notin {"absent", "destroyed"}
    BY <1>3 DEF StageOf, Gone, Absent
  <2>3. Promise!Litter(i)
    BY <1>1, <2>1, <2>2 DEF Promise!Litter, Promise!Inactive
  <2> QED BY <2>3 DEF Fulfils, Promise!Next
<1>4. CASE Owns(i) /\ ~Owns(i)'
  <2>1. littered' = littered \ {i}
    BY <1>4
  <2>2. stage[i] = "destroying" /\ i \notin running
    BY <1>4 DEF StageOf, Absent, Quiet, Of
  <2>3. Promise!Clean(i)
    BY <1>1, <2>1, <2>2 DEF Promise!Clean
  <2> QED BY <2>3 DEF Fulfils, Promise!Next
<1> QED BY <1>2, <1>3, <1>4

\* Every compare-and-set is an edge of Deployments, or stays in a stage.
LEMMA AttemptFulfils ==
  ASSUME RunInv, NEW c \in Cli, pc[c] \in Critical \cap Working,
         pc[c] \in DOMAIN Attempt,
         Transition(cur(c), Attempt[pc[c]], clock),
         UNCHANGED <<os, keys, cache>>
  PROVE  Fulfils
<1>0. /\ cur(c) \in Id /\ db \in [Id -> Row] /\ job[c] \in Job
      /\ Facts(pc[c], job[c], db) /\ Guiding(pc[c], job[c])
  BY Inside
<1>1. /\ \A k \in Id \ {cur(c)} : db'[k] = db[k]
      /\ db'[cur(c)].phase = Attempt[pc[c]]
  BY <1>0 DEF Transition, Row
<1>2. /\ Expecting(pc[c], job[c].made, db[cur(c)].phase)
      /\ db[cur(c)].phase \in Phase \cup {Absent}
  BY <1>0 DEF Facts, Current, cur, Row
<1> DEFINE from == StageOf(db[cur(c)].phase)
           to == StageOf(db'[cur(c)].phase)
<1>3. CASE pc[c] \in {"rcrash", "xfail", "ffail"}
  <2>1. db[cur(c)].phase \in {"REQUESTED", "VALIDATING", "DOWNLOADING",
          "STARTING", "HEALTHY", "REGISTERING", "READY",
          "UNREGISTERED_HEALTHY"}
    BY <1>2, <1>3 DEF Expecting, Underway, Phase, Settled, Absent
  <2>2. from \in {"deploying", "serving"}
    BY <2>1 DEF StageOf, Absent
  <2>3. to = "broken"
    BY <1>1, <1>3 DEF StageOf, Absent, Attempt
  <2> QED BY <1>0, <1>1, <2>2, <2>3, StageChanges
<1>4. CASE pc[c] \in {"validate", "download", "starting", "healthy",
                      "register"}
  <2>1. from = "deploying"
    BY <1>2, <1>4 DEF Expecting, StageOf, Absent
  <2>2. to = "deploying"
    BY <1>1, <1>4 DEF StageOf, Absent, Attempt
  <2> QED BY <1>0, <1>1, <2>1, <2>2, StageChanges
<1>5. CASE pc[c] = "unreg"
  <2>1. from = "deploying" /\ to = "serving"
    BY <1>1, <1>2, <1>5 DEF Expecting, StageOf, Absent, Attempt
  <2> QED BY <1>0, <1>1, <2>1, StageChanges
<1>6. CASE pc[c] = "xbegin"
  <2>1. from \in {"serving", "broken"}
    BY <1>2, <1>6 DEF Expecting, StageOf, Absent
  <2>2. to = "destroying"
    BY <1>1, <1>6 DEF StageOf, Absent, Attempt
  <2> QED BY <1>0, <1>1, <2>1, <2>2, StageChanges
<1>7. CASE pc[c] = "xdone"
  <2>1. from = "destroying"
    BY <1>2, <1>7 DEF Expecting, StageOf, Absent
  <2>2. to = "destroyed"
    BY <1>1, <1>7 DEF StageOf, Absent, Attempt
  <2>3. Quiet(cur(c)) /\ ~Owns(cur(c))
    BY <1>0, <1>7 DEF Guiding, Owns, cur
  <2> QED BY <1>0, <1>1, <2>1, <2>2, <2>3, StageChanges
<1> QED BY <1>3, <1>4, <1>5, <1>6, <1>7 DEF Attempt

\* Advance is such a compare-and-set: it is never refused.
LEMMA AdvanceFulfils ==
  ASSUME RunInv, NEW c \in Cli, pc[c] \in Critical \cap Working,
         pc[c] \in DOMAIN Attempt, NEW next,
         Advance(c, Attempt[pc[c]], next)
  PROVE  Fulfils
BY AttemptFulfils, FactsAccepted
   DEF Advance, StoreNeverRefuses, RunInv, otherStore, fileVars

\* Recovery: it adopts a runtime, or breaks what was interrupted.
LEMMA RecoveryFulfils ==
  ASSUME RunInv, NEW c \in Cli, RecoveryStep(c) PROVE Fulfils
<1>0. /\ pc[c] \in Critical /\ db \in [Id -> Row]
      /\ pc[c] \in Working => cur(c) \in Id
  BY RecoveryStepOK, Inside DEF StepOK, RunInv, AgreeInv
<1>1. CASE RecoverAdopt(c)
  <2>1. /\ pc[c] \in Working /\ UNCHANGED <<os, keys, cache>>
        /\ SetRuntime(cur(c), job[c].pid, job[c].tok, clock)
    BY <1>1, FactsAccepted
       DEF RecoverAdopt, StoreNeverRefuses, RunInv, otherStore, fileVars,
           Working, Label, Critical, Recovering
  <2>2. /\ \A k \in Id \ {cur(c)} : db'[k] = db[k]
        /\ db'[cur(c)].phase = db[cur(c)].phase
    BY <1>0, <2>1 DEF SetRuntime, Row
  <2> QED BY <1>0, <2>1, <2>2, StageChanges
<1>2. CASE RecoverCrash(c)
  <2>1. /\ pc[c] \in Critical \cap Working /\ pc[c] \in DOMAIN Attempt
        /\ Advance(c, Attempt[pc[c]], "rpick")
    BY <1>0, <1>2 DEF RecoverCrash, Attempt, Working, Label
  <2> QED BY <2>1, AdvanceFulfils
<1>3. CASE ~RecoverAdopt(c) /\ ~RecoverCrash(c)
  <2>1. UNCHANGED onlyCtl
    BY <1>3 DEF RecoveryStep, RecoverList, RecoverNext, RecoverDone,
      RecoverScan, RecoverProbe, StatusReports, DestroyTargets, DeployTargets
  <2> QED BY <2>1, NothingHappens DEF onlyCtl, otherStore, fileVars
<1> QED BY <1>1, <1>2, <1>3

\* A deployment is destroyed: its record last, its files before that, and
\* before them its runtime.
LEMMA DestroyFulfils ==
  ASSUME RunInv, NEW c \in Cli, DestroyStep(c) PROVE Fulfils
<1> USE DEF Critical, Destroying, Stopping
<1>0. /\ pc[c] \in Critical /\ db \in [Id -> Row] /\ os \in [Pid -> Slot]
      /\ pc[c] \in Working => cur(c) \in Id
      /\ cache \in [Id -> Cache]
      /\ Facts(pc[c], job[c], db) /\ Guiding(pc[c], job[c])
  BY DestroyStepOK, Inside DEF StepOK, RunInv, AgreeInv
<1>w. {"xfail", "xbegin", "xkey", "xrm", "xdone", "xpurge"} \subseteq Working
  BY DEF Working, Label
<1>1. CASE RouteThroughFailed(c) \/ BeginDestroy(c) \/ FinishDestroy(c)
  <2>1. /\ pc[c] \in Critical \cap Working /\ pc[c] \in DOMAIN Attempt
        /\ \E next : Advance(c, Attempt[pc[c]], next)
    BY <1>0, <1>1, <1>w
       DEF RouteThroughFailed, BeginDestroy, FinishDestroy, Attempt
  <2> QED BY <2>1, AdvanceFulfils
<1>2. CASE RemoveKey(c)
  <2>1. /\ UNCHANGED <<db, os, cache>> /\ keys' = keys \ {cur(c)}
        /\ cur(c) \in Id /\ db[cur(c)].phase = "DESTROYING"
        /\ Quiet(cur(c))
    BY <1>0, <1>2, <1>w
       DEF RemoveKey, Facts, Current, Expecting, Guiding, cur
  <2> QED BY <2>1, FilesChange DEF Owns
<1>3. CASE RemoveCacheEntry(c) \/ RemoveCacheDir(c)
  <2>1. /\ UNCHANGED <<db, os, keys>>
        /\ \A k \in Id \ {cur(c)} : cache'[k] = cache[k]
        /\ cur(c) \in Id /\ db[cur(c)].phase = "DESTROYING"
        /\ Quiet(cur(c)) /\ cur(c) \notin keys
    BY <1>0, <1>3, <1>w
       DEF RemoveCacheEntry, RemoveCacheDir, Facts, Current, Expecting,
           Guiding, cur
  <2>2. PICK i \in Id : i = cur(c)
    BY <2>1
  <2>3. db[i].phase \notin Gone
    BY <2>1, <2>2 DEF Gone, Absent
  <2>4. \A k \in Id \ {i} : Owns(k)' <=> Owns(k)
    BY <2>1, <2>2 DEF Owns
  <2> QED BY <2>1, <2>2, <2>3, <2>4, FilesChange
<1>4. CASE Purge(c)
  <2>1. /\ UNCHANGED <<os, keys, cache>> /\ Delete(cur(c)) /\ cur(c) \in Id
        /\ db[cur(c)].phase = "DESTROYED"
    BY <1>0, <1>4, <1>w, FactsAccepted
       DEF Purge, StoreNeverRefuses, DeleteOK, RunInv, otherStore, fileVars
  <2>2. /\ \A k \in Id \ {cur(c)} : db'[k] = db[k]
        /\ db'[cur(c)].phase = Absent
    BY <1>0, <2>1 DEF Delete, NoRow
  <2> QED BY <2>1, <2>2, StageChanges DEF StageOf, Absent
<1>5. CASE StopGraceOver(c)
  <2>1. UNCHANGED <<db, keys, cache>>
    BY <1>5 DEF StopGraceOver, fileVars
  <2>2. ASSUME KillGroup(job[c].pid), NEW p \in Pid
        PROVE  os'[p] = os[p] \/ os'[p].st = "zombie"
    BY <1>0, <2>2 DEF KillGroup, Dead, Slot
  <2>3. \A p \in Pid : os'[p] = os[p] \/ os'[p].st = "zombie"
    BY <1>5, <2>2 DEF StopGraceOver
  <2>4. \A p \in Pid : Running(p)' => Running(p) /\ os'[p].id = os[p].id
    BY <2>3 DEF Running
  <2> QED BY <2>1, <2>4, RuntimesEnd
<1>6. CASE /\ ~RouteThroughFailed(c) /\ ~BeginDestroy(c) /\ ~FinishDestroy(c)
           /\ ~RemoveKey(c) /\ ~RemoveCacheEntry(c) /\ ~RemoveCacheDir(c)
           /\ ~Purge(c) /\ ~StopGraceOver(c)
  <2>1. UNCHANGED <<db, os, keys, cache>>
    BY <1>6 DEF DestroyStep, DestroyNext, DestroyDone, DestroyProbe,
      CheckCache, RemoveLog, StopVerifies, StopTerminates, StopGivesUp,
      onlyCtl, otherStore, fileVars
  <2> QED BY <2>1, NothingHappens
<1> QED BY <1>1, <1>2, <1>3, <1>4, <1>5, <1>6

\* A deployment is made: a record first, when there is no other, then files,
\* then a runtime.
LEMMA DeployFulfils ==
  ASSUME RunInv, NEW c \in Cli, DeployStep(c) PROVE Fulfils
<1> USE DEF Critical, Deploying
<1>0. /\ pc[c] \in Critical /\ db \in [Id -> Row] /\ os \in [Pid -> Slot]
      /\ pc[c] \in Working => cur(c) \in Id
      /\ cache \in [Id -> Cache]
      /\ Facts(pc[c], job[c], db) /\ Guiding(pc[c], job[c])
  BY DeployStepOK, Inside DEF StepOK, RunInv, AgreeInv
<1>w. Deploying \ {"resolve"} \subseteq Working
  BY DEF Working, Label
<1>a. RunInv => AgreeInv
  BY DEF RunInv
<1>1. CASE \/ StartValidating(c) \/ StartDownloading(c) \/ StartStarting(c)
           \/ RecordHealthy(c) \/ StartRegistering(c)
  <2>1. /\ pc[c] \in Critical \cap Working /\ pc[c] \in DOMAIN Attempt
        /\ \E next : Advance(c, Attempt[pc[c]], next)
    BY <1>0, <1>1, <1>w
       DEF StartValidating, StartDownloading, StartStarting, RecordHealthy,
           StartRegistering, Attempt
  <2> QED BY <2>1, AdvanceFulfils
<1>2. CASE FinishDeploy(c) \/ RecordFailure(c)
  <2>1. /\ pc[c] \in Critical \cap Working /\ pc[c] \in DOMAIN Attempt
        /\ Transition(cur(c), Attempt[pc[c]], clock)
        /\ UNCHANGED <<os, keys, cache>>
    BY <1>0, <1>2, <1>a, <1>w, FactsAccepted
       DEF FinishDeploy, RecordFailure, StoreNeverRefuses, Attempt,
           otherStore, fileVars
  <2> QED BY <2>1, AttemptFulfils
<1>3. CASE RecordIntent(c) \/ BindRuntime(c)
  <2>1. /\ UNCHANGED <<os, keys, cache>> /\ cur(c) \in Id
        /\ \/ SetRuntimeIntent(cur(c), clock)
           \/ SetRuntime(cur(c), job[c].pid, job[c].tok, clock)
    BY <1>0, <1>3, <1>a, <1>w, FactsAccepted
       DEF RecordIntent, BindRuntime, StoreNeverRefuses, otherStore, fileVars
  <2>2. /\ \A k \in Id \ {cur(c)} : db'[k] = db[k]
        /\ db'[cur(c)].phase = db[cur(c)].phase
    BY <1>0, <2>1 DEF SetRuntime, SetRuntimeIntent, Row
  <2> QED BY <2>1, <2>2, StageChanges
<1>4. CASE ClearTombstone(c)
  <2>1. /\ UNCHANGED <<os, keys, cache>> /\ cur(c) \in Id
        /\ \/ UNCHANGED db
           \/ Delete(cur(c)) /\ db[cur(c)].phase = "DESTROYED"
    BY <1>0, <1>4, <1>w DEF ClearTombstone, DeleteOK, otherStore, fileVars
  <2>2. CASE UNCHANGED db
    BY <2>1, <2>2, NothingHappens
  <2>3. CASE Delete(cur(c)) /\ db[cur(c)].phase = "DESTROYED"
    <3>1. /\ \A k \in Id \ {cur(c)} : db'[k] = db[k]
          /\ db'[cur(c)].phase = Absent
      BY <1>0, <2>1, <2>3 DEF Delete, NoRow
    <3> QED BY <2>1, <2>3, <3>1, StageChanges DEF StageOf, Absent
  <2> QED BY <2>1, <2>2, <2>3
<1>5. CASE CreateDeployment(c)
  <2>1. /\ UNCHANGED <<os, keys, cache>> /\ cur(c) \in Id
        /\ db[cur(c)].phase = Absent
        /\ Create(cur(c), deploys + 1, clock)
        /\ \A k \in Id : db[k].phase \in Gone
    BY <1>0, <1>5, <1>a, <1>w, FactsAccepted
       DEF CreateDeployment, StoreNeverRefuses, CreateOK, fileVars, Facts,
           Clears
  <2>2. /\ \A k \in Id \ {cur(c)} : db'[k] = db[k]
        /\ db'[cur(c)].phase = "REQUESTED"
    BY <1>0, <2>1 DEF Create, NewRow, NoRow
  <2>3. StageOf(Absent) = "absent" /\ StageOf("REQUESTED") = "deploying"
    BY DEF StageOf, Absent
  <2> QED BY <2>1, <2>2, <2>3, StageChanges
<1>6. CASE writeAPIKey(c)
  <2>1. /\ UNCHANGED <<db, os, cache>> /\ keys' = keys \cup {cur(c)}
        /\ cur(c) \in Id /\ db[cur(c)].phase = "VALIDATING"
    BY <1>0, <1>6, <1>w DEF writeAPIKey, Facts, Current, Expecting, cur
  <2> QED BY <2>1, FilesChange DEF Owns, Gone, Absent
<1>7. CASE MakeCacheDir(c) \/ ClaimCache(c) \/ WriteMarker(c)
  <2>1. /\ UNCHANGED <<db, os, keys>>
        /\ \A k \in Id \ {cur(c)} : cache'[k] = cache[k]
        /\ cur(c) \in Id /\ db[cur(c)].phase = "VALIDATING"
    BY <1>0, <1>7, <1>w
       DEF MakeCacheDir, ClaimCache, WriteMarker, Facts, Current, Expecting,
           cur
  <2>2. PICK i \in Id : i = cur(c)
    BY <2>1
  <2>3. Owns(i) => Owns(i)'
    BY <1>0, <1>7, <2>1, <2>2
       DEF MakeCacheDir, ClaimCache, WriteMarker, Owns, Cache
  <2>4. \A k \in Id \ {i} : Owns(k)' <=> Owns(k)
    BY <2>1, <2>2 DEF Owns
  <2> QED BY <2>1, <2>2, <2>3, <2>4, FilesChange DEF Gone, Absent
<1>8. CASE Launch(c)
  <2>0. PICK i : i = cur(c)
    OBVIOUS
  <2> DEFINE stage == [k \in Id |-> StageOf(db[k].phase)]
             running == {os[p].id : p \in {q \in Pid : Running(q)}}
             littered == {k \in Id : Owns(k)}
  <2>1. PICK p \in Pid : Unused(p) /\ Fork(p, i, Mem(c).key)
    BY <1>8, <2>0 DEF Launch
  <2>2. /\ pc[c] = "launch" /\ UNCHANGED <<db, keys, cache>> /\ i \in Id
        /\ db[i].phase = "STARTING" /\ Mem(c).key = db[i].key
    BY <1>0, <1>8, <1>w, <2>0
       DEF Launch, Facts, Current, Expecting, Mem, cur
  <2>3. Mem(c).key # 0
    BY <2>2 DEF RunInv, ProcInv, Dated, Absent
  <2>4. /\ Running(p)' /\ os'[p].id = i /\ ~Running(p)
        /\ \A q \in Pid \ {p} : os'[q] = os[q]
    BY <1>0, <2>1, <2>3 DEF Fork, Running, Unused, Alive
  <2>5. running' = running \cup {i}
    <3>1. \A q \in Pid \ {p} : Running(q)' <=> Running(q)
      BY <2>4 DEF Running
    <3> QED BY <2>4, <3>1
  <2>6. stage' = stage /\ littered' = littered /\ stage[i] = "deploying"
    BY <2>2 DEF Owns, StageOf, Absent
  <2>7. Promise!StartRuntime(i)
    BY <2>5, <2>6 DEF Promise!StartRuntime
  <2> QED BY <2>2, <2>7 DEF Fulfils, Promise!Next
<1>9. CASE /\ ~StartValidating(c) /\ ~StartDownloading(c)
           /\ ~StartStarting(c) /\ ~RecordHealthy(c) /\ ~StartRegistering(c)
           /\ ~FinishDeploy(c) /\ ~RecordFailure(c) /\ ~RecordIntent(c)
           /\ ~BindRuntime(c) /\ ~ClearTombstone(c) /\ ~CreateDeployment(c)
           /\ ~writeAPIKey(c) /\ ~MakeCacheDir(c) /\ ~ClaimCache(c)
           /\ ~WriteMarker(c) /\ ~Launch(c)
  <2>1. UNCHANGED <<db, os, keys, cache>>
    BY <1>9 DEF DeployStep, ResolveFails, Resolved, LaunchFails,
      IdentityCaptured, BecomesHealthy, BecomesReady, ChecksFail, onlyCtl,
      otherStore, fileVars
  <2> QED BY <2>1, NothingHappens
<1> QED BY <1>1, <1>2, <1>3, <1>4, <1>5, <1>6, <1>7, <1>8, <1>9

\* The environment ends runtimes and lets them download.
LEMMA ProcessFulfils ==
  ASSUME RunInv, NEW p \in Pid, ProcessStep(p) PROVE Fulfils
<1>0. os \in [Pid -> Slot] /\ cache \in [Id -> Cache] /\ ProcInv
  BY DEF RunInv, AgreeInv, TypeInv, DataOK
<1>1. CASE ChildExecs(p) \/ ChildExecFails(p)
  <2>1. UNCHANGED <<db, keys, cache>>
    BY <1>1 DEF ChildExecs, ChildExecFails, fileVars
  <2>2. CASE ChildExecs(p)
    BY <1>0, <2>1, <2>2, RuntimesEnd DEF ChildExecs, Running
  <2>3. CASE ChildExecFails(p)
    <3>1. \A q \in Pid : Running(q)' => Running(q) /\ os'[q] = os[q]
      BY <1>0, <2>3 DEF ChildExecFails, FreeSlot, Running
    <3> QED BY <2>1, <3>1, RuntimesEnd
  <2> QED BY <1>1, <2>2, <2>3
<1>2. CASE RuntimeExits(p) \/ RuntimeReaped(p)
  <2>1. UNCHANGED <<db, keys, cache>>
    BY <1>2 DEF RuntimeExits, RuntimeReaped, fileVars
  <2>2. os[p] \in Slot /\ Dead(os[p]).st = "zombie" /\ FreeSlot.st = "free"
    BY <1>0 DEF Dead, FreeSlot, Slot
  <2>3. \A q \in Pid : os'[q] = os[q] \/ os'[q].st \in {"zombie", "free"}
    BY <1>0, <1>2, <2>2 DEF RuntimeExits, RuntimeReaped, ProcessExits, Reaped
  <2>4. \A q \in Pid : Running(q)' => Running(q) /\ os'[q].id = os[q].id
    BY <2>3 DEF Running
  <2> QED BY <2>1, <2>4, RuntimesEnd
<1>3. CASE RuntimeForks(p)
  <2> DEFINE running == {os[q].id : q \in {r \in Pid : Running(r)}}
  <2>1. /\ UNCHANGED <<db, keys, cache>> /\ Running(p)
    BY <1>3 DEF RuntimeForks, ForkWorker, fileVars, Running
  <2>2. PICK q \in Pid :
          /\ Unused(q)
          /\ os' = [os EXCEPT ![q] =
                     [os[p] EXCEPT !.shows = (Workers = "same"),
                                   !.tok = clock + 1]]
    BY <1>3 DEF RuntimeForks, ForkWorker
  <2>3. /\ os'[q].st = os[p].st /\ os'[q].id = os[p].id
        /\ os'[q].key = os[p].key /\ q # p /\ ~Running(q)
        /\ \A r \in Pid \ {q} : os'[r] = os[r]
    BY <1>0, <2>1, <2>2 DEF Slot, Unused, Alive, Running
  <2>4. /\ \A r \in Pid \ {q} : Running(r)' <=> Running(r)
        /\ Running(q)'
    BY <2>1, <2>3 DEF Running
  <2>5. running' = running
    BY <2>1, <2>3, <2>4
  <2> QED BY <2>1, <2>5 DEF Fulfils, Promise!vars, Owns
<1>4. CASE OthersStart(p)
  <2>1. PICK g \in {p, NoPid} :
          os' = [os EXCEPT ![p] = [FreeSlot EXCEPT !.st = "live",
                                     !.pgid = g, !.tok = clock + 1]]
    BY <1>4 DEF OthersStart, StrangerStarts
  <2>2. \A q \in Pid : Running(q)' => Running(q) /\ os'[q].id = os[q].id
    BY <1>0, <2>1 DEF FreeSlot, Running
  <2> QED BY <1>4, <2>2, RuntimesEnd DEF OthersStart, fileVars
<1>5. CASE RuntimeDownloads(p)
  <2>1. /\ UNCHANGED <<db, os, keys>> /\ Running(p)
        /\ cache' = [cache EXCEPT ![os[p].id].dir = TRUE,
                                  ![os[p].id].data = "model"]
    BY <1>5 DEF RuntimeDownloads, RuntimeWrites, Running
  <2>2. os[p].id \in Id /\ db[os[p].id].phase \notin Gone
    BY <1>0, <2>1 DEF ProcInv, Leads, Traced
  <2>3. /\ \A k \in Id \ {os[p].id} : cache'[k] = cache[k]
        /\ Owns(os[p].id)'
    BY <1>0, <2>1, <2>2 DEF Owns, Cache
  <2> QED BY <2>1, <2>2, <2>3, FilesChange DEF Owns
<1> QED BY <1>1, <1>2, <1>3, <1>4, <1>5 DEF ProcessStep

\* Faults and everything outside of the operations.
LEMMA FaultFulfils ==
  ASSUME RunInv, NEW c \in Cli, FaultStep(c) PROVE Fulfils
<1>0. os \in [Pid -> Slot]
  BY DEF RunInv, AgreeInv, TypeInv, DataOK
<1>1. CASE CaptureFails(c) \/ ReapedWhileProbed(c)
  <2>1. UNCHANGED <<db, keys, cache>>
    BY <1>1 DEF CaptureFails, ReapedWhileProbed, fileVars
  <2>2. ASSUME NEW q \in Pid
        PROVE  os'[q] = os[q] \/ os'[q].st \in {"zombie", "free"}
    <3>1. os[q] \in Slot /\ Dead(os[q]).st = "zombie" /\ FreeSlot.st = "free"
      BY <1>0 DEF Dead, FreeSlot, Slot
    <3>2. CASE CaptureFails(c)
      BY <3>1, <3>2 DEF CaptureFails, KillGroupAndWait
    <3>3. CASE ReapedWhileProbed(c)
      BY <1>0, <3>1, <3>3 DEF ReapedWhileProbed, Reaped
    <3> QED BY <1>1, <3>2, <3>3
  <2>3. \A q \in Pid : Running(q)' => Running(q) /\ os'[q].id = os[q].id
    BY <2>2 DEF Running
  <2> QED BY <2>1, <2>3, RuntimesEnd
<1>2. CASE ~CaptureFails(c) /\ ~ReapedWhileProbed(c)
  <2>1. UNCHANGED <<db, os, keys, cache>>
    BY <1>2 DEF FaultStep, Crash, StoreFails, DiskFails, StopFails,
                ProbeFails, fileVars
  <2> QED BY <2>1, NothingHappens
<1> QED BY <1>1, <1>2

\* Every step is one of Deployments, or none.
LEMMA PromiseStep == RunInv /\ [Next]_vars => [Promise!Next]_(Promise!vars)
<1> SUFFICES ASSUME RunInv, [Next]_vars PROVE Fulfils
  BY DEF Fulfils
<1>1. ASSUME NEW c \in Cli, Invocation(c) \/ Acquire(c) \/ StatusBusy(c)
      PROVE  Fulfils
  <2>1. UNCHANGED onlyCtl
    BY <1>1 DEF Invocation, Invoke, Acquire, StatusBusy
  <2> QED BY <2>1, NothingHappens DEF onlyCtl, otherStore, fileVars
<1>2. ASSUME NEW i \in Id, ProxyRuns(i) PROVE Fulfils
  BY <1>2, NothingHappens DEF ProxyRuns, ProxyOpensLog
<1>3. CASE UNCHANGED vars
  BY <1>3, NothingHappens DEF vars, fileVars
<1> QED BY <1>1, <1>2, <1>3, RecoveryFulfils, DestroyFulfils, DeployFulfils,
           FaultFulfils, ProcessFulfils DEF Next, CliStep

\* At the start nothing is deployed, nothing runs, nothing is littered.
LEMMA PromiseInit == Init => Promise!Init
<1> SUFFICES ASSUME Init PROVE Promise!Init
  OBVIOUS
<1>1. \A i \in Id : StageOf(db[i].phase) = "absent"
  BY DEF Init, StoreInit, NoRow, StageOf, Absent
<1>2. \A p \in Pid : ~Running(p)
  <2>1. PICK i \in Id :
          os = [p \in Pid |->
                  IF p \in Strangers
                  THEN [FreeSlot EXCEPT !.st = "live", !.id = i,
                                        !.shows = TRUE, !.pgid = p]
                  ELSE FreeSlot]
    BY DEF Init, ProcessesInit
  <2>2. \A p \in Pid : os[p].key = 0
    BY <2>1 DEF FreeSlot
  <2> QED BY <2>2 DEF Running
<1>3. \A i \in Id : ~Owns(i)
  BY DEF Init, FilesInit, Owns, AlienCache, NoCache
<1> QED BY <1>1, <1>2, <1>3 DEF Promise!Init

\* Whatever is killed, fails or races, the commands do what Deployments
\* promises: one deployment at a time, a runtime only while its deployment is
\* set up, files removed only once the runtime is gone, and the record last.
THEOREM PromiseKept == ASSUME Traceable PROVE Spec => ImplementsDeployments
BY PromiseStep, PromiseInit, RuntimesAreTraced, PTL
   DEF Spec, ImplementsDeployments, Promise!Spec

=============================================================================
