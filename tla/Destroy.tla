------------------------------- MODULE Destroy -------------------------------
(***************************************************************************)
(* iold destroy: destroyOne for each target, and supervisor.Stop, which a  *)
(* failing deploy calls too (internal/cli/cli.go, internal/supervisor).    *)
(***************************************************************************)
EXTENDS Command

DestroyTargets(c) ==
  /\ pc[c] = "work" /\ job[c].op = "destroy"
  /\ LET named == job[c].target
         targets == IF named = NoId THEN {i \in Id : db[i].phase # Absent}
                                    ELSE {named}
     IN IF named # NoId /\ db[named].phase = Absent THEN Return(c)
        ELSE Move(c, "xpick",
                  [job[c] EXCEPT !.list = db, !.todo = targets])
  /\ UNCHANGED onlyCtl

-----------------------------------------------------------------------------
(* destroyOne, for each target of destroy or of deploy --replace.          *)

\* Mutants: an interrupted destroy is not resumed, or resumed after the stop.
DestroyUnresumed(c, phase) ==
  IF phase \in {"DESTROYED", "DESTROYING"} THEN "xpick" ELSE "xbegin"
DestroyStopped(c, phase) ==
  IF phase = "DESTROYED" THEN "xpick"
  ELSE IF phase = "DESTROYING" THEN "xcache" ELSE "xbegin"
DestroyRoute(c, phase) ==
  CASE phase = "DESTROYED" -> IF purge(c) THEN "xpurge" ELSE "xpick"
    [] phase = "DESTROYING" -> "xprobe"
    [] phase \in {"READY", "FAILED", "CRASHED", "UNREGISTERED_HEALTHY"}
         -> "xbegin"
    [] OTHER -> "xfail"

DestroyNext(c) ==
  /\ pc[c] = "xpick"
  /\ \E i \in job[c].todo :
       Move(c, DestroyRoute(c, job[c].list[i].phase),
            [job[c] EXCEPT !.cur = i, !.todo = @ \ {i}])
  /\ UNCHANGED onlyCtl

DestroyDone(c) ==
  /\ pc[c] = "xpick"
  /\ job[c].todo = {}
  /\ IF job[c].op = "deploy"
     THEN Move(c, "tomb", [job[c] EXCEPT !.cur = job[c].target])
     ELSE Return(c)
  /\ UNCHANGED onlyCtl

\* Mid-flight phases route through FAILED.
RouteThroughFailed(c) ==
  pc[c] = "xfail" /\ Advance(c, "FAILED", "xbegin")

BeginDestroy(c) ==
  pc[c] = "xbegin" /\ Advance(c, "DESTROYING", "xprobe")

DestroyProbe(c) ==
  /\ pc[c] = "xprobe"
  /\ IF Mem(c).pid = NoPid THEN Go(c, "xcache")
     ELSE IF Reconcile(Mem(c).pid, Mem(c).tok, cur(c)) = "REUSED"
     THEN TargetFails(c)
     ELSE Move(c, "stop", [job[c] EXCEPT !.pid = Mem(c).pid,
                                         !.tok = Mem(c).tok])
  /\ UNCHANGED onlyCtl

CheckCache(c) ==
  /\ pc[c] = "xcache"
  /\ LET verdict == modelCacheOwnedBy(cur(c), Mem(c).key) IN
     IF verdict = "refused" THEN TargetFails(c)
     ELSE Move(c, "xlog", [job[c] EXCEPT !.owned = (verdict = "owned")])
  /\ UNCHANGED onlyCtl

RemoveLog(c) ==
  /\ pc[c] = "xlog"
  /\ logs' = logs \ {cur(c)}
  /\ Go(c, "xkey")
  /\ UNCHANGED <<db, os, clock, keys, proxies, cache, deploys, faults>>

RemoveKey(c) ==
  /\ pc[c] = "xkey"
  /\ keys' = keys \ {cur(c)}
  /\ Move(c, IF job[c].owned THEN "xrm" ELSE "xdone",
          [job[c] EXCEPT !.owned = FALSE])
  /\ UNCHANGED <<db, os, clock, logs, proxies, cache, deploys, faults>>

\* RemoveAll unlinks the entries in no particular order, then the directory.
RemoveCacheEntry(c) ==
  /\ pc[c] = "xrm"
  /\ \/ /\ cache[cur(c)].marker # NoMarker
        /\ cache' = [cache EXCEPT ![cur(c)].marker = NoMarker]
     \/ /\ cache[cur(c)].data # "none"
        /\ cache' = [cache EXCEPT ![cur(c)].data = "none"]
  /\ Go(c, "xrm")
  /\ UNCHANGED <<db, os, clock, keys, logs, proxies, deploys, faults>>

RemoveCacheDir(c) ==
  /\ pc[c] = "xrm"
  /\ cache[cur(c)].marker = NoMarker /\ cache[cur(c)].data = "none"
  /\ cache' = [cache EXCEPT ![cur(c)].dir = FALSE]
  /\ Go(c, "xdone")
  /\ UNCHANGED <<db, os, clock, keys, logs, proxies, deploys, faults>>

FinishDestroy(c) ==
  /\ pc[c] = "xdone"
  /\ Advance(c, "DESTROYED", IF purge(c) THEN "xpurge" ELSE "xpick")

Purge(c) ==
  /\ pc[c] = "xpurge"
  /\ IF DeleteOK(cur(c)) THEN Delete(cur(c)) /\ Go(c, "xpick")
                         ELSE UNCHANGED db /\ Rejected(c)
  /\ UNCHANGED otherStore

-----------------------------------------------------------------------------
(* supervisor.Stop, called by destroyOne and by a failing deploy.          *)

StopReturns(c, ok) ==
  IF job[c].made THEN Move(c, "ffail", [job[c] EXCEPT !.pid = NoPid, !.tok = 0])
  ELSE IF ok THEN Move(c, "xcache", [job[c] EXCEPT !.pid = NoPid, !.tok = 0])
  ELSE TargetFails(c)

\* Nothing to do when process and group are gone; refuse whatever is not
\* verifiably the recorded leader of its own group.
StopVerifies(c) ==
  /\ pc[c] = "stop"
  /\ LET p == job[c].pid IN
     IF ~Alive(p) THEN StopReturns(c, ~processGroupAlive(p))
     ELSE IF Owned(p, job[c].tok, cur(c)) /\ os[p].pgid = p THEN Go(c, "term")
     ELSE StopReturns(c, FALSE)
  /\ UNCHANGED onlyCtl

\* SIGTERM: each member exits in its own time, or ignores it.
StopTerminates(c) ==
  pc[c] = "term" /\ Go(c, "grace") /\ UNCHANGED onlyCtl

\* The group emptied within the grace period, or SIGKILL.
StopGraceOver(c) ==
  /\ pc[c] = "grace"
  /\ IF processGroupAlive(job[c].pid)
     THEN KillGroup(job[c].pid) /\ Go(c, "kill")
     ELSE UNCHANGED os /\ StopReturns(c, TRUE)
  /\ UNCHANGED <<db, clock, fileVars, deploys, faults>>

\* The polls after SIGKILL: the group is empty, or is still there at the end.
StopGivesUp(c) ==
  /\ pc[c] = "kill"
  /\ StopReturns(c, ~processGroupAlive(job[c].pid))
  /\ UNCHANGED onlyCtl

=============================================================================
