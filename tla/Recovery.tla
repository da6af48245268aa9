------------------------------ MODULE Recovery -------------------------------
(***************************************************************************)
(* recoverInterruptedDeployments, which every command runs first once it   *)
(* has the lock, and status, which then only reports                       *)
(* (internal/cli/cli.go).                                                  *)
(***************************************************************************)
EXTENDS Command

Settled == {Absent, "DESTROYED", "DESTROYING", "FAILED", "CRASHED"}
BeforeRuntime == {"REQUESTED", "VALIDATING", "DOWNLOADING", "STARTING"}

RecoverList(c) ==
  /\ pc[c] = "rlist"
  /\ Move(c, "rpick", [job[c] EXCEPT !.list = db,
            !.todo = {i \in Id : db[i].phase \notin Settled}])
  /\ UNCHANGED onlyCtl

\* Mutant: recovery does not look for the process of a STARTING intent.
RecoverUnscanned(row) == IF row.pid = NoPid THEN "rcrash" ELSE "rprobe"
RecoverRoute(row) ==
  CASE row.pid # NoPid -> "rprobe"
    [] row.pid = NoPid /\ row.phase = "STARTING" /\ row.intent -> "rscan"
    [] OTHER -> "rcrash"

RecoverNext(c) ==
  /\ pc[c] = "rpick"
  /\ \E i \in job[c].todo :
       Move(c, RecoverRoute(job[c].list[i]),
            [job[c] EXCEPT !.cur = i, !.todo = @ \ {i}])
  /\ UNCHANGED onlyCtl

RecoverDone(c) ==
  /\ pc[c] = "rpick"
  /\ job[c].todo = {}
  /\ Go(c, "work")
  /\ UNCHANGED onlyCtl

\* A STARTING intent adopts the one process that matches it, if it is one.
RecoverScan(c) ==
  /\ pc[c] = "rscan"
  /\ LET matches == FindByCommand(cur(c), Mem(c).upd) IN
     IF Cardinality(matches) = 1
     THEN \E p \in matches :
            Move(c, "radopt", [job[c] EXCEPT !.pid = p, !.tok = os[p].tok])
     ELSE Go(c, "rcrash")
  /\ UNCHANGED onlyCtl

RecoverAdopt(c) ==
  /\ pc[c] = "radopt"
  /\ IF SetRuntimeOK(cur(c))
     THEN /\ SetRuntime(cur(c), job[c].pid, job[c].tok, clock)
          /\ Move(c, "rprobe",
               [job[c] EXCEPT !.list[cur(c)].pid = job[c].pid,
                              !.list[cur(c)].tok = job[c].tok,
                              !.pid = NoPid, !.tok = 0])
     ELSE UNCHANGED db /\ Rejected(c)
  /\ UNCHANGED otherStore

\* Mutant: a running process is enough, whatever its row's phase.
RecoverLeavesRunning(c) ==
  /\ pc[c] = "rprobe"
  /\ Go(c, IF Reconcile(Mem(c).pid, Mem(c).tok, cur(c)) = "RUNNING" THEN "rpick" ELSE "rcrash")
  /\ UNCHANGED onlyCtl

RecoverProbe(c) ==
  /\ pc[c] = "rprobe"
  /\ IF /\ Reconcile(Mem(c).pid, Mem(c).tok, cur(c)) = "RUNNING"
        /\ Mem(c).phase \notin BeforeRuntime
     THEN Go(c, "rpick")
     ELSE Go(c, "rcrash")
  /\ UNCHANGED onlyCtl

RecoverCrash(c) ==
  pc[c] = "rcrash" /\ Advance(c, "CRASHED", "rpick")

StatusReports(c) ==
  /\ pc[c] = "work" /\ job[c].op = "status"
  /\ Return(c)
  /\ UNCHANGED onlyCtl

=============================================================================
