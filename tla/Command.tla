------------------------------- MODULE Command -------------------------------
(***************************************************************************)
(* The iold processes: what one of them remembers while it runs a command, *)
(* how control passes between its steps, and the operation lock            *)
(* (internal/cli, internal/operationlock/lock.go). A step of a CLI is one  *)
(* system call or one SQL statement.                                       *)
(***************************************************************************)
EXTENDS Store, Processes, Files

CONSTANTS
  Cli,          \* iold processes; a crashed or finished one is invoked anew
  Nobody,       \* the lock is free
  MaxDeploys    \* bound: deploy is not invoked after this many creations

VARIABLES
  lock,     \* holder of the flock: a CLI, a forked child, or Nobody
  pc,       \* where each CLI is
  job,      \* the local variables of each CLI
  deploys,  \* deployments created so far; the next idempotency key
  faults    \* faults injected so far

ctlVars == <<lock, pc, job>>
vars == <<db, os, clock, fileVars, ctlVars, deploys, faults>>

(* The labels, by the function of the source they belong to.               *)
Recovering == {"rlist", "rpick", "rscan", "radopt", "rprobe", "rcrash"}
Destroying == {"xpick", "xfail", "xbegin", "xprobe", "xcache", "xlog", "xkey",
               "xrm", "xdone", "xpurge"}
Stopping == {"stop", "term", "grace", "kill"}
Deploying == {"resolve", "tomb", "create", "validate", "key", "mkdir",
              "marker", "mwrite", "download", "intent", "starting", "launch",
              "exec", "bind", "health", "healthy", "ready", "register",
              "unreg", "ffail"}
Critical == Recovering \cup {"work"} \cup Destroying \cup Stopping
              \cup Deploying
Label == {"idle", "wait"} \cup Critical

ASSUME CommandAssumption ==
  /\ Nobody \notin Cli \cup Pid
  /\ Cli \cap Pid = {}
  /\ MaxDeploys \in Nat

Op == {"none", "deploy", "destroy", "status"}

\* list: the rows the command read; cur: the one it works on; pid, tok: the
\* process it is about to bind or stop; owned: the cache may be removed;
\* made: the new deployment exists, so a failed stop ends in FAILED.
Job == [op : Op, flag : BOOLEAN, target : Id \cup {NoId}, list : [Id -> Row],
        todo : SUBSET Id, cur : Id \cup {NoId}, pid : Pid \cup {NoPid},
        tok : Nat, owned : BOOLEAN, made : BOOLEAN]

NoJob == [op |-> "none", flag |-> FALSE, target |-> NoId,
          list |-> [i \in Id |-> NoRow], todo |-> {}, cur |-> NoId,
          pid |-> NoPid, tok |-> 0, owned |-> FALSE, made |-> FALSE]

-----------------------------------------------------------------------------
(* Control flow of one CLI.                                                *)

cur(c) == job[c].cur
\* The in-memory copy of the row the command works on.
Mem(c) == job[c].list[cur(c)]
\* destroyOne deletes the row at the end; deploy --replace always asks for it.
purge(c) == job[c].op = "deploy" \/ job[c].flag

Move(c, l, j) ==
  /\ pc' = [pc EXCEPT ![c] = l]
  /\ job' = [job EXCEPT ![c] = j]
  /\ UNCHANGED lock

Go(c, l) == Move(c, l, job[c])

\* The command returns: deferred calls close the store and the lock.
Return(c) ==
  /\ pc' = [pc EXCEPT ![c] = "idle"]
  /\ job' = [job EXCEPT ![c] = NoJob]
  /\ lock' = Nobody

\* Mutant: deploy --replace goes on after a target it could not destroy.
TargetSkipped(c) ==
  Move(c, "xpick", [job[c] EXCEPT !.pid = NoPid, !.tok = 0])

\* destroyOne returned an error: destroy continues with its next target,
\* deploy --replace gives up.
TargetFails(c) ==
  IF job[c].op = "deploy" THEN Return(c)
  ELSE Move(c, "xpick", [job[c] EXCEPT !.pid = NoPid, !.tok = 0])

\* executeDeploy's fail: stop what this run started, then record FAILED.
Fail(c) == IF job[c].pid = NoPid THEN Go(c, "ffail") ELSE Go(c, "stop")

\* A statement of the store or a file operation returned an error.
Rejected(c) ==
  IF pc[c] \in Destroying THEN TargetFails(c)
  ELSE IF pc[c] \in {"key", "mkdir", "marker", "mwrite", "intent", "starting",
                     "bind", "healthy", "register", "unreg"} THEN Fail(c)
  ELSE Return(c)

\* What a statement of the store and a step of control leave alone.
otherStore == <<os, clock, fileVars, deploys, faults>>
onlyCtl == <<db, otherStore>>

\* Compare-and-set from the phase in memory; the copy in memory follows.
Advance(c, to, next) ==
  /\ IF TransitionOK(cur(c), Mem(c).phase, to)
     THEN /\ Transition(cur(c), to, clock)
          /\ Move(c, next, [job[c] EXCEPT !.list[cur(c)].phase = to])
     ELSE UNCHANGED db /\ Rejected(c)
  /\ UNCHANGED otherStore

-----------------------------------------------------------------------------
(* Invocation and the operation lock.                                      *)

Invoke(c, op, flag, i) ==
  /\ pc[c] = "idle"
  /\ op = "deploy" => i # NoId /\ deploys < MaxDeploys
  /\ op = "status" => i = NoId /\ ~flag
  /\ Move(c, "wait", [NoJob EXCEPT !.op = op, !.flag = flag, !.target = i])
  /\ UNCHANGED onlyCtl

LockShared == TRUE  \* mutant: LOCK_SH instead of LOCK_EX
LockFree == lock = Nobody

Acquire(c) ==
  /\ pc[c] = "wait"
  /\ LockFree
  /\ lock' = c
  /\ pc' = [pc EXCEPT ![c] = "rlist"]
  /\ UNCHANGED <<job, onlyCtl>>

\* status does not wait: it reports what the store holds and repairs nothing.
StatusBusy(c) ==
  /\ pc[c] = "wait"
  /\ job[c].op = "status"
  /\ lock # Nobody
  /\ Move(c, "idle", NoJob)
  /\ UNCHANGED onlyCtl

=============================================================================
