------------------------- MODULE LifecycleProperties -------------------------
(***************************************************************************)
(* What the lifecycle commands must guarantee, stated over Lifecycle.      *)
(***************************************************************************)
EXTENDS Lifecycle

(* Types.  Every variable stays in its domain.                             *)
TypeOK ==
  /\ db \in [Id -> Row]
  /\ os \in [Pid -> Slot]
  /\ clock \in Nat
  /\ keys \subseteq Id /\ logs \subseteq Id /\ proxies \subseteq Id
  /\ cache \in [Id -> Cache]
  /\ lock \in Cli \cup Pid \cup {Nobody}
  /\ pc \in [Cli -> Label]
  /\ job \in [Cli -> Job]
  /\ deploys \in Nat /\ faults \in Nat

-----------------------------------------------------------------------------
(* Safety.                                                                 *)

\* Only the holder of the operation lock is inside a lifecycle operation: not
\* even the child of a killed deploy may overlap with the next command.
MutualExclusion == \A c \in Cli : pc[c] \in Critical => lock = c

\* The phase each label writes.
Attempt ==
  [rcrash |-> "CRASHED", xfail |-> "FAILED", xbegin |-> "DESTROYING",
   xdone |-> "DESTROYED", validate |-> "VALIDATING",
   download |-> "DOWNLOADING", starting |-> "STARTING", healthy |-> "HEALTHY",
   register |-> "REGISTERING", unreg |-> "UNREGISTERED_HEALTHY",
   ffail |-> "FAILED"]

\* No command works on a stale copy of a row: every compare-and-set, insert
\* and delete that reaches the store is legal and finds what it expects, so
\* ErrIllegalTransition, ErrConflict and ErrDuplicate never reach the user.
StoreNeverRefuses ==
  \A c \in Cli :
    /\ pc[c] \in DOMAIN Attempt
         => TransitionOK(cur(c), Mem(c).phase, Attempt[pc[c]])
    /\ pc[c] = "create" => CreateOK(cur(c))
    /\ pc[c] = "intent" => SetRuntimeIntentOK(cur(c))
    /\ pc[c] \in {"radopt", "bind"} => SetRuntimeOK(cur(c))
    /\ pc[c] = "xpurge" => DeleteOK(cur(c))

Active == {i \in Id : db[i].phase \notin {Absent, "DESTROYED"}}

\* The primary deployment is the only one: a second deploy conflicts, and
\* --replace destroys the old one before it creates the new one.
OneActive == \A i, j \in Active : i = j

Running(p) == os[p].st \in {"forked", "live"} /\ os[p].key # 0

\* A record is dropped, or marked DESTROYED, only when no process of its
\* runtime is left (state.Store.Delete: ownership history is never dropped
\* while resources can exist).
NothingDroppedWhileRunning ==
  \A p \in Pid : Running(p) =>
    /\ os[p].id \in Active
    /\ db[os[p].id].key = os[p].key

\* A GPU rarely fits two runtimes: those of two deployments never overlap,
\* not even two successive deployments of one id.  It follows from OneActive and
\* NothingDroppedWhileRunning (theorem RuntimesDoNotOverlap).
OneRuntime ==
  \A p, q \in Pid : Running(p) /\ Running(q) => os[p].key = os[q].key

\* The process that leads a runtime can always be found again: its pid and
\* token are recorded, or it is the one match of a STARTING intent, or the
\* command that started it still has it in hand.
RuntimeAccounted ==
  \A p \in Pid : Running(p) /\ os[p].pgid = p =>
    LET row == db[os[p].id] IN
    \/ row.pid = p /\ row.tok = os[p].tok
    \/ /\ row.phase = "STARTING" /\ row.pid = NoPid /\ row.intent
       /\ row.upd < os[p].tok
       /\ FindByCommand(os[p].id, row.upd) \subseteq {p}
    \/ \E c \in Cli : /\ pc[c] \in {"exec", "bind"} \cup Stopping
                      /\ job[c].made /\ job[c].pid = p

\* What a deployment owns: its key file and the cache it claimed.
Owns(i) == i \in keys \/ (cache[i].dir /\ cache[i].data # "alien")

\* A deployment that is gone, tombstone or not, left no secret and no cache.
NoResidue == \A i \in Id : Owns(i) => i \in Active

\* A directory that iold did not fill is never emptied.
AlienDataKept ==
  [][\A i \in Id : cache[i].data = "alien" => cache'[i].data = "alien"]_vars

\* No command kills a process that is not the runtime's: not an older process
\* with the same command line, not one that took over a recorded pid.
StrangersUnharmed ==
  [][pc' # pc => \A p \in Pid :
       os[p].st = "live" /\ os[p].key = 0 => os'[p] = os[p]]_vars

\* machine.go: CRASHED is the reconciliation outcome for any interrupted
\* active deployment.  So no half-done phase is left when recovery is over.
InterruptedIsCrashed ==
  \A c \in Cli : pc[c] = "work" =>
    \A i \in Id : db[i].phase \in Settled
                    \cup {"READY", "UNREGISTERED_HEALTHY"}

\* A command acts only on settled deployments: whatever was interrupted before,
\* recovery leaves no row in a phase before the runtime, and one in a phase
\* after it only with the process that was found for it on record.
RecoverySettles ==
  \A c \in Cli : pc[c] = "work" =>
    \A i \in Id : \/ db[i].phase \in Settled
                  \/ db[i].phase \notin BeforeRuntime /\ db[i].pid # NoPid

\* ARCHITECTURE.md 9: destroy removes the logs.  So a destroyed deployment
\* has none.
LogsGone == \A i \in logs : i \in Active

-----------------------------------------------------------------------------
(* The promise as a specification.                                         *)

StageOf(phase) ==
  CASE phase = Absent -> "absent"
    [] phase \in {"READY", "UNREGISTERED_HEALTHY"} -> "serving"
    [] phase \in {"FAILED", "CRASHED"} -> "broken"
    [] phase = "DESTROYING" -> "destroying"
    [] phase = "DESTROYED" -> "destroyed"
    [] OTHER -> "deploying"

Promise == INSTANCE Deployments WITH
  stage <- [i \in Id |-> StageOf(db[i].phase)],
  running <- {os[p].id : p \in {q \in Pid : Running(q)}},
  littered <- {i \in Id : Owns(i)}

\* The commands implement Deployments.
ImplementsDeployments == Promise!Spec

-----------------------------------------------------------------------------
(* Liveness.                                                               *)

\* A running CLI is scheduled; so are a child on its way to exec, init that
\* reaps and a log proxy that was started.  Runtimes need not exit.
Fairness ==
  /\ \A c \in Cli : WF_vars(CliStep(c))
  /\ \A p \in Pid : /\ WF_vars(ChildExecs(p) \/ ChildExecFails(p))
                    /\ WF_vars(RuntimeReaped(p))
  /\ \A i \in Id : WF_vars(ProxyRuns(i))

FairSpec == Spec /\ Fairness

\* Every command that got the lock ends and gives it back, and a crash does not
\* lose it: somebody can have it again.
LockComesBack == []<>(lock = Nobody)

\* An operator who repeats `iold destroy --all' until it succeeds.
Persistent ==
  SF_vars(\E c \in Cli : Invoke(c, "destroy", FALSE, NoId))

PersistentSpec == FairSpec /\ Persistent

\* recovery_test.go: the next destroy completes the remaining steps of an
\* interrupted one.  So a destroy that has begun is not wedged.
DestroyCompletes ==
  \A i \in Id : db[i].phase = "DESTROYING" ~> db[i].phase # "DESTROYING"

=============================================================================
