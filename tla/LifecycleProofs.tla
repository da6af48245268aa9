--------------------------- MODULE LifecycleProofs ---------------------------
(***************************************************************************)
(* Theorems about Lifecycle for any sets of CLIs, deployments and pids and *)
(* any bounds.                                                             *)
(***************************************************************************)
EXTENDS LifecycleProperties, TLAPS

-----------------------------------------------------------------------------
(* Values.                                                                 *)

\* A missing row is a row.
LEMMA NoRowType == NoRow \in Row
BY DEF NoRow, Row

\* A CLI that runs nothing has well-typed locals.
LEMMA NoJobType == NoJob \in Job
<1>1. [i \in Id |-> NoRow] \in [Id -> Row]
  BY NoRowType
<1> QED BY <1>1 DEF NoJob, Job, Op

\* A row that Create inserts is a row.
LEMMA NewRowType ==
  ASSUME NEW k \in Nat, NEW now \in Nat PROVE NewRow(k, now) \in Row
BY DEF NewRow, NoRow, Row, Phase

\* An unused pid has a slot of the process table.
LEMMA FreeSlotType == FreeSlot \in Slot
BY DEF FreeSlot, Slot

\* So has a process that has exited.
LEMMA DeadType == ASSUME NEW s \in Slot PROVE Dead(s) \in Slot
BY DEF Dead, Slot

\* The initial caches are caches.
LEMMA CacheTypes == NoCache \in Cache /\ AlienCache \in Cache
BY DEF NoCache, AlienCache, Cache, NoMarker

\* Setting the phase or the process of a row in memory leaves a typed job.
LEMMA ListTypes ==
  ASSUME NEW j \in Job, NEW i, NEW p \in Pid \cup {NoPid}, NEW t \in Nat,
         NEW ph \in Phase
  PROVE  /\ [j EXCEPT !.list[i].phase = ph] \in Job
         /\ [j EXCEPT !.list[i].pid = p, !.list[i].tok = t,
                      !.pid = NoPid, !.tok = 0] \in Job
<1>1. j.list \in [Id -> Row]
  BY DEF Job
<1>2. [j.list EXCEPT ![i].phase = ph] \in [Id -> Row]
  BY <1>1 DEF Row
<1>3. [j.list EXCEPT ![i].pid = p] \in [Id -> Row]
  BY <1>1 DEF Row
<1>4. [[j.list EXCEPT ![i].pid = p] EXCEPT ![i].tok = t] \in [Id -> Row]
  BY <1>3 DEF Row
<1>5. [j EXCEPT !.list[i].phase = ph] \in Job
  BY <1>2 DEF Job
<1>6. [j EXCEPT !.list[i].pid = p, !.list[i].tok = t,
                !.pid = NoPid, !.tok = 0] \in Job
  BY <1>4 DEF Job
<1> QED BY <1>5, <1>6

-----------------------------------------------------------------------------
(* Control.  Every step of a CLI that holds the lock ends its command or   *)
(* moves it on; the current deployment stays known.                        *)

\* The labels at which a command works on one deployment.
Working == Label \ {"idle", "wait", "rlist", "rpick", "work", "xpick",
                     "resolve"}

\* Locals a command may have at a label.  TypeOK is not inductive without
\* this: the row in memory and the file paths are those of the current
\* deployment, and the flock may pass to the child that was just forked.
Known(l, j) == /\ l \in Working => j.cur \in Id
               /\ l = "exec" => j.pid \in Pid
               /\ j.op = "deploy" => j.target \in Id

CurrentKnown == \A c \in Cli : Known(pc[c], job[c])

CtlOK ==
  /\ lock \in Cli \cup Pid \cup {Nobody}
  /\ pc \in [Cli -> Label]
  /\ job \in [Cli -> Job]
  /\ CurrentKnown

Moves(c) == \E l \in Label, j \in Job : Move(c, l, j) /\ Known(l, j)

Controlled(c) == Return(c) \/ Moves(c)

\* A step of control keeps the control variables typed and the current
\* deployment known.
LEMMA ControlKeeps ==
  ASSUME NEW c \in Cli, CtlOK, Controlled(c) PROVE CtlOK'
<1>1. CASE Return(c)
  <2>1. pc' \in [Cli -> Label] /\ job' \in [Cli -> Job]
    BY <1>1, NoJobType DEF Return, CtlOK, Label
  <2>2. CurrentKnown'
    <3> SUFFICES ASSUME NEW d \in Cli
                 PROVE  Known(pc'[d], job'[d])
      BY DEF CurrentKnown
    <3>1. CASE d = c
      BY <1>1, <3>1 DEF Return, CtlOK, Working, NoJob, Known
    <3>2. CASE d # c
      BY <1>1, <3>2 DEF Return, CtlOK, CurrentKnown, Known
    <3> QED BY <3>1, <3>2
  <2> QED BY <1>1, <2>1, <2>2 DEF Return, CtlOK
<1>2. CASE Moves(c)
  <2> PICK l \in Label, j \in Job : Move(c, l, j) /\ Known(l, j)
    BY <1>2 DEF Moves
  <2>1. CurrentKnown'
    BY DEF Move, CtlOK, CurrentKnown, Known
  <2> QED BY <2>1 DEF Move, CtlOK
<1> QED BY <1>1, <1>2 DEF Controlled

\* A move to another label with the same locals.
LEMMA GoMoves ==
  ASSUME NEW c \in Cli, CtlOK, NEW l \in Label \ {"exec"},
         l \in Working => cur(c) \in Id, Go(c, l)
  PROVE  Moves(c)
<1>1. job[c] \in Job /\ Move(c, l, job[c])
  BY DEF CtlOK, Go
<1>2. Known(l, job[c])
  BY DEF CtlOK, CurrentKnown, Known, cur
<1> QED BY <1>1, <1>2 DEF Moves

\* A move that drops the process at hand.
LEMMA DropMoves ==
  ASSUME NEW c \in Cli, CtlOK, NEW l \in Label \ {"exec"},
         l \in Working => cur(c) \in Id,
         Move(c, l, [job[c] EXCEPT !.pid = NoPid, !.tok = 0])
  PROVE  Moves(c)
<1> DEFINE j == [job[c] EXCEPT !.pid = NoPid, !.tok = 0]
<1>1. job[c] \in Job
  BY DEF CtlOK
<1>2. j \in Job /\ j.cur = cur(c) /\ j.op = job[c].op
                /\ j.target = job[c].target
  BY <1>1 DEF Job, cur
<1>3. Known(l, j)
  BY <1>2 DEF CtlOK, CurrentKnown, Known
<1> QED BY <1>2, <1>3 DEF Moves

\* A target that cannot be destroyed.
LEMMA TargetFailsControlled ==
  ASSUME NEW c \in Cli, CtlOK, TargetFails(c) PROVE Controlled(c)
<1>1. "xpick" \in Label \ (Working \cup {"exec"})
  BY DEF Label, Critical, Destroying, Working
<1>2. CASE job[c].op = "deploy"
  BY <1>2 DEF TargetFails, Controlled
<1>3. CASE job[c].op # "deploy"
  BY <1>1, <1>3, DropMoves DEF TargetFails, Controlled
<1> QED BY <1>2, <1>3

\* A deployment that fails while it is worked on.
LEMMA FailControlled ==
  ASSUME NEW c \in Cli, CtlOK, pc[c] \in Working, Fail(c)
  PROVE  Controlled(c)
<1>1. cur(c) \in Id
  BY DEF CtlOK, CurrentKnown, Known, cur
<1>2. "ffail" \in Label /\ "stop" \in Label
  BY DEF Label, Critical, Deploying, Stopping
<1> QED BY <1>1, <1>2, GoMoves DEF Fail, Controlled

\* A statement or file operation that fails.
LEMMA RejectedControlled ==
  ASSUME NEW c \in Cli, CtlOK, Rejected(c) PROVE Controlled(c)
<1>1. CASE pc[c] \in Destroying
  BY <1>1, TargetFailsControlled DEF Rejected
<1>2. CASE /\ pc[c] \notin Destroying
           /\ pc[c] \in {"key", "mkdir", "marker", "mwrite", "intent",
                         "starting", "bind", "healthy", "register", "unreg"}
  <2>1. pc[c] \in Working
    BY <1>2 DEF Working, Label, Critical, Deploying
  <2> QED BY <1>2, <2>1, FailControlled DEF Rejected
<1> QED BY <1>1, <1>2 DEF Rejected, Controlled

\* supervisor.Stop returning to destroyOne or to a failing deploy.
LEMMA StopReturnsControlled ==
  ASSUME NEW c \in Cli, CtlOK, pc[c] \in Working, NEW ok \in BOOLEAN,
         StopReturns(c, ok)
  PROVE  Controlled(c)
<1>1. cur(c) \in Id
  BY DEF CtlOK, CurrentKnown, Known, cur
<1>2. {"ffail", "xcache"} \subseteq Label \ {"exec"}
  BY DEF Label, Critical, Deploying, Destroying
<1>3. CASE job[c].made
  BY <1>1, <1>2, <1>3, DropMoves DEF StopReturns, Controlled
<1>4. CASE ~job[c].made /\ ok
  BY <1>1, <1>2, <1>4, DropMoves DEF StopReturns, Controlled
<1>5. CASE ~job[c].made /\ ~ok
  BY <1>5, TargetFailsControlled DEF StopReturns
<1> QED BY <1>3, <1>4, <1>5

-----------------------------------------------------------------------------
(* Data.  Every step of a CLI leaves rows, processes and files typed.      *)

DataOK ==
  /\ db \in [Id -> Row]
  /\ os \in [Pid -> Slot] /\ clock \in Nat
  /\ keys \subseteq Id /\ logs \subseteq Id /\ proxies \subseteq Id
  /\ cache \in [Id -> Cache]
  /\ deploys \in Nat /\ faults \in Nat

\* The inductive invariant: TypeOK with CurrentKnown.
TypeInv == DataOK /\ CtlOK

\* What a step of a CLI that holds the lock amounts to.
StepOK(c) == pc[c] \in Critical /\ Controlled(c) /\ DataOK'

\* The copy of a row in memory is a row.
LEMMA MemType ==
  ASSUME NEW c \in Cli, CtlOK, pc[c] \in Working
  PROVE  cur(c) \in Id /\ Mem(c) \in Row /\ job[c] \in Job
BY DEF CtlOK, CurrentKnown, Known, Job, Mem, cur

\* The writes of the store write rows.
LEMMA StoreTypes ==
  ASSUME db \in [Id -> Row], NEW now \in Nat, NEW i
  PROVE  /\ \A to \in Phase : Transition(i, to, now) => db' \in [Id -> Row]
         /\ \A k \in Nat : Create(i, k, now) => db' \in [Id -> Row]
         /\ SetRuntimeIntent(i, now) => db' \in [Id -> Row]
         /\ \A p \in Pid \cup {NoPid}, t \in Nat :
              SetRuntime(i, p, t, now) => db' \in [Id -> Row]
         /\ Delete(i) => db' \in [Id -> Row]
<1>1. ASSUME NEW to \in Phase, Transition(i, to, now)
      PROVE  db' \in [Id -> Row]
  BY <1>1 DEF Transition, Row
<1>2. ASSUME NEW k \in Nat, Create(i, k, now) PROVE db' \in [Id -> Row]
  BY <1>2, NewRowType DEF Create
<1>3. ASSUME SetRuntimeIntent(i, now) PROVE db' \in [Id -> Row]
  BY <1>3 DEF SetRuntimeIntent, Row
<1>4. ASSUME NEW p \in Pid \cup {NoPid}, NEW t \in Nat, SetRuntime(i, p, t, now)
      PROVE  db' \in [Id -> Row]
  BY <1>4 DEF SetRuntime, Row
<1>5. ASSUME Delete(i) PROVE db' \in [Id -> Row]
  BY <1>5, NoRowType DEF Delete
<1> QED BY <1>1, <1>2, <1>3, <1>4, <1>5

\* Steps that change control only.
LEMMA ControlOnly ==
  ASSUME DataOK, UNCHANGED onlyCtl PROVE DataOK'
BY DEF DataOK, onlyCtl, otherStore, fileVars

\* Statements of the store change the table and nothing else.
LEMMA StoreOnly ==
  ASSUME DataOK, UNCHANGED otherStore, db' \in [Id -> Row] PROVE DataOK'
BY DEF DataOK, otherStore, fileVars

\* A compare-and-set of the phase.
LEMMA AdvanceOK ==
  ASSUME TypeInv, NEW c \in Cli, pc[c] \in Working,
         NEW to \in Phase, NEW next \in Label \ {"exec"}, Advance(c, to, next)
  PROVE  Controlled(c) /\ DataOK'
<1>1. cur(c) \in Id /\ job[c] \in Job
  BY MemType DEF TypeInv
<1>2. CASE TransitionOK(cur(c), Mem(c).phase, to)
  <2> DEFINE j == [job[c] EXCEPT !.list[cur(c)].phase = to]
  <2>1. j \in Job
    BY <1>1, ListTypes
  <2>2. j.cur = cur(c) /\ j.op = job[c].op /\ j.target = job[c].target
    BY <1>1 DEF Job, cur
  <2>3. Known(next, j)
    BY <1>1, <2>2 DEF Known, TypeInv, CtlOK, CurrentKnown
  <2>4. Move(c, next, j) /\ Transition(cur(c), to, clock)
    BY <1>2 DEF Advance
  <2>5. Moves(c)
    BY <2>1, <2>3, <2>4 DEF Moves
  <2>6. db' \in [Id -> Row]
    BY <2>4, StoreTypes DEF TypeInv, DataOK
  <2> QED BY <2>5, <2>6, StoreOnly DEF Controlled, Advance, TypeInv
<1>3. CASE ~TransitionOK(cur(c), Mem(c).phase, to)
  <2>1. UNCHANGED onlyCtl /\ Rejected(c)
    BY <1>3 DEF Advance, onlyCtl
  <2> QED BY <2>1, RejectedControlled, ControlOnly DEF TypeInv
<1> QED BY <1>2, <1>3

-----------------------------------------------------------------------------
(* One step of recovery, destroy and deploy each.                          *)

\* Recovery and the choice of targets.
LEMMA RecoveryStepOK ==
  ASSUME TypeInv, NEW c \in Cli, RecoveryStep(c) PROVE StepOK(c)
<1> USE DEF TypeInv
<1>0. job[c] \in Job /\ db \in [Id -> Row]
  BY DEF CtlOK, DataOK
<1>1. CASE RecoverList(c)
  <2> DEFINE j == [job[c] EXCEPT !.list = db,
                     !.todo = {i \in Id : db[i].phase \notin Settled}]
  <2>1. j \in Job /\ j.op = job[c].op /\ j.target = job[c].target
    BY <1>0 DEF Job
  <2>2. Known("rpick", j)
    BY <2>1 DEF Known, Working, CtlOK, CurrentKnown
  <2>3. "rpick" \in Label /\ pc[c] \in Critical
    BY <1>1 DEF RecoverList, Label, Critical, Recovering
  <2>4. Moves(c)
    BY <1>1, <2>1, <2>2, <2>3 DEF RecoverList, Moves
  <2> QED BY <1>1, <2>3, <2>4, ControlOnly DEF RecoverList, StepOK, Controlled
<1>2. CASE RecoverNext(c)
  <2>1. PICK i \in job[c].todo :
          Move(c, RecoverRoute(job[c].list[i]),
               [job[c] EXCEPT !.cur = i, !.todo = @ \ {i}])
    BY <1>2 DEF RecoverNext
  <2> DEFINE j == [job[c] EXCEPT !.cur = i, !.todo = @ \ {i}]
             l == RecoverRoute(job[c].list[i])
  <2>2. i \in Id /\ job[c].todo \ {i} \in SUBSET Id
    BY <1>0, <2>1 DEF Job
  <2>3. j \in Job /\ j.op = job[c].op /\ j.target = job[c].target /\ j.cur = i
    BY <1>0, <2>2 DEF Job
  <2>4. l \in Label \ {"exec"} /\ pc[c] \in Critical
    BY <1>2 DEF RecoverNext, RecoverRoute, Label, Critical, Recovering
  <2>5. Known(l, j)
    BY <2>2, <2>3, <2>4 DEF Known, CtlOK, CurrentKnown
  <2>6. Moves(c)
    BY <2>1, <2>3, <2>4, <2>5 DEF Moves
  <2> QED BY <1>2, <2>4, <2>6, ControlOnly DEF RecoverNext, StepOK, Controlled
<1>3. CASE RecoverDone(c)
  <2>1. "work" \in Label \ Working /\ pc[c] \in Critical
    BY <1>3 DEF RecoverDone, Label, Critical, Recovering, Working
  <2>2. Moves(c)
    BY <1>3, <2>1, GoMoves DEF RecoverDone
  <2> QED BY <1>3, <2>1, <2>2, ControlOnly DEF RecoverDone, StepOK, Controlled
<1>4. CASE RecoverScan(c)
  <2>1. /\ pc[c] \in Critical \cap Working /\ "radopt" \in Label
        /\ "rcrash" \in Label
    BY <1>4 DEF RecoverScan, Label, Critical, Recovering, Working
  <2>2. cur(c) \in Id
    BY <2>1, MemType
  <2>3. ASSUME NEW p \in Pid,
               Move(c, "radopt", [job[c] EXCEPT !.pid = p, !.tok = os[p].tok])
        PROVE  Moves(c)
    <3> DEFINE j == [job[c] EXCEPT !.pid = p, !.tok = os[p].tok]
    <3>1. os[p].tok \in Nat
      BY DEF DataOK, Slot
    <3>2. /\ j \in Job /\ j.op = job[c].op /\ j.target = job[c].target
          /\ j.cur = cur(c)
      BY <1>0, <3>1 DEF Job, cur
    <3>3. Known("radopt", j)
      BY <2>2, <3>2 DEF Known, CtlOK, CurrentKnown
    <3> QED BY <2>1, <2>3, <3>2, <3>3 DEF Moves
  <2>4. ASSUME Go(c, "rcrash") PROVE Moves(c)
    BY <2>1, <2>2, <2>4, GoMoves
  <2>5. FindByCommand(cur(c), Mem(c).upd) \subseteq Pid
    BY DEF FindByCommand
  <2>6. Moves(c)
    <3> DEFINE matches == FindByCommand(cur(c), Mem(c).upd)
    <3>1. CASE Cardinality(matches) = 1
      <4>1. PICK p \in matches :
              Move(c, "radopt", [job[c] EXCEPT !.pid = p, !.tok = os[p].tok])
        BY <1>4, <3>1 DEF RecoverScan
      <4> QED BY <2>3, <2>5, <4>1
    <3>2. CASE Cardinality(matches) # 1
      BY <1>4, <2>4, <3>2 DEF RecoverScan
    <3> QED BY <3>1, <3>2
  <2> QED BY <1>4, <2>1, <2>6, ControlOnly DEF RecoverScan, StepOK, Controlled
<1>5. CASE RecoverAdopt(c)
  <2>1. pc[c] \in Critical \cap Working /\ "rprobe" \in Label
    BY <1>5 DEF RecoverAdopt, Label, Critical, Recovering, Working
  <2>2. cur(c) \in Id /\ job[c].pid \in Pid \cup {NoPid} /\ job[c].tok \in Nat
    BY <2>1, MemType DEF Job
  <2>3. CASE SetRuntimeOK(cur(c))
    <3> DEFINE j == [job[c] EXCEPT !.list[cur(c)].pid = job[c].pid,
                                   !.list[cur(c)].tok = job[c].tok,
                                   !.pid = NoPid, !.tok = 0]
    <3>1. j \in Job
      BY <1>0, <2>2, ListTypes DEF Phase
    <3>2. j.op = job[c].op /\ j.target = job[c].target /\ j.cur = cur(c)
      BY <1>0 DEF Job, cur
    <3>3. Known("rprobe", j)
      BY <2>2, <3>2 DEF Known, CtlOK, CurrentKnown
    <3>4. Moves(c)
      BY <1>5, <2>1, <2>3, <3>1, <3>3 DEF RecoverAdopt, Moves
    <3>5. db' \in [Id -> Row]
      BY <1>0, <1>5, <2>2, <2>3, StoreTypes DEF RecoverAdopt, DataOK
    <3> QED BY <1>5, <2>1, <3>4, <3>5, StoreOnly
            DEF RecoverAdopt, StepOK, Controlled
  <2>4. CASE ~SetRuntimeOK(cur(c))
    <3>1. UNCHANGED onlyCtl /\ Rejected(c)
      BY <1>5, <2>4 DEF RecoverAdopt, onlyCtl
    <3> QED BY <2>1, <3>1, RejectedControlled, ControlOnly DEF StepOK
  <2> QED BY <2>3, <2>4
<1>6. CASE RecoverProbe(c)
  <2>1. /\ pc[c] \in Critical \cap Working
        /\ "rpick" \in Label /\ "rcrash" \in Label
    BY <1>6 DEF RecoverProbe, Label, Critical, Recovering, Working
  <2>2. Moves(c)
    BY <1>6, <2>1, MemType, GoMoves DEF RecoverProbe
  <2> QED BY <1>6, <2>1, <2>2, ControlOnly DEF RecoverProbe, StepOK, Controlled
<1>7. CASE RecoverCrash(c)
  <2>1. /\ pc[c] \in Critical \cap Working /\ "rpick" \in Label
        /\ "CRASHED" \in Phase
    BY <1>7 DEF RecoverCrash, Label, Critical, Recovering, Working, Phase
  <2> QED BY <1>7, <2>1, AdvanceOK DEF RecoverCrash, StepOK
<1>8. CASE StatusReports(c)
  <2>1. pc[c] \in Critical
    BY <1>8 DEF StatusReports, Critical
  <2> QED BY <1>8, <2>1, ControlOnly DEF StatusReports, StepOK, Controlled
<1>9. CASE DestroyTargets(c)
  <2>1. pc[c] \in Critical /\ "xpick" \in Label \ Working
    BY <1>9 DEF DestroyTargets, Label, Critical, Destroying, Working
  <2> DEFINE named == job[c].target
             targets == IF named = NoId THEN {i \in Id : db[i].phase # Absent}
                                        ELSE {named}
             j == [job[c] EXCEPT !.list = db, !.todo = targets]
  <2>2. targets \subseteq Id
    BY <1>0 DEF Job
  <2>3. j \in Job /\ j.op = job[c].op /\ j.target = job[c].target
    BY <1>0, <2>2 DEF Job
  <2>4. Known("xpick", j)
    BY <2>1, <2>3 DEF Known, CtlOK, CurrentKnown
  <2>5. Controlled(c)
    BY <1>9, <2>1, <2>3, <2>4 DEF DestroyTargets, Controlled, Moves
  <2> QED BY <1>9, <2>1, <2>5, ControlOnly DEF DestroyTargets, StepOK
<1>10. CASE DeployTargets(c)
  <2>1. pc[c] \in Critical /\ "resolve" \in Label \ Working
    BY <1>10 DEF DeployTargets, Label, Critical, Deploying, Working
  <2> DEFINE j == [job[c] EXCEPT !.list = db, !.todo = existing]
  <2>2. existing \subseteq Id
    BY DEF existing
  <2>3. j \in Job /\ j.op = job[c].op /\ j.target = job[c].target
    BY <1>0, <2>2 DEF Job
  <2>4. Known("resolve", j)
    BY <2>1, <2>3 DEF Known, CtlOK, CurrentKnown
  <2>5. Controlled(c)
    BY <1>10, <2>1, <2>3, <2>4 DEF DeployTargets, Controlled, Moves
  <2> QED BY <1>10, <2>1, <2>5, ControlOnly DEF DeployTargets, StepOK
<1> QED BY <1>1, <1>2, <1>3, <1>4, <1>5, <1>6, <1>7, <1>8, <1>9, <1>10
        DEF RecoveryStep

\* A move that keeps the command and its target.
LEMMA MoveMoves ==
  ASSUME NEW c \in Cli, CtlOK, NEW l \in Label, NEW j \in Job,
         l \in Working => j.cur \in Id, l = "exec" => j.pid \in Pid,
         j.op = job[c].op, j.target = job[c].target, Move(c, l, j)
  PROVE  Controlled(c)
<1>1. Known(l, j)
  BY DEF Known, CtlOK, CurrentKnown
<1> QED BY <1>1 DEF Moves, Controlled

\* destroyOne and supervisor.Stop.
LEMMA DestroyStepOK ==
  ASSUME TypeInv, NEW c \in Cli, DestroyStep(c) PROVE StepOK(c)
<1> USE DEF TypeInv
<1>0. job[c] \in Job
  BY DEF CtlOK
<1>l. /\ {"xpick", "tomb"} \subseteq Label
      /\ Destroying \cup Stopping \subseteq Label \cap Critical
      /\ (Destroying \cup Stopping) \ {"xpick"} \subseteq Working
  BY DEF Label, Critical, Recovering, Destroying, Stopping, Deploying, Working
<1>1. CASE DestroyNext(c)
  <2>1. PICK i \in job[c].todo :
          Move(c, DestroyRoute(c, job[c].list[i].phase),
               [job[c] EXCEPT !.cur = i, !.todo = @ \ {i}])
    BY <1>1 DEF DestroyNext
  <2> DEFINE j == [job[c] EXCEPT !.cur = i, !.todo = @ \ {i}]
             l == DestroyRoute(c, job[c].list[i].phase)
  <2>2. i \in Id /\ job[c].todo \ {i} \in SUBSET Id
    BY <1>0, <2>1 DEF Job
  <2>3. j \in Job /\ j.op = job[c].op /\ j.target = job[c].target /\ j.cur = i
    BY <1>0, <2>2 DEF Job
  <2>4. l \in Label \ {"exec"} /\ pc[c] \in Critical
    BY <1>1, <1>l DEF DestroyNext, DestroyRoute, Destroying
  <2>5. Controlled(c)
    BY <2>1, <2>2, <2>3, <2>4, MoveMoves
  <2> QED BY <1>1, <2>4, <2>5, ControlOnly DEF DestroyNext, StepOK
<1>2. CASE DestroyDone(c)
  <2>1. pc[c] \in Critical
    BY <1>2, <1>l DEF DestroyDone, Destroying
  <2>2. CASE job[c].op = "deploy"
    <3> DEFINE j == [job[c] EXCEPT !.cur = job[c].target]
    <3>1. job[c].target \in Id
      BY <2>2 DEF CtlOK, CurrentKnown, Known
    <3>2. /\ j \in Job /\ j.op = job[c].op /\ j.target = job[c].target
          /\ j.cur \in Id
      BY <1>0, <3>1 DEF Job
    <3>3. Controlled(c)
      BY <1>2, <1>l, <2>2, <3>2, MoveMoves DEF DestroyDone
    <3> QED BY <1>2, <2>1, <3>3, ControlOnly DEF DestroyDone, StepOK
  <2>3. CASE job[c].op # "deploy"
    BY <1>2, <2>1, <2>3, ControlOnly DEF DestroyDone, StepOK, Controlled
  <2> QED BY <2>2, <2>3
<1>3. CASE RouteThroughFailed(c)
  <2>1. pc[c] \in Critical \cap Working /\ "FAILED" \in Phase
        /\ "xbegin" \in Label
    BY <1>3, <1>l DEF RouteThroughFailed, Destroying, Phase
  <2> QED BY <1>3, <2>1, AdvanceOK DEF RouteThroughFailed, StepOK
<1>4. CASE BeginDestroy(c)
  <2>1. pc[c] \in Critical \cap Working /\ "DESTROYING" \in Phase
        /\ "xprobe" \in Label
    BY <1>4, <1>l DEF BeginDestroy, Destroying, Phase
  <2> QED BY <1>4, <2>1, AdvanceOK DEF BeginDestroy, StepOK
<1>5. CASE DestroyProbe(c)
  <2>1. /\ pc[c] \in Critical \cap Working
        /\ "xcache" \in Label /\ "stop" \in Label
    BY <1>5, <1>l DEF DestroyProbe, Destroying, Stopping
  <2>2. cur(c) \in Id /\ Mem(c) \in Row
    BY <2>1, MemType
  <2> DEFINE j == [job[c] EXCEPT !.pid = Mem(c).pid, !.tok = Mem(c).tok]
  <2>3. /\ j \in Job /\ j.op = job[c].op /\ j.target = job[c].target
        /\ j.cur = cur(c)
    BY <1>0, <2>2 DEF Job, Row, cur
  <2>4. ASSUME Move(c, "stop", j) PROVE Controlled(c)
    BY <2>1, <2>2, <2>3, <2>4, MoveMoves
  <2>5. ASSUME Go(c, "xcache") PROVE Controlled(c)
    BY <2>1, <2>2, <2>5, GoMoves DEF Controlled
  <2>6. Controlled(c)
    BY <1>5, <2>4, <2>5, TargetFailsControlled DEF DestroyProbe
  <2> QED BY <1>5, <2>1, <2>6, ControlOnly DEF DestroyProbe, StepOK
<1>6. CASE CheckCache(c)
  <2>1. pc[c] \in Critical \cap Working /\ "xlog" \in Label
    BY <1>6, <1>l DEF CheckCache, Destroying
  <2> DEFINE verdict == modelCacheOwnedBy(cur(c), Mem(c).key)
             j == [job[c] EXCEPT !.owned = (verdict = "owned")]
  <2>2. /\ j \in Job /\ j.op = job[c].op /\ j.target = job[c].target
        /\ j.cur \in Id
    BY <1>0, <2>1, MemType DEF Job, cur
  <2>3. ASSUME Move(c, "xlog", j) PROVE Controlled(c)
    BY <2>1, <2>2, <2>3, MoveMoves
  <2>4. Controlled(c)
    BY <1>6, <2>3, TargetFailsControlled DEF CheckCache
  <2> QED BY <1>6, <2>1, <2>4, ControlOnly DEF CheckCache, StepOK
<1>7. CASE RemoveLog(c)
  <2>1. pc[c] \in Critical \cap Working /\ "xkey" \in Label
    BY <1>7, <1>l DEF RemoveLog, Destroying
  <2>2. Controlled(c)
    BY <1>7, <2>1, MemType, GoMoves DEF RemoveLog, Controlled
  <2> QED BY <1>7, <2>1, <2>2 DEF RemoveLog, StepOK, DataOK
<1>8. CASE RemoveKey(c)
  <2>1. /\ pc[c] \in Critical \cap Working
        /\ "xrm" \in Label /\ "xdone" \in Label
    BY <1>8, <1>l DEF RemoveKey, Destroying
  <2> DEFINE l == IF job[c].owned THEN "xrm" ELSE "xdone"
             j == [job[c] EXCEPT !.owned = FALSE]
  <2>2. /\ j \in Job /\ j.op = job[c].op /\ j.target = job[c].target
        /\ j.cur \in Id
    BY <1>0, <2>1, MemType DEF Job, cur
  <2>3. Controlled(c)
    BY <1>8, <2>1, <2>2, MoveMoves DEF RemoveKey
  <2> QED BY <1>8, <2>1, <2>3 DEF RemoveKey, StepOK, DataOK
<1>9. CASE RemoveCacheEntry(c)
  <2>1. pc[c] \in Critical \cap Working /\ "xrm" \in Label
    BY <1>9, <1>l DEF RemoveCacheEntry, Destroying
  <2>2. Controlled(c)
    BY <1>9, <2>1, MemType, GoMoves DEF RemoveCacheEntry, Controlled
  <2>3. cache' \in [Id -> Cache]
    BY <1>9 DEF RemoveCacheEntry, DataOK, Cache
  <2> QED BY <1>9, <2>1, <2>2, <2>3 DEF RemoveCacheEntry, StepOK, DataOK
<1>10. CASE RemoveCacheDir(c)
  <2>1. pc[c] \in Critical \cap Working /\ "xdone" \in Label
    BY <1>10, <1>l DEF RemoveCacheDir, Destroying
  <2>2. Controlled(c)
    BY <1>10, <2>1, MemType, GoMoves DEF RemoveCacheDir, Controlled
  <2>3. cache' \in [Id -> Cache]
    BY <1>10 DEF RemoveCacheDir, DataOK, Cache
  <2> QED BY <1>10, <2>1, <2>2, <2>3 DEF RemoveCacheDir, StepOK, DataOK
<1>11. CASE FinishDestroy(c)
  <2> DEFINE l == IF purge(c) THEN "xpurge" ELSE "xpick"
  <2>1. /\ pc[c] \in Critical \cap Working /\ "DESTROYED" \in Phase
        /\ l \in Label
    BY <1>11, <1>l DEF FinishDestroy, Destroying, Phase
  <2> QED BY <1>11, <2>1, AdvanceOK DEF FinishDestroy, StepOK
<1>12. CASE Purge(c)
  <2>1. pc[c] \in Critical \cap Working /\ "xpick" \in Label
    BY <1>12, <1>l DEF Purge, Destroying
  <2>2. CASE DeleteOK(cur(c))
    <3>1. Delete(cur(c)) /\ Go(c, "xpick") /\ UNCHANGED otherStore
      BY <1>12, <2>2 DEF Purge
    <3>2. db' \in [Id -> Row]
      BY <3>1, StoreTypes DEF DataOK
    <3>3. Controlled(c)
      BY <2>1, <3>1, MemType, GoMoves DEF Controlled
    <3> QED BY <2>1, <3>1, <3>2, <3>3, StoreOnly DEF StepOK
  <2>3. CASE ~DeleteOK(cur(c))
    <3>1. UNCHANGED onlyCtl /\ Rejected(c)
      BY <1>12, <2>3 DEF Purge, onlyCtl
    <3> QED BY <2>1, <3>1, RejectedControlled, ControlOnly DEF StepOK
  <2> QED BY <2>2, <2>3
<1>13. CASE StopVerifies(c)
  <2>1. pc[c] \in Critical \cap Working /\ "term" \in Label
    BY <1>13, <1>l DEF StopVerifies, Stopping
  <2>2. ASSUME Go(c, "term") PROVE Controlled(c)
    BY <2>1, <2>2, MemType, GoMoves DEF Controlled
  <2>3. ASSUME NEW ok \in BOOLEAN, StopReturns(c, ok) PROVE Controlled(c)
    BY <2>1, <2>3, StopReturnsControlled
  <2>4. (~processGroupAlive(job[c].pid)) \in BOOLEAN
    OBVIOUS
  <2>5. Controlled(c)
    BY <1>13, <2>2, <2>3, <2>4 DEF StopVerifies
  <2> QED BY <1>13, <2>1, <2>5, ControlOnly DEF StopVerifies, StepOK
<1>14. CASE StopTerminates(c)
  <2>1. pc[c] \in Critical \cap Working /\ "grace" \in Label
    BY <1>14, <1>l DEF StopTerminates, Stopping
  <2>2. Controlled(c)
    BY <1>14, <2>1, MemType, GoMoves DEF StopTerminates, Controlled
  <2> QED BY <1>14, <2>1, <2>2, ControlOnly DEF StopTerminates, StepOK
<1>15. CASE StopGraceOver(c)
  <2>1. pc[c] \in Critical \cap Working /\ "kill" \in Label
    BY <1>15, <1>l DEF StopGraceOver, Stopping
  <2>2. Controlled(c)
    BY <1>15, <2>1, MemType, GoMoves, StopReturnsControlled
       DEF StopGraceOver, Controlled
  <2>3. os' \in [Pid -> Slot]
    BY <1>15, DeadType DEF StopGraceOver, KillGroup, DataOK
  <2> QED BY <1>15, <2>1, <2>2, <2>3 DEF StopGraceOver, StepOK, DataOK, fileVars
<1>16. CASE StopGivesUp(c)
  <2>1. pc[c] \in Critical \cap Working
    BY <1>16, <1>l DEF StopGivesUp, Stopping
  <2>2. (~processGroupAlive(job[c].pid)) \in BOOLEAN
    OBVIOUS
  <2>3. Controlled(c)
    BY <1>16, <2>1, <2>2, StopReturnsControlled DEF StopGivesUp
  <2> QED BY <1>16, <2>1, <2>3, ControlOnly DEF StopGivesUp, StepOK
<1> QED BY <1>1, <1>2, <1>3, <1>4, <1>5, <1>6, <1>7, <1>8, <1>9, <1>10, <1>11,
           <1>12, <1>13, <1>14, <1>15, <1>16 DEF DestroyStep

\* executeDeploy.
LEMMA DeployStepOK ==
  ASSUME TypeInv, NEW c \in Cli, DeployStep(c) PROVE StepOK(c)
<1> USE DEF TypeInv
<1>0. job[c] \in Job
  BY DEF CtlOK
<1>l. /\ {"xpick", "stop"} \subseteq Label
      /\ Deploying \subseteq Label \cap Critical
      /\ Deploying \ {"resolve"} \subseteq Working
  BY DEF Label, Critical, Recovering, Destroying, Stopping, Deploying, Working
<1>1. CASE ResolveFails(c)
  <2>1. pc[c] \in Critical
    BY <1>1, <1>l DEF ResolveFails, Deploying
  <2> QED BY <1>1, <2>1, ControlOnly DEF ResolveFails, StepOK, Controlled
<1>2. CASE Resolved(c)
  <2>1. pc[c] \in Critical /\ "xpick" \in Label \ Working
    BY <1>2, <1>l DEF Resolved, Deploying, Working
  <2>2. Controlled(c)
    BY <1>2, <2>1, GoMoves DEF Resolved, Controlled
  <2> QED BY <1>2, <2>1, <2>2, ControlOnly DEF Resolved, StepOK
<1>3. CASE ClearTombstone(c)
  <2>1. pc[c] \in Critical \cap Working /\ "create" \in Label
    BY <1>3, <1>l DEF ClearTombstone, Deploying
  <2>2. Controlled(c)
    BY <1>3, <2>1, MemType, GoMoves DEF ClearTombstone, Controlled
  <2>3. db' \in [Id -> Row]
    BY <1>3, StoreTypes DEF ClearTombstone, DataOK
  <2> QED BY <1>3, <2>1, <2>2, <2>3, StoreOnly DEF ClearTombstone, StepOK
<1>4. CASE CreateDeployment(c)
  <2>1. pc[c] \in Critical \cap Working /\ "validate" \in Label
    BY <1>4, <1>l DEF CreateDeployment, Deploying
  <2>2. cur(c) \in Id
    BY <2>1, MemType
  <2>3. CASE CreateOK(cur(c))
    <3> DEFINE row == NewRow(deploys + 1, clock)
               j == [job[c] EXCEPT !.list[cur(c)] = row, !.made = TRUE]
    <3>1. row \in Row
      BY NewRowType DEF DataOK
    <3>2. [job[c].list EXCEPT ![cur(c)] = row] \in [Id -> Row]
      BY <1>0, <3>1 DEF Job
    <3>3. /\ j \in Job /\ j.op = job[c].op /\ j.target = job[c].target
          /\ j.cur \in Id
      BY <1>0, <2>2, <3>2 DEF Job, cur
    <3>4. Controlled(c)
      BY <1>4, <2>1, <2>3, <3>3, MoveMoves DEF CreateDeployment
    <3>5. db' \in [Id -> Row] /\ deploys' \in Nat
      BY <1>4, <2>3, StoreTypes DEF CreateDeployment, DataOK
    <3> QED BY <1>4, <2>1, <3>4, <3>5
            DEF CreateDeployment, StepOK, DataOK, fileVars
  <2>4. CASE ~CreateOK(cur(c))
    <3>1. UNCHANGED onlyCtl /\ Rejected(c)
      BY <1>4, <2>4 DEF CreateDeployment, onlyCtl, otherStore
    <3> QED BY <2>1, <3>1, RejectedControlled, ControlOnly DEF StepOK
  <2> QED BY <2>3, <2>4
<1>5. CASE StartValidating(c)
  <2>1. /\ pc[c] \in Critical \cap Working /\ "key" \in Label
        /\ "VALIDATING" \in Phase
    BY <1>5, <1>l DEF StartValidating, Deploying, Phase
  <2> QED BY <1>5, <2>1, AdvanceOK DEF StartValidating, StepOK
<1>6. CASE writeAPIKey(c)
  <2>1. pc[c] \in Critical \cap Working /\ "mkdir" \in Label
    BY <1>6, <1>l DEF writeAPIKey, Deploying
  <2>2. Controlled(c)
    BY <1>6, <2>1, MemType, GoMoves DEF writeAPIKey, Controlled
  <2> QED BY <1>6, <2>1, <2>2, MemType DEF writeAPIKey, StepOK, DataOK
<1>7. CASE MakeCacheDir(c)
  <2>1. pc[c] \in Critical \cap Working /\ "marker" \in Label
    BY <1>7, <1>l DEF MakeCacheDir, Deploying
  <2>2. Controlled(c)
    BY <1>7, <2>1, MemType, GoMoves DEF MakeCacheDir, Controlled
  <2>3. cache' \in [Id -> Cache]
    BY <1>7 DEF MakeCacheDir, DataOK, Cache
  <2> QED BY <1>7, <2>1, <2>2, <2>3 DEF MakeCacheDir, StepOK, DataOK
<1>8. CASE ClaimCache(c)
  <2>1. /\ pc[c] \in Critical \cap Working
        /\ "download" \in Label /\ "mwrite" \in Label
    BY <1>8, <1>l DEF ClaimCache, Deploying
  <2>2. ASSUME Go(c, "download") \/ Go(c, "mwrite") PROVE Controlled(c)
    BY <2>1, <2>2, MemType, GoMoves DEF Controlled
  <2>3. Controlled(c)
    BY <1>8, <2>2, RejectedControlled DEF ClaimCache
  <2>4. cache' \in [Id -> Cache]
    BY <1>8 DEF ClaimCache, DataOK, Cache, EmptyMarker
  <2> QED BY <1>8, <2>1, <2>3, <2>4 DEF ClaimCache, StepOK, DataOK
<1>9. CASE WriteMarker(c)
  <2>1. pc[c] \in Critical \cap Working /\ "download" \in Label
    BY <1>9, <1>l DEF WriteMarker, Deploying
  <2>2. Controlled(c)
    BY <1>9, <2>1, MemType, GoMoves DEF WriteMarker, Controlled
  <2>3. Mem(c).key \in Nat
    BY <2>1, MemType DEF Row
  <2>4. cache' \in [Id -> Cache]
    BY <1>9, <2>3 DEF WriteMarker, DataOK, Cache
  <2> QED BY <1>9, <2>1, <2>2, <2>4 DEF WriteMarker, StepOK, DataOK
<1>10. CASE StartDownloading(c)
  <2>1. /\ pc[c] \in Critical \cap Working /\ "intent" \in Label
        /\ "DOWNLOADING" \in Phase
    BY <1>10, <1>l DEF StartDownloading, Deploying, Phase
  <2> QED BY <1>10, <2>1, AdvanceOK DEF StartDownloading, StepOK
<1>11. CASE RecordIntent(c)
  <2>1. pc[c] \in Critical \cap Working /\ "starting" \in Label
    BY <1>11, <1>l DEF RecordIntent, Deploying
  <2>2. Controlled(c)
    BY <1>11, <2>1, MemType, GoMoves, RejectedControlled
       DEF RecordIntent, Controlled
  <2>3. db' \in [Id -> Row]
    BY <1>11, StoreTypes DEF RecordIntent, DataOK
  <2> QED BY <1>11, <2>1, <2>2, <2>3, StoreOnly DEF RecordIntent, StepOK
<1>12. CASE StartStarting(c)
  <2>1. /\ pc[c] \in Critical \cap Working /\ "launch" \in Label
        /\ "STARTING" \in Phase
    BY <1>12, <1>l DEF StartStarting, Deploying, Phase
  <2> QED BY <1>12, <2>1, AdvanceOK DEF StartStarting, StepOK
<1>13. CASE Launch(c)
  <2>1. pc[c] \in Critical \cap Working /\ "exec" \in Label
    BY <1>13, <1>l DEF Launch, Deploying
  <2>2. cur(c) \in Id /\ Mem(c).key \in Nat /\ clock + 1 \in Nat
    BY <2>1, MemType DEF Row, DataOK
  <2>3. PICK p \in Pid :
          /\ Fork(p, cur(c), Mem(c).key)
          /\ Move(c, "exec", [job[c] EXCEPT !.pid = p, !.tok = clock + 1])
    BY <1>13 DEF Launch
  <2> DEFINE j == [job[c] EXCEPT !.pid = p, !.tok = clock + 1]
  <2>4. /\ j \in Job /\ j.op = job[c].op /\ j.target = job[c].target
        /\ j.cur \in Id /\ j.pid \in Pid
    BY <1>0, <2>2 DEF Job, cur
  <2>5. Controlled(c)
    BY <2>1, <2>3, <2>4, MoveMoves
  <2>6. os' \in [Pid -> Slot] /\ clock' \in Nat
    BY <2>2, <2>3 DEF Fork, DataOK, Slot
  <2> QED BY <1>13, <2>1, <2>2, <2>5, <2>6 DEF Launch, StepOK, DataOK
<1>14. CASE LaunchFails(c)
  <2>1. pc[c] \in Critical \cap Working
    BY <1>14, <1>l DEF LaunchFails, Deploying
  <2>2. Controlled(c)
    BY <1>14, <2>1, FailControlled DEF LaunchFails
  <2>3. proxies' \subseteq Id
    BY <1>14, <2>1, MemType DEF LaunchFails, DataOK
  <2> QED BY <1>14, <2>1, <2>2, <2>3 DEF LaunchFails, StepOK, DataOK
<1>15. CASE IdentityCaptured(c)
  <2>1. pc[c] \in Critical \cap Working /\ "bind" \in Label
    BY <1>15, <1>l DEF IdentityCaptured, Deploying
  <2>2. Controlled(c)
    BY <1>15, <2>1, MemType, GoMoves DEF IdentityCaptured, Controlled
  <2> QED BY <1>15, <2>1, <2>2, ControlOnly DEF IdentityCaptured, StepOK
<1>16. CASE BindRuntime(c)
  <2>1. pc[c] \in Critical \cap Working /\ "health" \in Label
    BY <1>16, <1>l DEF BindRuntime, Deploying
  <2>2. Controlled(c)
    BY <1>16, <2>1, MemType, GoMoves, RejectedControlled
       DEF BindRuntime, Controlled
  <2>3. db' \in [Id -> Row]
    BY <1>0, <1>16, StoreTypes DEF BindRuntime, DataOK, Job
  <2> QED BY <1>16, <2>1, <2>2, <2>3, StoreOnly DEF BindRuntime, StepOK
<1>17. CASE BecomesHealthy(c)
  <2>1. pc[c] \in Critical \cap Working /\ "healthy" \in Label
    BY <1>17, <1>l DEF BecomesHealthy, Deploying
  <2>2. Controlled(c)
    BY <1>17, <2>1, MemType, GoMoves DEF BecomesHealthy, Controlled
  <2> QED BY <1>17, <2>1, <2>2, ControlOnly DEF BecomesHealthy, StepOK
<1>18. CASE BecomesReady(c)
  <2>1. pc[c] \in Critical \cap Working /\ "register" \in Label
    BY <1>18, <1>l DEF BecomesReady, Deploying
  <2>2. Controlled(c)
    BY <1>18, <2>1, MemType, GoMoves DEF BecomesReady, Controlled
  <2> QED BY <1>18, <2>1, <2>2, ControlOnly DEF BecomesReady, StepOK
<1>19. CASE ChecksFail(c)
  <2>1. pc[c] \in Critical \cap Working
    BY <1>19, <1>l DEF ChecksFail, Deploying
  <2> QED BY <1>19, <2>1, FailControlled, ControlOnly DEF ChecksFail, StepOK
<1>20. CASE RecordHealthy(c)
  <2>1. /\ pc[c] \in Critical \cap Working /\ "ready" \in Label
        /\ "HEALTHY" \in Phase
    BY <1>20, <1>l DEF RecordHealthy, Deploying, Phase
  <2> QED BY <1>20, <2>1, AdvanceOK DEF RecordHealthy, StepOK
<1>21. CASE StartRegistering(c)
  <2>1. /\ pc[c] \in Critical \cap Working /\ "unreg" \in Label
        /\ "REGISTERING" \in Phase
    BY <1>21, <1>l DEF StartRegistering, Deploying, Phase
  <2> QED BY <1>21, <2>1, AdvanceOK DEF StartRegistering, StepOK
<1>22. CASE FinishDeploy(c)
  <2>1. /\ pc[c] \in Critical \cap Working
        /\ "UNREGISTERED_HEALTHY" \in Phase
    BY <1>22, <1>l DEF FinishDeploy, Deploying, Phase
  <2>2. Controlled(c)
    BY <1>22, RejectedControlled DEF FinishDeploy, Controlled
  <2>3. db' \in [Id -> Row]
    BY <1>22, <2>1, StoreTypes DEF FinishDeploy, DataOK
  <2> QED BY <1>22, <2>1, <2>2, <2>3, StoreOnly DEF FinishDeploy, StepOK
<1>23. CASE RecordFailure(c)
  <2>1. pc[c] \in Critical \cap Working /\ "FAILED" \in Phase
    BY <1>23, <1>l DEF RecordFailure, Deploying, Phase
  <2>2. db' \in [Id -> Row]
    BY <1>23, <2>1, StoreTypes DEF RecordFailure, DataOK
  <2> QED BY <1>23, <2>1, <2>2, StoreOnly
          DEF RecordFailure, StepOK, Controlled
<1> QED BY <1>1, <1>2, <1>3, <1>4, <1>5, <1>6, <1>7, <1>8, <1>9, <1>10, <1>11,
           <1>12, <1>13, <1>14, <1>15, <1>16, <1>17, <1>18, <1>19, <1>20,
           <1>21, <1>22, <1>23 DEF DeployStep

-----------------------------------------------------------------------------
(* Faults and the environment.                                             *)

\* A fault either stops the command or is a step of a CLI like any other.
LEMMA FaultStepOK ==
  ASSUME TypeInv, NEW c \in Cli, FaultStep(c)
  PROVE  StepOK(c) \/ (Crash(c) /\ TypeInv')
<1> USE DEF TypeInv
<1>f. ASSUME NEW kind \in FaultKind, Fault(kind) PROVE faults' \in Nat
  BY <1>f DEF Fault, DataOK
<1>1. CASE Crash(c)
  <2>1. DataOK'
    BY <1>1 DEF Crash, Fault, DataOK, fileVars
  <2>2. LockLeft(c) \in Cli \cup Pid \cup {Nobody}
    BY DEF LockLeft, CtlOK, CurrentKnown, Known
  <2>3. pc' \in [Cli -> Label] /\ job' \in [Cli -> Job]
    BY <1>1, NoJobType DEF Crash, CtlOK, Label
  <2>4. CurrentKnown'
    BY <1>1 DEF Crash, CtlOK, CurrentKnown, Known, NoJob, Working
  <2> QED BY <1>1, <2>1, <2>2, <2>3, <2>4 DEF Crash, CtlOK
<1>2. CASE StoreFails(c)
  <2>1. pc[c] \in Critical
    BY <1>2 DEF StoreFails, Critical, Recovering, Destroying, Deploying
  <2>2. DataOK'
    BY <1>2 DEF StoreFails, Fault, DataOK, fileVars
  <2> QED BY <1>2, <2>1, <2>2, RejectedControlled DEF StoreFails, StepOK
<1>3. CASE DiskFails(c)
  <2>1. pc[c] \in Critical
    BY <1>3 DEF DiskFails, Critical, Destroying, Deploying
  <2>2. DataOK'
    BY <1>3 DEF DiskFails, Fault, DataOK, fileVars
  <2> QED BY <1>3, <2>1, <2>2, RejectedControlled DEF DiskFails, StepOK
<1>4. CASE StopFails(c)
  <2>1. pc[c] \in Critical \cap Working
    BY <1>4 DEF StopFails, Label, Critical, Stopping, Working
  <2>2. DataOK'
    BY <1>4 DEF StopFails, Fault, DataOK, fileVars
  <2> QED BY <1>4, <2>1, <2>2, StopReturnsControlled DEF StopFails, StepOK
<1>5. CASE ProbeFails(c)
  <2>1. pc[c] \in Critical
    BY <1>5 DEF ProbeFails, Critical, Recovering, Destroying
  <2>2. DataOK'
    BY <1>5 DEF ProbeFails, Fault, DataOK, fileVars
  <2> QED BY <1>5, <2>1, <2>2, RejectedControlled DEF ProbeFails, StepOK
<1>6. CASE CaptureFails(c)
  <2>1. /\ pc[c] \in Critical \cap Working
        /\ "ffail" \in Label \ {"exec"}
    BY <1>6 DEF CaptureFails, Label, Critical, Deploying, Working
  <2>2. Controlled(c)
    BY <1>6, <2>1, MemType, DropMoves DEF CaptureFails, Controlled
  <2>3. os' \in [Pid -> Slot]
    BY <1>6, DeadType, FreeSlotType
       DEF CaptureFails, KillGroupAndWait, DataOK
  <2>4. DataOK'
    BY <1>6, <2>3 DEF CaptureFails, Fault, DataOK, fileVars
  <2> QED BY <2>1, <2>2, <2>4 DEF StepOK
<1>7. CASE ReapedWhileProbed(c)
  <2>1. pc[c] \in Critical
    BY <1>7 DEF ReapedWhileProbed, Critical, Recovering, Destroying
  <2>2. DataOK'
    BY <1>7, FreeSlotType DEF ReapedWhileProbed, Reaped, DataOK, fileVars
  <2> QED BY <1>7, <2>1, <2>2, RejectedControlled
          DEF ReapedWhileProbed, StepOK
<1> QED BY <1>1, <1>2, <1>3, <1>4, <1>5, <1>6, <1>7 DEF FaultStep

\* What the death or exec of process p does to the control variables.
Released(p) ==
  /\ UNCHANGED <<pc, job>>
  /\ lock' = lock \/ (lock = p /\ lock' = Nobody)

\* Processes release the lock's descriptor, or wake the CLI that waits for
\* their exec, and leave everything typed.
LEMMA ProcessStepOK ==
  ASSUME TypeInv, NEW p \in Pid, ProcessStep(p)
  PROVE  (Released(p) /\ DataOK') \/ \E c \in Cli : StepOK(c)
<1> USE DEF TypeInv
<1>0. os \in [Pid -> Slot] /\ os[p] \in Slot /\ clock + 1 \in Nat
  BY DEF DataOK
<1>1. CASE ChildExecs(p)
  <2>1. os' \in [Pid -> Slot]
    BY <1>0, <1>1 DEF ChildExecs, Slot
  <2> QED BY <1>1, <2>1 DEF ChildExecs, Released, DataOK, fileVars
<1>2. CASE ChildExecFails(p)
  <2>1. DataOK'
    BY <1>2, FreeSlotType DEF ChildExecFails, DataOK, fileVars
  <2> DEFINE waiting == {c \in Cli : pc[c] = "exec" /\ job[c].pid = p}
  <2>2. CASE waiting = {}
    BY <1>2, <2>1, <2>2 DEF ChildExecFails, Released
  <2>3. CASE waiting # {}
    <3>1. PICK c \in waiting :
            Move(c, "ffail", [job[c] EXCEPT !.pid = NoPid, !.tok = 0])
      BY <1>2, <2>3 DEF ChildExecFails
    <3>2. /\ pc[c] \in Critical \cap Working
          /\ "ffail" \in Label \ {"exec"}
      BY DEF Label, Critical, Deploying, Working
    <3>3. Controlled(c)
      BY <3>1, <3>2, MemType, DropMoves DEF Controlled
    <3> QED BY <2>1, <3>2, <3>3 DEF StepOK
  <2> QED BY <2>2, <2>3
<1>3. CASE RuntimeExits(p)
  <2>1. os' \in [Pid -> Slot]
    BY <1>0, <1>3, DeadType DEF RuntimeExits, ProcessExits
  <2> QED BY <1>3, <2>1 DEF RuntimeExits, ProcessExits, Released, DataOK,
                            fileVars, ctlVars
<1>4. CASE RuntimeReaped(p)
  <2>1. os' \in [Pid -> Slot]
    BY <1>0, <1>4, FreeSlotType DEF RuntimeReaped, Reaped
  <2> QED BY <1>4, <2>1 DEF RuntimeReaped, Reaped, Released, DataOK,
                            fileVars, ctlVars
<1>5. CASE RuntimeForks(p)
  <2>1. PICK q \in Pid :
          os' = [os EXCEPT ![q] = [os[p] EXCEPT !.shows = (Workers = "same"),
                                                !.tok = clock + 1]]
    BY <1>5 DEF RuntimeForks, ForkWorker
  <2>2. [os[p] EXCEPT !.shows = (Workers = "same"), !.tok = clock + 1] \in Slot
    BY <1>0 DEF Slot
  <2>3. os' \in [Pid -> Slot]
    BY <1>0, <2>1, <2>2
  <2> QED BY <1>0, <1>5, <2>3 DEF RuntimeForks, ForkWorker, Released, DataOK,
                                  fileVars, ctlVars
<1>6. CASE OthersStart(p)
  <2>1. PICK g \in {p, NoPid} :
          os' = [os EXCEPT ![p] = [FreeSlot EXCEPT !.st = "live", !.pgid = g,
                                                   !.tok = clock + 1]]
    BY <1>6 DEF OthersStart, StrangerStarts
  <2>2. [FreeSlot EXCEPT !.st = "live", !.pgid = g, !.tok = clock + 1] \in Slot
    BY <1>0, FreeSlotType DEF Slot
  <2>3. os' \in [Pid -> Slot]
    BY <1>0, <2>1, <2>2
  <2> QED BY <1>0, <1>6, <2>3 DEF OthersStart, StrangerStarts, Released,
                                  DataOK, fileVars, ctlVars
<1>7. CASE RuntimeDownloads(p)
  <2>1. cache' = [cache EXCEPT ![os[p].id].dir = TRUE,
                               ![os[p].id].data = "model"]
    BY <1>7 DEF RuntimeDownloads, RuntimeWrites
  <2>2. cache \in [Id -> Cache]
    BY DEF DataOK
  <2>3. [cache EXCEPT ![os[p].id].dir = TRUE] \in [Id -> Cache]
    BY <2>2 DEF Cache
  <2>4. cache' \in [Id -> Cache]
    BY <2>1, <2>3 DEF Cache
  <2> QED BY <1>7, <2>4 DEF RuntimeDownloads, RuntimeWrites, Released, DataOK,
                            ctlVars
<1> QED BY <1>1, <1>2, <1>3, <1>4, <1>5, <1>6, <1>7 DEF ProcessStep

\* Invoking a command, waiting for the lock and giving up on it.
LEMMA WaitingOK ==
  ASSUME TypeInv, NEW c \in Cli,
         Invocation(c) \/ Acquire(c) \/ StatusBusy(c)
  PROVE  TypeInv'
<1> USE DEF TypeInv
<1>1. CASE Invocation(c)
  <2>1. PICK op \in Op \ {"none"}, flag \in BOOLEAN, i \in Id \cup {NoId} :
          Invoke(c, op, flag, i)
    BY <1>1 DEF Invocation
  <2> DEFINE j == [NoJob EXCEPT !.op = op, !.flag = flag, !.target = i]
  <2>2. j \in Job /\ j.op = op /\ j.target = i
    BY NoJobType DEF Job
  <2>3. "wait" \in Label \ (Working \cup {"exec"})
    BY DEF Label, Working
  <2>4. Known("wait", j)
    BY <2>1, <2>2, <2>3 DEF Known, Invoke
  <2>5. Controlled(c)
    BY <2>1, <2>2, <2>3, <2>4 DEF Invoke, Controlled, Moves
  <2> QED BY <2>1, <2>5, ControlKeeps, ControlOnly DEF Invoke
<1>2. CASE Acquire(c)
  <2>1. "rlist" \in Label \ (Working \cup {"exec"})
    BY DEF Label, Critical, Recovering, Working
  <2>2. CurrentKnown'
    BY <1>2, <2>1 DEF Acquire, CtlOK, CurrentKnown, Known
  <2> QED BY <1>2, <2>1, <2>2, ControlOnly DEF Acquire, CtlOK
<1>3. CASE StatusBusy(c)
  <2>1. "idle" \in Label \ (Working \cup {"exec"})
    BY DEF Label, Working
  <2>2. Known("idle", NoJob)
    BY <2>1 DEF Known, NoJob
  <2>3. Controlled(c)
    BY <1>3, <2>1, <2>2, NoJobType DEF StatusBusy, Controlled, Moves
  <2> QED BY <1>3, <2>3, ControlKeeps, ControlOnly DEF StatusBusy
<1> QED BY <1>1, <1>2, <1>3

-----------------------------------------------------------------------------
(* Theorems.                                                               *)

\* Every step of Lifecycle is one of five kinds.
LEMMA NextKinds ==
  ASSUME TypeInv, Next
  PROVE  \/ \E c \in Cli : StepOK(c)
         \/ \E c \in Cli : Crash(c) /\ TypeInv'
         \/ \E c \in Cli : /\ Invocation(c) \/ Acquire(c) \/ StatusBusy(c)
                           /\ TypeInv'
         \/ \E p \in Pid : Released(p) /\ DataOK'
         \/ UNCHANGED ctlVars /\ DataOK'
<1>1. CASE \E c \in Cli : Invocation(c) \/ CliStep(c) \/ FaultStep(c)
  <2> PICK c \in Cli : Invocation(c) \/ CliStep(c) \/ FaultStep(c)
    BY <1>1
  <2>1. CASE Invocation(c) \/ Acquire(c) \/ StatusBusy(c)
    BY <2>1, WaitingOK
  <2>2. CASE RecoveryStep(c) \/ DestroyStep(c) \/ DeployStep(c)
    BY <2>2, RecoveryStepOK, DestroyStepOK, DeployStepOK
  <2>3. CASE FaultStep(c)
    BY <2>3, FaultStepOK
  <2> QED BY <2>1, <2>2, <2>3 DEF CliStep
<1>2. CASE \E p \in Pid : ProcessStep(p)
  BY <1>2, ProcessStepOK
<1>3. CASE \E i \in Id : ProxyRuns(i)
  <2>1. DataOK'
    BY <1>3 DEF ProxyRuns, ProxyOpensLog, TypeInv, DataOK
  <2> QED BY <1>3, <2>1 DEF ProxyRuns, ctlVars
<1> QED BY <1>1, <1>2, <1>3 DEF Next

\* The initial states are typed.
LEMMA InitTyped == Init => TypeInv
<1> SUFFICES ASSUME Init PROVE TypeInv
  OBVIOUS
<1>1. db \in [Id -> Row]
  BY NoRowType DEF Init, StoreInit
<1>2. os \in [Pid -> Slot] /\ clock \in Nat
  <2>1. PICK i \in Id :
          os = [p \in Pid |->
                  IF p \in Strangers
                  THEN [FreeSlot EXCEPT !.st = "live", !.id = i,
                                        !.shows = TRUE, !.pgid = p]
                  ELSE FreeSlot]
    BY DEF Init, ProcessesInit
  <2>2. \A p \in Pid : [FreeSlot EXCEPT !.st = "live", !.id = i,
                                        !.shows = TRUE, !.pgid = p] \in Slot
    BY FreeSlotType DEF Slot
  <2> QED BY <2>1, <2>2, FreeSlotType DEF Init, ProcessesInit
<1>3. /\ keys \subseteq Id /\ logs \subseteq Id /\ proxies \subseteq Id
      /\ cache \in [Id -> Cache]
  BY CacheTypes DEF Init, FilesInit
<1>4. /\ lock \in Cli \cup Pid \cup {Nobody}
      /\ pc \in [Cli -> Label] /\ job \in [Cli -> Job]
  BY NoJobType DEF Init, Label
<1>5. CurrentKnown
  BY DEF Init, CurrentKnown, Known, Working, NoJob
<1> QED BY <1>1, <1>2, <1>3, <1>4, <1>5 DEF Init, TypeInv, DataOK, CtlOK

\* The strengthened type invariant is inductive.
LEMMA TypeStep == TypeInv /\ [Next]_vars => TypeInv'
<1> SUFFICES ASSUME TypeInv, [Next]_vars PROVE TypeInv'
  OBVIOUS
<1>1. CASE Next
  <2>1. ASSUME NEW c \in Cli, StepOK(c) PROVE TypeInv'
    BY <2>1, ControlKeeps DEF StepOK, TypeInv
  <2>2. ASSUME NEW p \in Pid, Released(p), DataOK' PROVE TypeInv'
    BY <2>2 DEF Released, TypeInv, CtlOK, CurrentKnown
  <2>3. ASSUME UNCHANGED ctlVars, DataOK' PROVE TypeInv'
    BY <2>3 DEF ctlVars, TypeInv, CtlOK, CurrentKnown
  <2> QED BY <1>1, <2>1, <2>2, <2>3, NextKinds
<1>2. CASE UNCHANGED vars
  BY <1>2 DEF vars, fileVars, ctlVars, TypeInv, DataOK, CtlOK, CurrentKnown
<1> QED BY <1>1, <1>2

\* Every variable keeps its type, however many CLIs, deployments and
\* processes there are and whatever faults strike.
THEOREM TypeCorrect == Spec => []TypeOK
<1>1. TypeInv => TypeOK
  BY DEF TypeInv, DataOK, CtlOK, TypeOK
<1> QED BY <1>1, InitTyped, TypeStep, PTL DEF Spec

\* A step keeps the critical commands excluded from each other.
LEMMA ExclusionStep ==
  TypeInv /\ MutualExclusion /\ [Next]_vars => MutualExclusion'
<1> SUFFICES ASSUME TypeInv, MutualExclusion, [Next]_vars,
                    NEW d \in Cli, pc'[d] \in Critical
             PROVE  lock' = d
  BY DEF MutualExclusion
<1>t. /\ lock \in Cli \cup Pid \cup {Nobody} /\ pc \in [Cli -> Label]
      /\ Nobody \notin Cli /\ Cli \cap Pid = {}
  BY CommandAssumption DEF TypeInv, CtlOK
<1>i. "idle" \notin Critical /\ "wait" \notin Critical
  BY DEF Critical, Recovering, Destroying, Stopping, Deploying
<1>1. ASSUME NEW c \in Cli, StepOK(c) PROVE lock' = d
  <2>1. lock = c
    BY <1>1 DEF StepOK, MutualExclusion
  <2>2. CASE Return(c)
    BY <1>t, <1>i, <2>1, <2>2 DEF Return, MutualExclusion
  <2>3. CASE Moves(c)
    BY <1>t, <2>1, <2>3 DEF Moves, Move, MutualExclusion
  <2> QED BY <1>1, <2>2, <2>3 DEF StepOK, Controlled
<1>2. ASSUME NEW c \in Cli, Crash(c) PROVE lock' = d
  <2>1. d # c /\ pc[d] \in Critical
    BY <1>t, <1>i, <1>2 DEF Crash
  <2>2. lock = d
    BY <2>1 DEF MutualExclusion
  <2> QED BY <1>2, <2>1, <2>2 DEF Crash, LockLeft
<1>3. ASSUME NEW c \in Cli, Acquire(c) PROVE lock' = d
  BY <1>t, <1>3 DEF Acquire, LockFree, MutualExclusion
<1>4. ASSUME NEW c \in Cli, Invocation(c) \/ StatusBusy(c) PROVE lock' = d
  BY <1>t, <1>i, <1>4
     DEF Invocation, Invoke, StatusBusy, Move, MutualExclusion
<1>5. ASSUME NEW p \in Pid, Released(p) PROVE lock' = d
  BY <1>t, <1>5 DEF Released, MutualExclusion
<1>6. ASSUME UNCHANGED ctlVars PROVE lock' = d
  BY <1>6 DEF ctlVars, MutualExclusion
<1>7. CASE Next
  BY <1>1, <1>2, <1>3, <1>4, <1>5, <1>6, <1>7, NextKinds
<1>8. CASE UNCHANGED vars
  BY <1>6, <1>8 DEF vars, ctlVars
<1> QED BY <1>7, <1>8

\* The operation lock (operationlock.Acquire and the close-on-exec flag of its
\* descriptor) excludes lifecycle operations from each other, whichever CLI
\* is killed at whichever point, the window between fork and exec included.
THEOREM Exclusion == Spec => []MutualExclusion
<1>1. Init => MutualExclusion
  BY DEF Init, MutualExclusion, Critical, Recovering, Destroying, Stopping,
         Deploying
<1> QED BY <1>1, InitTyped, TypeStep, ExclusionStep, PTL DEF Spec

\* The runtimes of two deployments never share the GPU: whoever keeps one active
\* record, and the record of each running process, has one runtime at most.
THEOREM RuntimesDoNotOverlap ==
  OneActive /\ NothingDroppedWhileRunning => OneRuntime
<1> SUFFICES ASSUME OneActive, NothingDroppedWhileRunning,
                    NEW p \in Pid, NEW q \in Pid, Running(p), Running(q)
             PROVE  os[p].key = os[q].key
  BY DEF OneRuntime
<1>1. /\ os[p].id \in Active /\ db[os[p].id].key = os[p].key
      /\ os[q].id \in Active /\ db[os[q].id].key = os[q].key
  BY DEF NothingDroppedWhileRunning
<1>2. os[p].id = os[q].id
  BY <1>1 DEF OneActive
<1> QED BY <1>1, <1>2

-----------------------------------------------------------------------------
(* What a command remembers: the rows it works on in memory are those of   *)
(* the table, whatever else runs, until it gives up the lock.              *)

\* The phases of a row that is not in use.
Gone == {Absent, "DESTROYED"}

\* The phases of a deploy that has neither succeeded nor failed.
Underway == {"REQUESTED", "VALIDATING", "DOWNLOADING", "STARTING", "HEALTHY",
             "REGISTERING"}

\* What recovery leaves of a row.
SettledRow(r) == \/ r.phase \in Settled
                 \/ r.phase \notin BeforeRuntime /\ r.pid # NoPid

\* The labels at which the new deployment exists.
Making == Deploying \ {"resolve", "tomb", "create"}

\* The phase of the current row at each label.
Expecting(l, made, ph) ==
  /\ l \in {"rscan", "radopt", "launch", "exec", "bind", "health", "healthy"}
       => ph = "STARTING"
  /\ l \in {"rprobe", "rcrash"} => ph \in Phase \ Settled
  /\ l = "xfail" => ph \in {"HEALTHY", "REGISTERING"}
  /\ l = "xbegin" => ph \in {"READY", "FAILED", "CRASHED",
                             "UNREGISTERED_HEALTHY"}
  /\ l \in {"xprobe", "xcache", "xlog", "xkey", "xrm", "xdone"}
       => ph = "DESTROYING"
  /\ l = "xpurge" => ph = "DESTROYED"
  /\ l \in Stopping => IF made THEN ph \in Underway ELSE ph = "DESTROYING"
  /\ l = "tomb" => ph \in Gone
  /\ l = "create" => ph = Absent
  /\ l = "validate" => ph = "REQUESTED"
  /\ l \in {"key", "mkdir", "marker", "mwrite", "download"}
       => ph = "VALIDATING"
  /\ l \in {"intent", "starting"} => ph = "DOWNLOADING"
  /\ l \in {"ready", "register"} => ph = "HEALTHY"
  /\ l = "unreg" => ph = "REGISTERING"
  /\ l = "ffail" => ph \in Underway

\* The rows still to be worked on are as they were read.
Fresh(l, j, t) ==
  l # "rlist" => \A i \in j.todo : j.list[i] = t[i] /\ t[i].phase # Absent

\* Recovery settles the rows one by one.
Sweeps(l, j, t) ==
  /\ l \in Recovering \ {"rlist"} =>
       /\ \A i \in j.todo : t[i].phase \notin Settled
       /\ \A i \in Id \ j.todo : SettledRow(t[i]) \/ (l # "rpick" /\ i = j.cur)
  /\ l = "work" => \A i \in Id : SettledRow(t[i])
  /\ l \notin Recovering => \A i \in j.todo : SettledRow(t[i])

\* The current row is in the phase of its label, and the copy in memory agrees
\* with it on what the command goes by.
Current(l, j, t) ==
  l \in Working =>
    /\ j.cur \notin j.todo
    /\ Expecting(l, j.made, t[j.cur].phase)
    /\ l \notin {"tomb", "create"} =>
         /\ j.list[j.cur].phase = t[j.cur].phase
         /\ j.list[j.cur].key = t[j.cur].key
    /\ l \notin {"tomb", "create"} /\ ~j.made =>
         /\ j.list[j.cur].pid = t[j.cur].pid
         /\ j.list[j.cur].tok = t[j.cur].tok
    /\ l = "rscan" => j.list[j.cur] = t[j.cur]
    /\ l \in {"rscan", "radopt", "starting", "launch", "exec", "bind"}
         => t[j.cur].pid = NoPid
    /\ l \in {"starting", "launch", "exec", "bind"} => t[j.cur].intent
    /\ l = "radopt" => j.pid # NoPid
    /\ l = "rprobe" => t[j.cur].pid # NoPid

\* A command knows whether it has created its deployment.
MadeAt(l, j) ==
  /\ l \in Making => j.made
  /\ l \notin Making \cup Stopping => ~j.made

\* Every active row is a target of deploy --replace until it is destroyed, so
\* that none is left when the new deployment is created.
Clears(l, j, t) ==
  /\ l \in {"tomb", "create"} => \A i \in Id : t[i].phase \in Gone
  /\ /\ j.op = "deploy" /\ ~j.made
     /\ l \in Destroying \cup Stopping \cup {"resolve"}
     => \A i \in Id : \/ t[i].phase \in Gone
                      \/ i \in j.todo
                      \/ l \in Working /\ i = j.cur

Facts(l, j, t) ==
  /\ Fresh(l, j, t) /\ Sweeps(l, j, t) /\ Current(l, j, t)
  /\ MadeAt(l, j) /\ Clears(l, j, t)

\* Who holds the lock goes by facts; the others have created nothing.
Agreement ==
  \A c \in Cli : IF pc[c] \in Critical THEN Facts(pc[c], job[c], db)
                                       ELSE ~job[c].made

\* A step that a command takes on its own deployment, or its end.
Agrees(c) ==
  /\ OneActive'
  /\ \/ Return(c)
     \/ \E l \in Critical, j \in Job : Move(c, l, j) /\ Facts(l, j, db')

\* What the proofs below start from.
AgreeInv == TypeInv /\ OneActive /\ Agreement

-----------------------------------------------------------------------------
(* Steps that leave the table alone.                                       *)

\* A command inside an operation has typed locals, and goes by facts.
LEMMA Here ==
  ASSUME AgreeInv, NEW c \in Cli, pc[c] \in Critical
  PROVE  /\ job[c] \in Job /\ db \in [Id -> Row]
         /\ Facts(pc[c], job[c], db)
         /\ pc[c] \in Working => cur(c) \in Id
BY DEF AgreeInv, TypeInv, DataOK, CtlOK, CurrentKnown, Known, Agreement, cur

\* A move to a label whose facts hold.
LEMMA MoveAgrees ==
  ASSUME AgreeInv, NEW c \in Cli, UNCHANGED db, NEW l \in Critical,
         NEW j \in Job, Move(c, l, j), Facts(l, j, db)
  PROVE  Agrees(c)
BY DEF AgreeInv, Agrees, OneActive, Active

\* The same with the locals as they are.
LEMMA GoAgrees ==
  ASSUME AgreeInv, NEW c \in Cli, pc[c] \in Critical, UNCHANGED db,
         NEW l \in Critical, Go(c, l), Facts(l, job[c], db)
  PROVE  Agrees(c)
BY Here, MoveAgrees DEF Go

\* The end of a command.
LEMMA ReturnAgrees ==
  ASSUME AgreeInv, NEW c \in Cli, UNCHANGED db, Return(c)
  PROVE  Agrees(c)
BY DEF AgreeInv, Agrees, OneActive, Active

\* A target that cannot be destroyed ends deploy --replace.
LEMMA TargetFailsAgrees ==
  ASSUME AgreeInv, NEW c \in Cli, pc[c] \in Destroying \cup Stopping,
         ~job[c].made, UNCHANGED db, TargetFails(c)
  PROVE  Agrees(c)
<1>1. CASE job[c].op = "deploy"
  BY <1>1, ReturnAgrees DEF TargetFails
<1>2. CASE job[c].op # "deploy"
  <2> DEFINE j == [job[c] EXCEPT !.pid = NoPid, !.tok = 0]
  <2>1. pc[c] \in Critical /\ "xpick" \in Critical
    BY DEF Critical, Destroying
  <2>2. job[c] \in Job /\ Facts(pc[c], job[c], db)
    BY <2>1, Here
  <2>3. /\ j \in Job /\ j.list = job[c].list /\ j.todo = job[c].todo
        /\ j.cur = job[c].cur /\ j.op = job[c].op /\ j.made = job[c].made
    BY <2>2 DEF Job
  <2>4. Facts("xpick", j, db)
    BY <1>2, <2>2, <2>3
       DEF Facts, Fresh, Sweeps, Current, MadeAt, Clears, Working, Making,
           Label, Critical, Recovering, Destroying, Stopping, Deploying
  <2>5. Move(c, "xpick", j)
    BY <1>2 DEF TargetFails
  <2> QED BY <2>1, <2>3, <2>4, <2>5, MoveAgrees
<1> QED BY <1>1, <1>2

\* The labels from which executeDeploy fails.
Failing == {"key", "mkdir", "marker", "mwrite", "intent", "starting", "launch",
            "bind", "health", "healthy", "ready", "register", "unreg"}

\* A deployment that fails has been created and is under way.
LEMMA FailAgrees ==
  ASSUME AgreeInv, NEW c \in Cli, pc[c] \in Failing, UNCHANGED db, Fail(c)
  PROVE  Agrees(c)
<1>1. pc[c] \in Critical /\ {"ffail", "stop"} \subseteq Critical
  BY DEF Failing, Critical, Deploying, Stopping
<1>2. job[c] \in Job /\ Facts(pc[c], job[c], db)
  BY <1>1, Here
<1>3. ASSUME NEW l \in {"ffail", "stop"} PROVE Facts(l, job[c], db)
  BY <1>2, <1>3
     DEF Facts, Fresh, Sweeps, Current, Expecting, MadeAt, Clears, Working,
         Making, Failing, Underway, Label, Critical, Recovering, Destroying,
         Stopping, Deploying
<1> QED BY <1>1, <1>3, GoAgrees DEF Fail

\* An error of a statement or of a file operation.
LEMMA RejectedAgrees ==
  ASSUME AgreeInv, NEW c \in Cli, pc[c] \in Critical, UNCHANGED db,
         Rejected(c)
  PROVE  Agrees(c)
<1>1. CASE pc[c] \in Destroying
  <2>1. ~job[c].made
    BY <1>1, Here DEF Facts, MadeAt, Making, Destroying, Stopping, Deploying
  <2> QED BY <1>1, <2>1, TargetFailsAgrees DEF Rejected
<1>2. CASE pc[c] \notin Destroying
  BY <1>2, FailAgrees, ReturnAgrees DEF Rejected, Failing
<1> QED BY <1>1, <1>2

\* supervisor.Stop returning to destroyOne or to a failing deploy.
LEMMA StopReturnsAgrees ==
  ASSUME AgreeInv, NEW c \in Cli, pc[c] \in Stopping, UNCHANGED db,
         NEW ok \in BOOLEAN, StopReturns(c, ok)
  PROVE  Agrees(c)
<1> DEFINE j == [job[c] EXCEPT !.pid = NoPid, !.tok = 0]
<1>1. pc[c] \in Critical /\ {"ffail", "xcache"} \subseteq Critical
  BY DEF Critical, Destroying, Stopping, Deploying
<1>2. job[c] \in Job /\ Facts(pc[c], job[c], db)
  BY <1>1, Here
<1>3. /\ j \in Job /\ j.list = job[c].list /\ j.todo = job[c].todo
      /\ j.cur = job[c].cur /\ j.op = job[c].op /\ j.made = job[c].made
  BY <1>2 DEF Job
<1>4. CASE job[c].made
  <2>1. Facts("ffail", j, db)
    BY <1>2, <1>3, <1>4
       DEF Facts, Fresh, Sweeps, Current, Expecting, MadeAt, Clears, Working,
           Making, Label, Critical, Recovering, Destroying, Stopping,
           Deploying
  <2> QED BY <1>1, <1>3, <1>4, <2>1, MoveAgrees DEF StopReturns
<1>5. CASE ~job[c].made /\ ok
  <2>1. Facts("xcache", j, db)
    BY <1>2, <1>3, <1>5
       DEF Facts, Fresh, Sweeps, Current, Expecting, MadeAt, Clears, Working,
           Making, Label, Critical, Recovering, Destroying, Stopping,
           Deploying
  <2> QED BY <1>1, <1>3, <1>5, <2>1, MoveAgrees DEF StopReturns
<1>6. CASE ~job[c].made /\ ~ok
  BY <1>6, TargetFailsAgrees DEF StopReturns
<1> QED BY <1>4, <1>5, <1>6

-----------------------------------------------------------------------------
(* Statements of the store.                                                *)

\* The edge that each label asks for is in the table of the state machine.
LEMMA AttemptsLegal ==
  ASSUME NEW l \in DOMAIN Attempt, NEW made \in BOOLEAN, NEW ph \in Phase,
         Expecting(l, made, ph)
  PROVE  checkTransition(ph, Attempt[l])
<1>1. CASE l \in {"rcrash", "xfail", "ffail"}
  BY <1>1 DEF Attempt, Expecting, checkTransition, CanTransition, Phase,
              Underway, Settled
<1>2. CASE l \in {"xbegin", "xdone"}
  BY <1>2 DEF Attempt, Expecting, checkTransition, CanTransition, transitions,
              Phase
<1>3. CASE l \in {"validate", "download", "starting"}
  BY <1>3 DEF Attempt, Expecting, checkTransition, CanTransition, transitions,
              Phase
<1>4. CASE l \in {"healthy", "register", "unreg"}
  BY <1>4 DEF Attempt, Expecting, checkTransition, CanTransition, transitions,
              Phase
<1> QED BY <1>1, <1>2, <1>3, <1>4 DEF Attempt

\* Whoever goes by facts is not refused by the store.
LEMMA FactsAccepted ==
  ASSUME AgreeInv PROVE StoreNeverRefuses
<1> SUFFICES ASSUME NEW c \in Cli
             PROVE  /\ pc[c] \in DOMAIN Attempt
                         => TransitionOK(cur(c), Mem(c).phase, Attempt[pc[c]])
                    /\ pc[c] = "create" => CreateOK(cur(c))
                    /\ pc[c] = "intent" => SetRuntimeIntentOK(cur(c))
                    /\ pc[c] \in {"radopt", "bind"} => SetRuntimeOK(cur(c))
                    /\ pc[c] = "xpurge" => DeleteOK(cur(c))
  BY DEF StoreNeverRefuses
<1>1. ASSUME pc[c] \in DOMAIN Attempt
      PROVE  TransitionOK(cur(c), Mem(c).phase, Attempt[pc[c]])
  <2>1. pc[c] \in (Critical \cap Working) \ {"tomb", "create"}
    BY <1>1 DEF Attempt, Critical, Label, Working, Recovering, Destroying,
                Deploying
  <2>2. /\ job[c] \in Job /\ db \in [Id -> Row] /\ cur(c) \in Id
        /\ Current(pc[c], job[c], db)
    BY <2>1, Here DEF Facts
  <2>3. /\ Expecting(pc[c], job[c].made, db[cur(c)].phase)
        /\ Mem(c).phase = db[cur(c)].phase
    BY <2>1, <2>2 DEF Current, Mem, cur
  <2>4. db[cur(c)].phase \in Phase
    BY <1>1, <2>2, <2>3 DEF Attempt, Expecting, Row, Phase, Underway
  <2>5. job[c].made \in BOOLEAN
    BY <2>2 DEF Job
  <2>6. checkTransition(db[cur(c)].phase, Attempt[pc[c]])
    BY <1>1, <2>3, <2>4, <2>5, AttemptsLegal
  <2> QED BY <2>3, <2>6 DEF TransitionOK
<1>2. ASSUME pc[c] \in {"create", "intent", "radopt", "bind", "xpurge"}
      PROVE  /\ pc[c] = "create" => CreateOK(cur(c))
             /\ pc[c] = "intent" => SetRuntimeIntentOK(cur(c))
             /\ pc[c] \in {"radopt", "bind"} => SetRuntimeOK(cur(c))
             /\ pc[c] = "xpurge" => DeleteOK(cur(c))
  <2>1. pc[c] \in Critical \cap Working
    BY <1>2 DEF Critical, Label, Working, Recovering, Destroying, Deploying
  <2>2. Current(pc[c], job[c], db)
    BY <2>1, Here DEF Facts
  <2> QED BY <1>2, <2>1, <2>2
          DEF Current, Expecting, cur, CreateOK, SetRuntimeIntentOK,
              SetRuntimeOK, DeleteOK
<1> QED BY <1>1, <1>2

\* How a compare-and-set changes the locals from k to j and the table from s to t.
Advanced(k, j, s, t, to) ==
  /\ j.op = k.op /\ j.todo = k.todo /\ j.cur = k.cur /\ j.made = k.made
  /\ j.pid = k.pid /\ j.tok = k.tok
  /\ \A i \in Id \ {k.cur} : j.list[i] = k.list[i] /\ t[i] = s[i]
  /\ j.list[k.cur].phase = to /\ t[k.cur].phase = to
  /\ j.list[k.cur].key = k.list[k.cur].key /\ t[k.cur].key = s[k.cur].key
  /\ j.list[k.cur].pid = k.list[k.cur].pid /\ t[k.cur].pid = s[k.cur].pid
  /\ j.list[k.cur].tok = k.list[k.cur].tok /\ t[k.cur].tok = s[k.cur].tok
  /\ t[k.cur].intent = s[k.cur].intent

\* A compare-and-set from an active phase.
LEMMA AdvanceAgrees ==
  ASSUME AgreeInv, NEW c \in Cli, pc[c] \in Critical \cap Working,
         pc[c] \in DOMAIN Attempt, NEW next \in Critical,
         Advance(c, Attempt[pc[c]], next),
         db[cur(c)].phase \notin Gone,
         \A j \in Job, t \in [Id -> Row] :
           Advanced(job[c], j, db, t, Attempt[pc[c]]) => Facts(next, j, t)
  PROVE  Agrees(c)
<1> DEFINE to == Attempt[pc[c]]
           j == [job[c] EXCEPT !.list[cur(c)].phase = to]
<1>1. job[c] \in Job /\ db \in [Id -> Row] /\ cur(c) \in Id /\ clock \in Nat
  BY Here DEF AgreeInv, TypeInv, DataOK
<1>2. to \in Phase
  BY DEF Attempt, Phase
<1>3. Move(c, next, j) /\ Transition(cur(c), to, clock)
  BY FactsAccepted DEF StoreNeverRefuses, Advance
<1>4. j \in Job /\ db' \in [Id -> Row]
  BY <1>1, <1>2, <1>3, ListTypes, StoreTypes
<1>5. Advanced(job[c], j, db, db', to)
  <2>1. /\ j.op = job[c].op /\ j.todo = job[c].todo /\ j.cur = job[c].cur
        /\ j.made = job[c].made /\ j.pid = job[c].pid /\ j.tok = job[c].tok
        /\ j.list = [job[c].list EXCEPT ![cur(c)].phase = to]
    BY <1>1 DEF Job
  <2>2. job[c].list \in [Id -> Row]
    BY <1>1 DEF Job
  <2>3. /\ \A i \in Id \ {cur(c)} : j.list[i] = job[c].list[i]
        /\ j.list[cur(c)] = [job[c].list[cur(c)] EXCEPT !.phase = to]
    BY <1>1, <2>1, <2>2
  <2>4. /\ \A i \in Id \ {cur(c)} : db'[i] = db[i]
        /\ db'[cur(c)] = [db[cur(c)] EXCEPT !.phase = to, !.upd = clock]
    BY <1>1, <1>3 DEF Transition
  <2>5. /\ j.list[cur(c)].phase = to
        /\ j.list[cur(c)].key = job[c].list[cur(c)].key
        /\ j.list[cur(c)].pid = job[c].list[cur(c)].pid
        /\ j.list[cur(c)].tok = job[c].list[cur(c)].tok
    BY <1>1, <2>2, <2>3 DEF Row
  <2>6. /\ db'[cur(c)].phase = to /\ db'[cur(c)].key = db[cur(c)].key
        /\ db'[cur(c)].pid = db[cur(c)].pid /\ db'[cur(c)].tok = db[cur(c)].tok
        /\ db'[cur(c)].intent = db[cur(c)].intent
    BY <1>1, <2>4 DEF Row
  <2> QED BY <2>1, <2>3, <2>4, <2>5, <2>6 DEF Advanced, cur
<1>6. OneActive'
  BY <1>5 DEF AgreeInv, OneActive, Active, Advanced, Gone, cur
<1> QED BY <1>3, <1>4, <1>5, <1>6 DEF Agrees

-----------------------------------------------------------------------------
(* The steps of each command.                                              *)

\* Recovery and the choice of targets.
LEMMA RecoveryAgrees ==
  ASSUME AgreeInv, NEW c \in Cli, RecoveryStep(c) PROVE Agrees(c)
<1> USE DEF Facts, Fresh, Sweeps, Current, Expecting, MadeAt, Clears, Working,
            Making, Label, Critical, Recovering, Destroying, Stopping, Deploying
<1>c. pc[c] \in Critical
  BY DEF RecoveryStep, RecoverList, RecoverNext, RecoverDone, RecoverScan,
         RecoverAdopt, RecoverProbe, RecoverCrash, StatusReports,
         DestroyTargets, DeployTargets
<1>0. /\ job[c] \in Job /\ db \in [Id -> Row] /\ Facts(pc[c], job[c], db)
      /\ job[c].list \in [Id -> Row] /\ job[c].todo \subseteq Id
      /\ pc[c] \in Working => cur(c) \in Id
  BY <1>c, Here DEF Job
<1>u. UNCHANGED onlyCtl => UNCHANGED db
  BY DEF onlyCtl
<1>1. CASE RecoverList(c)
  <2> DEFINE j == [job[c] EXCEPT !.list = db,
                     !.todo = {i \in Id : db[i].phase \notin Settled}]
  <2>1. /\ j \in Job /\ j.list = db /\ j.made = job[c].made
        /\ j.todo = {i \in Id : db[i].phase \notin Settled}
    BY <1>0 DEF Job
  <2>2. Facts("rpick", j, db)
    BY <1>0, <1>1, <2>1 DEF RecoverList, Settled, SettledRow
  <2> QED BY <1>1, <1>u, <2>1, <2>2, MoveAgrees DEF RecoverList
<1>2. CASE RecoverNext(c)
  <2>1. PICK i \in job[c].todo :
          Move(c, RecoverRoute(job[c].list[i]),
               [job[c] EXCEPT !.cur = i, !.todo = @ \ {i}])
    BY <1>2 DEF RecoverNext
  <2> DEFINE j == [job[c] EXCEPT !.cur = i, !.todo = @ \ {i}]
             l == RecoverRoute(job[c].list[i])
  <2>2. /\ j \in Job /\ j.list = job[c].list /\ j.made = job[c].made
        /\ j.cur = i /\ j.todo = job[c].todo \ {i} /\ j.op = job[c].op
    BY <1>0 DEF Job
  <2>3. /\ pc[c] = "rpick" /\ ~j.made
        /\ \A k \in job[c].todo : job[c].list[k] = db[k]
        /\ \A k \in job[c].todo : db[k].phase \in Phase \ Settled
        /\ \A k \in Id \ job[c].todo : SettledRow(db[k])
    BY <1>0, <1>2, <2>2 DEF RecoverNext, Row
  <2>4. \/ l = "rscan" /\ db[i].phase = "STARTING" /\ db[i].pid = NoPid
        \/ l = "rprobe" /\ db[i].pid # NoPid
        \/ l = "rcrash"
    BY <2>3 DEF RecoverRoute
  <2>5. Fresh(l, j, db)
    BY <2>2, <2>3 DEF Settled
  <2>6. Sweeps(l, j, db)
    BY <2>2, <2>3, <2>4
  <2>7. Current(l, j, db)
    BY <2>2, <2>3, <2>4
  <2>8. MadeAt(l, j) /\ Clears(l, j, db)
    BY <2>3, <2>4
  <2>9. Facts(l, j, db) /\ l \in Critical
    BY <2>4, <2>5, <2>6, <2>7, <2>8
  <2> QED BY <1>2, <1>u, <2>1, <2>2, <2>9, MoveAgrees DEF RecoverNext
<1>3. CASE RecoverDone(c)
  <2>1. Facts("work", job[c], db)
    BY <1>0, <1>3 DEF RecoverDone
  <2> QED BY <1>3, <1>c, <1>u, <2>1, GoAgrees DEF RecoverDone
<1>4. CASE RecoverScan(c)
  <2>0. /\ pc[c] = "rscan" /\ ~job[c].made /\ cur(c) \notin job[c].todo
        /\ Mem(c) = db[cur(c)] /\ db[cur(c)].phase = "STARTING"
        /\ db[cur(c)].pid = NoPid
        /\ \A k \in job[c].todo : job[c].list[k] = db[k]
        /\ \A k \in job[c].todo : db[k].phase \notin Settled
        /\ \A k \in Id \ job[c].todo : SettledRow(db[k]) \/ k = cur(c)
    BY <1>0, <1>4 DEF RecoverScan, Mem, cur
  <2>1. CASE Go(c, "rcrash")
    <3>1. Fresh("rcrash", job[c], db) /\ Sweeps("rcrash", job[c], db)
      BY <2>0 DEF cur, Settled
    <3>2. Current("rcrash", job[c], db)
      <4>1. "STARTING" \in Phase \ Settled
        BY DEF Phase, Settled, Absent
      <4>2. Expecting("rcrash", FALSE, "STARTING")
        BY <4>1
      <4> QED BY <2>0, <4>2 DEF cur, Mem
    <3>3. Facts("rcrash", job[c], db)
      BY <2>0, <3>1, <3>2
    <3> QED BY <1>4, <1>c, <1>u, <2>1, <3>3, GoAgrees DEF RecoverScan
  <2>2. CASE \E p \in Pid : Move(c, "radopt", [job[c] EXCEPT !.pid = p,
                                                             !.tok = os[p].tok])
    <3>1. PICK p \in Pid : Move(c, "radopt", [job[c] EXCEPT !.pid = p,
                                                            !.tok = os[p].tok])
      BY <2>2
    <3> DEFINE j == [job[c] EXCEPT !.pid = p, !.tok = os[p].tok]
    <3>2. os[p].tok \in Nat
      BY DEF AgreeInv, TypeInv, DataOK, Slot
    <3>3. /\ j \in Job /\ j.list = job[c].list /\ j.made = job[c].made
          /\ j.cur = job[c].cur /\ j.todo = job[c].todo /\ j.op = job[c].op
          /\ j.pid = p /\ p # NoPid
      BY <1>0, <3>2, UniverseAssumption DEF Job
    <3> HIDE DEF j
    <3>4. Fresh("radopt", j, db) /\ Sweeps("radopt", j, db)
      BY <2>0, <3>3 DEF cur, Settled
    <3>5. Current("radopt", j, db)
      BY <2>0, <3>3 DEF cur, Mem
    <3>6. Facts("radopt", j, db)
      BY <2>0, <3>3, <3>4, <3>5
    <3> QED BY <1>4, <1>u, <3>1, <3>3, <3>6, MoveAgrees DEF RecoverScan, j
  <2> QED BY <1>4, <2>1, <2>2 DEF RecoverScan, FindByCommand
<1>5. CASE RecoverAdopt(c)
  <2> DEFINE j == [job[c] EXCEPT !.list[cur(c)].pid = job[c].pid,
                                 !.list[cur(c)].tok = job[c].tok,
                                 !.pid = NoPid, !.tok = 0]
             i == job[c].cur
  <2>1. /\ SetRuntime(cur(c), job[c].pid, job[c].tok, clock)
        /\ Move(c, "rprobe", j)
    BY <1>5, FactsAccepted DEF RecoverAdopt, StoreNeverRefuses
  <2>2. /\ i \in Id /\ i = cur(c) /\ job[c].pid \in Pid \cup {NoPid}
        /\ job[c].tok \in Nat /\ clock \in Nat
    BY <1>0, <1>5 DEF RecoverAdopt, cur, Job, AgreeInv, TypeInv, DataOK
  <2>3. j \in Job /\ db' \in [Id -> Row]
    BY <1>0, <2>1, <2>2, ListTypes, StoreTypes DEF Phase
  <2>4. /\ j.made = job[c].made /\ j.cur = i /\ j.todo = job[c].todo
        /\ j.op = job[c].op
        /\ j.list = [[job[c].list EXCEPT ![i].pid = job[c].pid]
                                  EXCEPT ![i].tok = job[c].tok]
    BY <1>0, <2>2 DEF Job
  <2>5. /\ \A k \in Id \ {i} : j.list[k] = job[c].list[k]
        /\ j.list[i] = [job[c].list[i] EXCEPT !.pid = job[c].pid,
                                              !.tok = job[c].tok]
    <3> DEFINE m == [job[c].list EXCEPT ![i].pid = job[c].pid]
    <3>1. m \in [Id -> Row]
      BY <1>0, <2>2 DEF Row
    <3>2. /\ \A k \in Id \ {i} : m[k] = job[c].list[k]
          /\ m[i] = [job[c].list[i] EXCEPT !.pid = job[c].pid]
      BY <1>0, <2>2
    <3> HIDE DEF m
    <3>3. /\ \A k \in Id \ {i} : [m EXCEPT ![i].tok = job[c].tok][k] = m[k]
          /\ [m EXCEPT ![i].tok = job[c].tok][i]
               = [m[i] EXCEPT !.tok = job[c].tok]
      BY <2>2, <3>1
    <3>4. [[job[c].list[i] EXCEPT !.pid = job[c].pid]
             EXCEPT !.tok = job[c].tok]
            = [job[c].list[i] EXCEPT !.pid = job[c].pid, !.tok = job[c].tok]
      BY <1>0, <2>2 DEF Row
    <3> QED BY <2>4, <3>2, <3>3, <3>4 DEF m
  <2>6. /\ \A k \in Id \ {i} : db'[k] = db[k]
        /\ db'[i] = [db[i] EXCEPT !.pid = job[c].pid, !.tok = job[c].tok,
                                  !.intent = TRUE, !.upd = clock]
    BY <1>0, <2>1, <2>2 DEF SetRuntime
  <2>7. /\ j.list[i].phase = job[c].list[i].phase
        /\ j.list[i].key = job[c].list[i].key
        /\ j.list[i].pid = job[c].pid /\ j.list[i].tok = job[c].tok
    BY <1>0, <2>2, <2>5 DEF Row
  <2>8. /\ db'[i].phase = db[i].phase /\ db'[i].key = db[i].key
        /\ db'[i].pid = job[c].pid /\ db'[i].tok = job[c].tok
    BY <1>0, <2>2, <2>6 DEF Row
  <2> HIDE DEF j
  <2>9. Facts("rprobe", j, db')
    <3>1. /\ i \notin job[c].todo /\ db[i].phase = "STARTING"
          /\ job[c].list[i].phase = db[i].phase
          /\ job[c].list[i].key = db[i].key /\ job[c].pid # NoPid
          /\ ~job[c].made
          /\ \A k \in job[c].todo : job[c].list[k] = db[k]
          /\ \A k \in job[c].todo : db[k].phase \notin Settled
          /\ \A k \in Id \ job[c].todo : SettledRow(db[k]) \/ k = i
      BY <1>0, <1>5 DEF RecoverAdopt
    <3>2. Fresh("rprobe", j, db')
      <4>1. \A k \in job[c].todo : k \in Id \ {i} /\ db[k].phase # Absent
        BY <1>0, <3>1 DEF Settled
      <4>2. \A k \in job[c].todo : j.list[k] = db'[k] /\ db'[k] = db[k]
        BY <2>5, <2>6, <3>1, <4>1
      <4> QED BY <2>4, <4>1, <4>2
    <3>3. Sweeps("rprobe", j, db')
      BY <1>0, <2>4, <2>6, <3>1
    <3>4. Current("rprobe", j, db')
      <4>1. "STARTING" \in Phase \ Settled
        BY DEF Phase, Settled, Absent
      <4>2. Expecting("rprobe", FALSE, "STARTING")
        BY <4>1
      <4>3. /\ j.cur \notin j.todo /\ ~j.made /\ db'[i].phase = "STARTING"
            /\ j.list[i].phase = db'[i].phase /\ j.list[i].key = db'[i].key
            /\ j.list[i].pid = db'[i].pid /\ j.list[i].tok = db'[i].tok
            /\ db'[i].pid # NoPid
        BY <2>4, <2>7, <2>8, <3>1
      <4> QED BY <2>4, <4>2, <4>3
    <3> QED BY <2>4, <3>1, <3>2, <3>3, <3>4
  <2>10. \A k \in Id : db'[k].phase = db[k].phase
    BY <2>2, <2>6, <2>8
  <2>11. OneActive'
    BY <2>10 DEF AgreeInv, OneActive, Active
  <2> QED BY <2>1, <2>3, <2>9, <2>11 DEF Agrees, j
<1>6. CASE RecoverProbe(c)
  <2>1. CASE Go(c, "rcrash")
    <3>1. Facts("rcrash", job[c], db)
      BY <1>0, <1>6 DEF RecoverProbe
    <3> QED BY <1>6, <1>c, <1>u, <2>1, <3>1, GoAgrees DEF RecoverProbe
  <2>2. CASE Go(c, "rpick") /\ Mem(c).phase \notin BeforeRuntime
    <3>1. Facts("rpick", job[c], db)
      BY <1>0, <1>6, <2>2 DEF RecoverProbe, Mem, cur, SettledRow
    <3> QED BY <1>6, <1>c, <1>u, <2>2, <3>1, GoAgrees DEF RecoverProbe
  <2> QED BY <1>6, <2>1, <2>2 DEF RecoverProbe
<1>7. CASE RecoverCrash(c)
  <2>1. ASSUME NEW j \in Job, NEW t \in [Id -> Row],
               Advanced(job[c], j, db, t, "CRASHED")
        PROVE  Facts("rpick", j, t)
    BY <1>0, <1>7, <2>1 DEF RecoverCrash, Advanced, SettledRow, Settled
  <2>2. db[cur(c)].phase \notin Gone
    BY <1>0, <1>7 DEF RecoverCrash, Gone, Settled, cur
  <2>3. Attempt[pc[c]] = "CRASHED" /\ pc[c] \in DOMAIN Attempt
    BY <1>7 DEF RecoverCrash, Attempt
  <2> QED BY <1>7, <1>c, <2>1, <2>2, <2>3, AdvanceAgrees DEF RecoverCrash
<1>8. CASE StatusReports(c)
  BY <1>8, <1>u, ReturnAgrees DEF StatusReports
<1>9. CASE DestroyTargets(c)
  <2> DEFINE named == job[c].target
             targets == IF named = NoId THEN {i \in Id : db[i].phase # Absent}
                                        ELSE {named}
             j == [job[c] EXCEPT !.list = db, !.todo = targets]
  <2>1. CASE Return(c)
    BY <1>9, <1>u, <2>1, ReturnAgrees DEF DestroyTargets
  <2>2. CASE /\ Move(c, "xpick", j)
             /\ named = NoId \/ db[named].phase # Absent
    <3>1. targets \subseteq {i \in Id : db[i].phase # Absent}
      BY <1>0, <2>2 DEF Job
    <3> HIDE DEF targets
    <3>2. /\ j \in Job /\ j.list = db /\ j.todo = targets
          /\ j.made = job[c].made /\ j.op = job[c].op
      BY <1>0, <3>1 DEF Job
    <3>3. Facts("xpick", j, db)
      BY <1>0, <1>9, <3>1, <3>2 DEF DestroyTargets
    <3> QED BY <1>9, <1>u, <2>2, <3>2, <3>3, MoveAgrees DEF DestroyTargets
  <2> QED BY <1>9, <2>1, <2>2 DEF DestroyTargets
<1>10. CASE DeployTargets(c)
  <2> DEFINE j == [job[c] EXCEPT !.list = db, !.todo = existing]
  <2>1. CASE Return(c)
    BY <1>10, <1>u, <2>1, ReturnAgrees DEF DeployTargets
  <2>2. CASE Move(c, "resolve", j)
    <3>1. /\ j \in Job /\ j.list = db /\ j.todo = existing
          /\ j.made = job[c].made /\ j.op = job[c].op
      BY <1>0 DEF Job, existing
    <3>2. Facts("resolve", j, db)
      BY <1>0, <1>10, <3>1 DEF DeployTargets, existing, Gone
    <3> QED BY <1>10, <1>u, <2>2, <3>1, <3>2, MoveAgrees DEF DeployTargets
  <2> QED BY <1>10, <2>1, <2>2 DEF DeployTargets
<1> QED BY <1>1, <1>2, <1>3, <1>4, <1>5, <1>6, <1>7, <1>8, <1>9, <1>10
        DEF RecoveryStep

\* Destroying and stopping.
LEMMA DestroyAgrees ==
  ASSUME AgreeInv, NEW c \in Cli, DestroyStep(c) PROVE Agrees(c)
<1> USE DEF Facts, Fresh, Sweeps, Current, Expecting, MadeAt, Clears, Working,
            Making, Label, Critical, Recovering, Destroying, Stopping, Deploying
<1>c. pc[c] \in Critical
  BY DEF DestroyStep, DestroyNext, DestroyDone, RouteThroughFailed,
         BeginDestroy, DestroyProbe, CheckCache, RemoveLog, RemoveKey,
         RemoveCacheEntry, RemoveCacheDir, FinishDestroy, Purge, StopVerifies,
         StopTerminates, StopGraceOver, StopGivesUp
<1>0. /\ job[c] \in Job /\ db \in [Id -> Row] /\ Facts(pc[c], job[c], db)
      /\ job[c].list \in [Id -> Row] /\ job[c].todo \subseteq Id
      /\ pc[c] \in Working => cur(c) \in Id
  BY <1>c, Here DEF Job
<1>u. UNCHANGED onlyCtl => UNCHANGED db
  BY DEF onlyCtl
<1>1. CASE DestroyNext(c)
  <2>1. PICK i \in job[c].todo :
          Move(c, DestroyRoute(c, job[c].list[i].phase),
               [job[c] EXCEPT !.cur = i, !.todo = @ \ {i}])
    BY <1>1 DEF DestroyNext
  <2> DEFINE j == [job[c] EXCEPT !.cur = i, !.todo = @ \ {i}]
             l == DestroyRoute(c, job[c].list[i].phase)
  <2>2. /\ j \in Job /\ j.list = job[c].list /\ j.made = job[c].made
        /\ j.cur = i /\ j.todo = job[c].todo \ {i} /\ j.op = job[c].op
    BY <1>0 DEF Job
  <2>3. /\ pc[c] = "xpick" /\ ~j.made
        /\ \A k \in job[c].todo : job[c].list[k] = db[k]
        /\ \A k \in job[c].todo : db[k].phase \in Phase
        /\ \A k \in job[c].todo : SettledRow(db[k])
        /\ j.op = "deploy" => \A k \in Id : \/ db[k].phase \in Gone
                                            \/ k \in job[c].todo
    BY <1>0, <1>1, <2>2 DEF DestroyNext, Row
  <2>4. \/ l = "xpurge" /\ db[i].phase = "DESTROYED"
        \/ l = "xpick" /\ db[i].phase = "DESTROYED"
        \/ l = "xprobe" /\ db[i].phase = "DESTROYING"
        \/ l = "xbegin" /\ db[i].phase \in {"READY", "FAILED", "CRASHED",
                                            "UNREGISTERED_HEALTHY"}
        \/ l = "xfail" /\ db[i].phase \in {"HEALTHY", "REGISTERING"}
    <3>1. db[i] = job[c].list[i] /\ db[i].phase \in Phase /\ SettledRow(db[i])
      BY <2>3
    <3> QED BY <3>1 DEF DestroyRoute, SettledRow, Settled, BeforeRuntime, Phase,
                        Absent
  <2>5. Fresh(l, j, db)
    BY <2>2, <2>3 DEF Phase, Absent
  <2>6. Sweeps(l, j, db)
    BY <2>2, <2>3, <2>4
  <2>7. Current(l, j, db)
    BY <2>2, <2>3, <2>4
  <2>8. MadeAt(l, j)
    BY <2>3, <2>4
  <2>9. Clears(l, j, db)
    BY <2>2, <2>3, <2>4 DEF Gone
  <2>10. Facts(l, j, db) /\ l \in Critical
    BY <2>4, <2>5, <2>6, <2>7, <2>8, <2>9
  <2> QED BY <1>1, <1>u, <2>1, <2>2, <2>10, MoveAgrees DEF DestroyNext
<1>2. CASE DestroyDone(c)
  <2>1. CASE job[c].op = "deploy"
    <3> DEFINE j == [job[c] EXCEPT !.cur = job[c].target]
    <3>1. /\ j \in Job /\ j.list = job[c].list /\ j.made = job[c].made
          /\ j.todo = {} /\ j.op = job[c].op /\ j.cur \in Id
      BY <1>0, <1>2, <2>1
         DEF DestroyDone, Job, AgreeInv, TypeInv, CtlOK, CurrentKnown, Known
    <3> HIDE DEF j
    <3>2. Facts("tomb", j, db)
      BY <1>0, <1>2, <2>1, <3>1 DEF DestroyDone
    <3>3. Move(c, "tomb", j) /\ UNCHANGED db
      BY <1>2, <1>u, <2>1 DEF DestroyDone, j
    <3> QED BY <3>1, <3>2, <3>3, MoveAgrees
  <2>2. CASE job[c].op # "deploy"
    BY <1>2, <1>u, <2>2, ReturnAgrees DEF DestroyDone
  <2> QED BY <2>1, <2>2
<1>3. CASE RouteThroughFailed(c)
  <2>1. ASSUME NEW j \in Job, NEW t \in [Id -> Row],
               Advanced(job[c], j, db, t, "FAILED")
        PROVE  Facts("xbegin", j, t)
    BY <1>0, <1>3, <2>1 DEF RouteThroughFailed, Advanced
  <2>2. db[cur(c)].phase \notin Gone
    BY <1>0, <1>3 DEF RouteThroughFailed, Gone, Absent, cur
  <2>3. Attempt[pc[c]] = "FAILED" /\ pc[c] \in DOMAIN Attempt
    BY <1>3 DEF RouteThroughFailed, Attempt
  <2> QED BY <1>3, <1>c, <2>1, <2>2, <2>3, AdvanceAgrees DEF RouteThroughFailed
<1>4. CASE BeginDestroy(c)
  <2>1. ASSUME NEW j \in Job, NEW t \in [Id -> Row],
               Advanced(job[c], j, db, t, "DESTROYING")
        PROVE  Facts("xprobe", j, t)
    BY <1>0, <1>4, <2>1 DEF BeginDestroy, Advanced
  <2>2. db[cur(c)].phase \notin Gone
    BY <1>0, <1>4 DEF BeginDestroy, Gone, Absent, cur
  <2>3. Attempt[pc[c]] = "DESTROYING" /\ pc[c] \in DOMAIN Attempt
    BY <1>4 DEF BeginDestroy, Attempt
  <2> QED BY <1>4, <1>c, <2>1, <2>2, <2>3, AdvanceAgrees DEF BeginDestroy
<1>5. CASE DestroyProbe(c)
  <2>0. ~job[c].made
    BY <1>0, <1>5 DEF DestroyProbe
  <2>1. CASE Go(c, "xcache")
    <3>1. Facts("xcache", job[c], db)
      BY <1>0, <1>5 DEF DestroyProbe
    <3> QED BY <1>5, <1>c, <1>u, <2>1, <3>1, GoAgrees DEF DestroyProbe
  <2>2. CASE TargetFails(c)
    BY <1>5, <1>u, <2>0, <2>2, TargetFailsAgrees DEF DestroyProbe
  <2>3. CASE Move(c, "stop", [job[c] EXCEPT !.pid = Mem(c).pid,
                                            !.tok = Mem(c).tok])
    <3> DEFINE j == [job[c] EXCEPT !.pid = Mem(c).pid, !.tok = Mem(c).tok]
    <3>1. Mem(c) \in Row
      BY <1>0, <1>5 DEF DestroyProbe, Mem
    <3>2. /\ j \in Job /\ j.list = job[c].list /\ j.made = job[c].made
          /\ j.todo = job[c].todo /\ j.op = job[c].op /\ j.cur = job[c].cur
      BY <1>0, <3>1 DEF Job, Row
    <3> HIDE DEF j
    <3>3. Facts("stop", j, db)
      BY <1>0, <1>5, <3>2 DEF DestroyProbe
    <3> QED BY <1>5, <1>u, <2>3, <3>2, <3>3, MoveAgrees DEF DestroyProbe, j
  <2> QED BY <1>5, <2>1, <2>2, <2>3 DEF DestroyProbe
<1>6. CASE CheckCache(c)
  <2>0. ~job[c].made
    BY <1>0, <1>6 DEF CheckCache
  <2>1. CASE TargetFails(c)
    BY <1>6, <1>u, <2>0, <2>1, TargetFailsAgrees DEF CheckCache
  <2>2. CASE \E b \in BOOLEAN : Move(c, "xlog", [job[c] EXCEPT !.owned = b])
    <3>1. PICK b \in BOOLEAN : Move(c, "xlog", [job[c] EXCEPT !.owned = b])
      BY <2>2
    <3> DEFINE j == [job[c] EXCEPT !.owned = b]
    <3>2. /\ j \in Job /\ j.list = job[c].list /\ j.made = job[c].made
          /\ j.todo = job[c].todo /\ j.op = job[c].op /\ j.cur = job[c].cur
      BY <1>0 DEF Job
    <3> HIDE DEF j
    <3>3. Facts("xlog", j, db)
      BY <1>0, <1>6, <3>2 DEF CheckCache
    <3> QED BY <1>6, <1>u, <3>1, <3>2, <3>3, MoveAgrees DEF CheckCache, j
  <2> QED BY <1>6, <2>1, <2>2 DEF CheckCache
<1>7. CASE RemoveLog(c)
  <2>1. Facts("xkey", job[c], db)
    BY <1>0, <1>7 DEF RemoveLog
  <2> QED BY <1>7, <1>c, <2>1, GoAgrees DEF RemoveLog
<1>8. CASE RemoveKey(c)
  <2> DEFINE j == [job[c] EXCEPT !.owned = FALSE]
             l == IF job[c].owned THEN "xrm" ELSE "xdone"
  <2>1. /\ j \in Job /\ j.list = job[c].list /\ j.made = job[c].made
        /\ j.todo = job[c].todo /\ j.op = job[c].op /\ j.cur = job[c].cur
    BY <1>0 DEF Job
  <2> HIDE DEF j
  <2>2. Facts("xrm", j, db) /\ Facts("xdone", j, db)
    BY <1>0, <1>8, <2>1 DEF RemoveKey
  <2> QED BY <1>8, <2>1, <2>2, MoveAgrees DEF RemoveKey, j
<1>9. CASE RemoveCacheEntry(c)
  <2>1. Facts("xrm", job[c], db)
    BY <1>0, <1>9 DEF RemoveCacheEntry
  <2> QED BY <1>9, <1>c, <2>1, GoAgrees DEF RemoveCacheEntry
<1>10. CASE RemoveCacheDir(c)
  <2>1. Facts("xdone", job[c], db)
    BY <1>0, <1>10 DEF RemoveCacheDir
  <2> QED BY <1>10, <1>c, <2>1, GoAgrees DEF RemoveCacheDir
<1>11. CASE FinishDestroy(c)
  <2>1. ASSUME NEW j \in Job, NEW t \in [Id -> Row],
               Advanced(job[c], j, db, t, "DESTROYED")
        PROVE  Facts("xpurge", j, t) /\ Facts("xpick", j, t)
    BY <1>0, <1>11, <2>1 DEF FinishDestroy, Advanced, Gone
  <2>2. db[cur(c)].phase \notin Gone
    BY <1>0, <1>11 DEF FinishDestroy, Gone, Absent, cur
  <2>3. Attempt[pc[c]] = "DESTROYED" /\ pc[c] \in DOMAIN Attempt
    BY <1>11 DEF FinishDestroy, Attempt
  <2>4. {"xpurge", "xpick"} \subseteq Critical
    OBVIOUS
  <2>5. Advance(c, "DESTROYED", "xpurge") \/ Advance(c, "DESTROYED", "xpick")
    BY <1>11 DEF FinishDestroy
  <2> QED BY <1>11, <1>c, <2>1, <2>2, <2>3, <2>4, <2>5, AdvanceAgrees
          DEF FinishDestroy
<1>12. CASE Purge(c)
  <2>1. Delete(cur(c)) /\ Go(c, "xpick")
    BY <1>12, FactsAccepted DEF Purge, StoreNeverRefuses
  <2>2. /\ cur(c) \in Id /\ cur(c) = job[c].cur
        /\ \A k \in Id \ {cur(c)} : db'[k] = db[k]
        /\ db'[cur(c)].phase = Absent
    BY <1>0, <1>12, <2>1 DEF Purge, Delete, NoRow, cur
  <2>3. Facts("xpick", job[c], db')
    BY <1>0, <1>12, <2>2 DEF Purge, Gone
  <2>4. OneActive'
    BY <2>2 DEF AgreeInv, OneActive, Active
  <2> QED BY <1>0, <2>1, <2>3, <2>4 DEF Agrees, Go
<1>13. CASE StopVerifies(c)
  <2>1. CASE Go(c, "term")
    <3>1. Facts("term", job[c], db)
      BY <1>0, <1>13 DEF StopVerifies
    <3> QED BY <1>13, <1>c, <1>u, <2>1, <3>1, GoAgrees DEF StopVerifies
  <2>2. CASE \E ok \in BOOLEAN : StopReturns(c, ok)
    BY <1>13, <1>u, <2>2, StopReturnsAgrees DEF StopVerifies
  <2> QED BY <1>13, <2>1, <2>2 DEF StopVerifies
<1>14. CASE StopTerminates(c)
  <2>1. Facts("grace", job[c], db)
    BY <1>0, <1>14 DEF StopTerminates
  <2> QED BY <1>14, <1>c, <1>u, <2>1, GoAgrees DEF StopTerminates
<1>15. CASE StopGraceOver(c)
  <2>1. CASE Go(c, "kill")
    <3>1. Facts("kill", job[c], db)
      BY <1>0, <1>15 DEF StopGraceOver
    <3> QED BY <1>15, <1>c, <2>1, <3>1, GoAgrees DEF StopGraceOver
  <2>2. CASE StopReturns(c, TRUE)
    BY <1>15, <2>2, StopReturnsAgrees DEF StopGraceOver
  <2> QED BY <1>15, <2>1, <2>2 DEF StopGraceOver
<1>16. CASE StopGivesUp(c)
  <2>1. \E ok \in BOOLEAN : StopReturns(c, ok)
    BY <1>16 DEF StopGivesUp
  <2> QED BY <1>16, <1>u, <2>1, StopReturnsAgrees DEF StopGivesUp
<1> QED BY <1>1, <1>2, <1>3, <1>4, <1>5, <1>6, <1>7, <1>8, <1>9, <1>10, <1>11,
           <1>12, <1>13, <1>14, <1>15, <1>16 DEF DestroyStep

\* cmd.Start returning an error, with nothing left of the child.
LEMMA ExecFailsAgrees ==
  ASSUME AgreeInv, NEW c \in Cli, pc[c] = "exec", UNCHANGED db,
         Move(c, "ffail", [job[c] EXCEPT !.pid = NoPid, !.tok = 0])
  PROVE  Agrees(c)
<1> DEFINE j == [job[c] EXCEPT !.pid = NoPid, !.tok = 0]
<1>1. pc[c] \in Critical /\ "ffail" \in Critical
  BY DEF Critical, Deploying
<1>2. job[c] \in Job /\ Facts(pc[c], job[c], db)
  BY <1>1, Here
<1>3. /\ j \in Job /\ j.list = job[c].list /\ j.todo = job[c].todo
      /\ j.cur = job[c].cur /\ j.op = job[c].op /\ j.made = job[c].made
  BY <1>2 DEF Job
<1>4. Facts("ffail", j, db)
  BY <1>2, <1>3
     DEF Facts, Fresh, Sweeps, Current, Expecting, MadeAt, Clears, Working,
         Making, Underway, Label, Critical, Recovering, Destroying, Stopping,
         Deploying
<1> QED BY <1>1, <1>3, <1>4, MoveAgrees

\* Deploying.
LEMMA DeployAgrees ==
  ASSUME AgreeInv, NEW c \in Cli, DeployStep(c) PROVE Agrees(c)
<1> USE DEF Facts, Fresh, Sweeps, Current, Expecting, MadeAt, Clears, Working,
            Making, Label, Critical, Recovering, Destroying, Stopping, Deploying
<1>c. pc[c] \in Critical
  BY DEF DeployStep, ResolveFails, Resolved, ClearTombstone, CreateDeployment,
         StartValidating, writeAPIKey, MakeCacheDir, ClaimCache, WriteMarker,
         StartDownloading, RecordIntent, StartStarting, Launch, LaunchFails,
         IdentityCaptured, BindRuntime, BecomesHealthy, BecomesReady,
         ChecksFail, RecordHealthy, StartRegistering, FinishDeploy,
         RecordFailure
<1>0. /\ job[c] \in Job /\ db \in [Id -> Row] /\ Facts(pc[c], job[c], db)
      /\ job[c].list \in [Id -> Row] /\ job[c].todo \subseteq Id
      /\ pc[c] \in Working => cur(c) \in Id
  BY <1>c, Here DEF Job
<1>u. UNCHANGED onlyCtl => UNCHANGED db
  BY DEF onlyCtl
<1>1. CASE ResolveFails(c)
  BY <1>1, <1>u, ReturnAgrees DEF ResolveFails
<1>2. CASE Resolved(c)
  <2>1. Facts("xpick", job[c], db)
    BY <1>0, <1>2 DEF Resolved
  <2> QED BY <1>2, <1>c, <1>u, <2>1, GoAgrees DEF Resolved
<1>3. CASE ClearTombstone(c)
  <2>1. /\ cur(c) \in Id /\ cur(c) = job[c].cur
        /\ \A k \in Id \ {cur(c)} : db'[k] = db[k]
        /\ db'[cur(c)].phase = Absent
        /\ \A k \in Id : db[k].phase \in Gone
    BY <1>0, <1>3 DEF ClearTombstone, Delete, DeleteOK, NoRow, Gone, cur
  <2>2. /\ \A k \in Id : db'[k].phase \in Gone
        /\ db' \in [Id -> Row]
    BY <1>0, <1>3, <2>1, StoreTypes
       DEF Gone, ClearTombstone, AgreeInv, TypeInv, DataOK
  <2>3. Facts("create", job[c], db')
    BY <1>0, <1>3, <2>1, <2>2 DEF ClearTombstone
  <2>4. OneActive'
    BY <2>2 DEF OneActive, Active, Gone
  <2> QED BY <1>0, <1>3, <2>3, <2>4 DEF ClearTombstone, Agrees, Go
<1>4. CASE CreateDeployment(c)
  <2> DEFINE i == job[c].cur
             row == NewRow(deploys + 1, clock)
             j == [job[c] EXCEPT !.list[cur(c)] = row, !.made = TRUE]
  <2>1. Create(cur(c), deploys + 1, clock) /\ Move(c, "validate", j)
    BY <1>4, FactsAccepted DEF CreateDeployment, StoreNeverRefuses
  <2>2. /\ i \in Id /\ i = cur(c) /\ row \in Row /\ row.phase = "REQUESTED"
        /\ deploys + 1 \in Nat /\ clock \in Nat
    <3>1. deploys + 1 \in Nat /\ clock \in Nat
      BY DEF AgreeInv, TypeInv, DataOK
    <3> QED BY <1>0, <1>4, <3>1, NewRowType
            DEF CreateDeployment, cur, NewRow, NoRow
  <2>3. /\ \A k \in Id \ {i} : db'[k] = db[k]
        /\ db'[i] = row
    BY <1>0, <2>1, <2>2 DEF Create
  <2> HIDE DEF row
  <2>4. /\ j.made /\ j.cur = i /\ j.todo = job[c].todo /\ j.op = job[c].op
        /\ j.list = [job[c].list EXCEPT ![i] = row] /\ j \in Job
    BY <1>0, <2>2 DEF Job
  <2> HIDE DEF j
  <2>5. /\ \A k \in Id \ {i} : j.list[k] = job[c].list[k]
        /\ j.list[i] = row
    BY <1>0, <2>2, <2>4
  <2>6. \A k \in Id : db[k].phase \in Gone
    BY <1>0, <1>4 DEF CreateDeployment
  <2>7. Facts("validate", j, db')
    BY <1>0, <1>4, <2>2, <2>3, <2>4, <2>5 DEF CreateDeployment
  <2>8. OneActive'
    BY <2>3, <2>6 DEF OneActive, Active, Gone
  <2> QED BY <2>1, <2>4, <2>7, <2>8 DEF Agrees, j, row
<1>5. CASE StartValidating(c)
  <2>1. ASSUME NEW j \in Job, NEW t \in [Id -> Row],
               Advanced(job[c], j, db, t, "VALIDATING")
        PROVE  Facts("key", j, t)
    BY <1>0, <1>5, <2>1 DEF StartValidating, Advanced
  <2>2. db[cur(c)].phase \notin Gone
    BY <1>0, <1>5 DEF StartValidating, Gone, Absent, cur
  <2>3. Attempt[pc[c]] = "VALIDATING" /\ pc[c] \in DOMAIN Attempt
    BY <1>5 DEF StartValidating, Attempt
  <2> QED BY <1>5, <1>c, <2>1, <2>2, <2>3, AdvanceAgrees DEF StartValidating
<1>6. CASE writeAPIKey(c)
  <2>1. Facts("mkdir", job[c], db)
    BY <1>0, <1>6 DEF writeAPIKey
  <2> QED BY <1>6, <1>c, <2>1, GoAgrees DEF writeAPIKey
<1>7. CASE MakeCacheDir(c)
  <2>1. Facts("marker", job[c], db)
    BY <1>0, <1>7 DEF MakeCacheDir
  <2> QED BY <1>7, <1>c, <2>1, GoAgrees DEF MakeCacheDir
<1>8. CASE ClaimCache(c)
  <2>1. Facts("download", job[c], db) /\ Facts("mwrite", job[c], db)
    BY <1>0, <1>8 DEF ClaimCache
  <2>2. CASE Rejected(c)
    BY <1>8, <1>c, <2>2, RejectedAgrees DEF ClaimCache
  <2>3. CASE Go(c, "download") \/ Go(c, "mwrite")
    BY <1>8, <1>c, <2>1, <2>3, GoAgrees DEF ClaimCache
  <2> QED BY <1>8, <2>2, <2>3 DEF ClaimCache
<1>9. CASE WriteMarker(c)
  <2>1. Facts("download", job[c], db)
    BY <1>0, <1>9 DEF WriteMarker
  <2> QED BY <1>9, <1>c, <2>1, GoAgrees DEF WriteMarker
<1>10. CASE StartDownloading(c)
  <2>1. ASSUME NEW j \in Job, NEW t \in [Id -> Row],
               Advanced(job[c], j, db, t, "DOWNLOADING")
        PROVE  Facts("intent", j, t)
    BY <1>0, <1>10, <2>1 DEF StartDownloading, Advanced
  <2>2. db[cur(c)].phase \notin Gone
    BY <1>0, <1>10 DEF StartDownloading, Gone, Absent, cur
  <2>3. Attempt[pc[c]] = "DOWNLOADING" /\ pc[c] \in DOMAIN Attempt
    BY <1>10 DEF StartDownloading, Attempt
  <2> QED BY <1>10, <1>c, <2>1, <2>2, <2>3, AdvanceAgrees DEF StartDownloading
<1>11. CASE RecordIntent(c)
  <2>1. SetRuntimeIntent(cur(c), clock) /\ Go(c, "starting")
    BY <1>11, FactsAccepted DEF RecordIntent, StoreNeverRefuses
  <2>2. /\ cur(c) \in Id /\ cur(c) = job[c].cur
        /\ \A k \in Id \ {cur(c)} : db'[k] = db[k]
        /\ db'[cur(c)] = [db[cur(c)] EXCEPT !.pid = NoPid, !.tok = 0,
                                           !.intent = TRUE, !.upd = clock]
    BY <1>0, <1>11, <2>1 DEF RecordIntent, SetRuntimeIntent, cur
  <2>3. /\ db'[cur(c)].phase = db[cur(c)].phase
        /\ db'[cur(c)].key = db[cur(c)].key
        /\ db'[cur(c)].pid = NoPid /\ db'[cur(c)].intent
    BY <1>0, <2>2 DEF Row
  <2>4. Facts("starting", job[c], db')
    BY <1>0, <1>11, <2>2, <2>3 DEF RecordIntent
  <2>5. \A k \in Id : db'[k].phase = db[k].phase
    BY <2>2, <2>3
  <2>6. OneActive'
    BY <2>5 DEF AgreeInv, OneActive, Active
  <2> QED BY <1>0, <2>1, <2>4, <2>6 DEF Agrees, Go
<1>12. CASE StartStarting(c)
  <2>1. ASSUME NEW j \in Job, NEW t \in [Id -> Row],
               Advanced(job[c], j, db, t, "STARTING")
        PROVE  Facts("launch", j, t)
    BY <1>0, <1>12, <2>1 DEF StartStarting, Advanced
  <2>2. db[cur(c)].phase \notin Gone
    BY <1>0, <1>12 DEF StartStarting, Gone, Absent, cur
  <2>3. Attempt[pc[c]] = "STARTING" /\ pc[c] \in DOMAIN Attempt
    BY <1>12 DEF StartStarting, Attempt
  <2> QED BY <1>12, <1>c, <2>1, <2>2, <2>3, AdvanceAgrees DEF StartStarting
<1>13. CASE Launch(c)
  <2>1. PICK p \in Pid :
          Move(c, "exec", [job[c] EXCEPT !.pid = p, !.tok = clock + 1])
    BY <1>13 DEF Launch
  <2> DEFINE j == [job[c] EXCEPT !.pid = p, !.tok = clock + 1]
  <2>2. clock + 1 \in Nat
    BY DEF AgreeInv, TypeInv, DataOK
  <2>3. /\ j \in Job /\ j.list = job[c].list /\ j.made = job[c].made
        /\ j.todo = job[c].todo /\ j.op = job[c].op /\ j.cur = job[c].cur
    BY <1>0, <2>2 DEF Job
  <2> HIDE DEF j
  <2>4. Facts("exec", j, db)
    BY <1>0, <1>13, <2>3 DEF Launch
  <2> QED BY <1>13, <2>1, <2>3, <2>4, MoveAgrees DEF Launch, j
<1>14. CASE LaunchFails(c)
  BY <1>14, FailAgrees DEF LaunchFails, Failing
<1>15. CASE IdentityCaptured(c)
  <2>1. Facts("bind", job[c], db)
    BY <1>0, <1>15 DEF IdentityCaptured
  <2> QED BY <1>15, <1>c, <1>u, <2>1, GoAgrees DEF IdentityCaptured
<1>16. CASE BindRuntime(c)
  <2>1. SetRuntime(cur(c), job[c].pid, job[c].tok, clock) /\ Go(c, "health")
    BY <1>16, FactsAccepted DEF BindRuntime, StoreNeverRefuses
  <2>2. /\ cur(c) \in Id /\ cur(c) = job[c].cur
        /\ \A k \in Id \ {cur(c)} : db'[k] = db[k]
        /\ db'[cur(c)] = [db[cur(c)] EXCEPT !.pid = job[c].pid,
                            !.tok = job[c].tok, !.intent = TRUE, !.upd = clock]
    BY <1>0, <1>16, <2>1 DEF BindRuntime, SetRuntime, cur
  <2>3. /\ db'[cur(c)].phase = db[cur(c)].phase
        /\ db'[cur(c)].key = db[cur(c)].key
    BY <1>0, <2>2 DEF Row
  <2>4. Facts("health", job[c], db')
    BY <1>0, <1>16, <2>2, <2>3 DEF BindRuntime
  <2>5. \A k \in Id : db'[k].phase = db[k].phase
    BY <2>2, <2>3
  <2>6. OneActive'
    BY <2>5 DEF AgreeInv, OneActive, Active
  <2> QED BY <1>0, <2>1, <2>4, <2>6 DEF Agrees, Go
<1>17. CASE BecomesHealthy(c)
  <2>1. Facts("healthy", job[c], db)
    BY <1>0, <1>17 DEF BecomesHealthy
  <2> QED BY <1>17, <1>c, <1>u, <2>1, GoAgrees DEF BecomesHealthy
<1>18. CASE BecomesReady(c)
  <2>1. Facts("register", job[c], db)
    BY <1>0, <1>18 DEF BecomesReady
  <2> QED BY <1>18, <1>c, <1>u, <2>1, GoAgrees DEF BecomesReady
<1>19. CASE ChecksFail(c)
  BY <1>19, <1>u, FailAgrees DEF ChecksFail, Failing
<1>20. CASE RecordHealthy(c)
  <2>1. ASSUME NEW j \in Job, NEW t \in [Id -> Row],
               Advanced(job[c], j, db, t, "HEALTHY")
        PROVE  Facts("ready", j, t)
    BY <1>0, <1>20, <2>1 DEF RecordHealthy, Advanced
  <2>2. db[cur(c)].phase \notin Gone
    BY <1>0, <1>20 DEF RecordHealthy, Gone, Absent, cur
  <2>3. Attempt[pc[c]] = "HEALTHY" /\ pc[c] \in DOMAIN Attempt
    BY <1>20 DEF RecordHealthy, Attempt
  <2> QED BY <1>20, <1>c, <2>1, <2>2, <2>3, AdvanceAgrees DEF RecordHealthy
<1>21. CASE StartRegistering(c)
  <2>1. ASSUME NEW j \in Job, NEW t \in [Id -> Row],
               Advanced(job[c], j, db, t, "REGISTERING")
        PROVE  Facts("unreg", j, t)
    BY <1>0, <1>21, <2>1 DEF StartRegistering, Advanced
  <2>2. db[cur(c)].phase \notin Gone
    BY <1>0, <1>21 DEF StartRegistering, Gone, Absent, cur
  <2>3. Attempt[pc[c]] = "REGISTERING" /\ pc[c] \in DOMAIN Attempt
    BY <1>21 DEF StartRegistering, Attempt
  <2> QED BY <1>21, <1>c, <2>1, <2>2, <2>3, AdvanceAgrees DEF StartRegistering
<1>22. CASE FinishDeploy(c)
  <2>1. /\ Transition(cur(c), "UNREGISTERED_HEALTHY", clock) /\ Return(c)
        /\ cur(c) \in Id /\ db[cur(c)].phase \notin Gone
    BY <1>0, <1>22, FactsAccepted
       DEF FinishDeploy, StoreNeverRefuses, Attempt, Gone, Absent, cur
  <2>2. \A k \in Id \ {cur(c)} : db'[k] = db[k]
    BY <1>0, <2>1 DEF Transition
  <2>3. OneActive'
    BY <2>1, <2>2 DEF AgreeInv, OneActive, Active, Gone
  <2> QED BY <2>1, <2>3 DEF Agrees
<1>23. CASE RecordFailure(c)
  <2>1. /\ Transition(cur(c), "FAILED", clock) /\ Return(c)
        /\ cur(c) \in Id /\ db[cur(c)].phase \notin Gone
    BY <1>0, <1>23, FactsAccepted
       DEF RecordFailure, StoreNeverRefuses, Attempt, Underway, Gone, Absent,
           cur
  <2>2. \A k \in Id \ {cur(c)} : db'[k] = db[k]
    BY <1>0, <2>1 DEF Transition
  <2>3. OneActive'
    BY <2>1, <2>2 DEF AgreeInv, OneActive, Active, Gone
  <2> QED BY <2>1, <2>3 DEF Agrees
<1> QED BY <1>1, <1>2, <1>3, <1>4, <1>5, <1>6, <1>7, <1>8, <1>9, <1>10, <1>11,
           <1>12, <1>13, <1>14, <1>15, <1>16, <1>17, <1>18, <1>19, <1>20,
           <1>21, <1>22, <1>23 DEF DeployStep

\* Every fault but a kill is met like an error of the step it strikes.
LEMMA FaultAgrees ==
  ASSUME AgreeInv, NEW c \in Cli, FaultStep(c), ~Crash(c)
  PROVE  pc[c] \in Critical /\ Agrees(c)
<1> USE DEF Label, Critical, Recovering, Destroying, Stopping, Deploying
<1>1. CASE StoreFails(c)
  BY <1>1, RejectedAgrees DEF StoreFails
<1>2. CASE DiskFails(c)
  BY <1>2, RejectedAgrees DEF DiskFails
<1>3. CASE StopFails(c)
  BY <1>3, StopReturnsAgrees DEF StopFails
<1>4. CASE ProbeFails(c)
  BY <1>4, RejectedAgrees DEF ProbeFails
<1>5. CASE CaptureFails(c)
  BY <1>5, ExecFailsAgrees DEF CaptureFails
<1>6. CASE ReapedWhileProbed(c)
  BY <1>6, RejectedAgrees DEF ReapedWhileProbed
<1> QED BY <1>1, <1>2, <1>3, <1>4, <1>5, <1>6 DEF FaultStep

-----------------------------------------------------------------------------
(* Theorems.                                                               *)

\* Steps of the environment and of commands that have not begun leave the
\* table alone; what an invocation or the lock does to a CLI is told here.
LEMMA OutsideAgrees ==
  ASSUME AgreeInv, NEW c \in Cli,
         Invocation(c) \/ Acquire(c) \/ StatusBusy(c) \/ Crash(c)
  PROVE  OneActive' /\ Agreement'
<1> USE DEF Label, Critical, Recovering, Destroying, Stopping, Deploying
<1>0. pc \in [Cli -> Label] /\ job \in [Cli -> Job] /\ OneActive /\ Agreement
  BY DEF AgreeInv, TypeInv, CtlOK
<1>1. UNCHANGED db
  BY DEF Invocation, Invoke, Acquire, StatusBusy, Crash, onlyCtl
<1>2. OneActive'
  BY <1>0, <1>1 DEF OneActive, Active
<1>3. ASSUME NEW d \in Cli, d # c
      PROVE  pc'[d] = pc[d] /\ job'[d] = job[d]
  BY <1>0, <1>3 DEF Invocation, Invoke, Acquire, StatusBusy, Crash, Move
<1>4. IF pc'[c] \in Critical THEN Facts(pc'[c], job'[c], db')
                             ELSE ~job'[c].made
  <2>1. CASE Acquire(c)
    <3>1. pc'[c] = "rlist" /\ job'[c] = job[c] /\ ~job[c].made
      BY <1>0, <2>1 DEF Acquire, Agreement
    <3> QED BY <3>1 DEF Facts, Fresh, Sweeps, Current, MadeAt, Clears, Working,
                        Making
  <2>2. CASE Invocation(c)
    <3>1. PICK op \in Op \ {"none"}, flag \in BOOLEAN, i \in Id \cup {NoId} :
            Move(c, "wait", [NoJob EXCEPT !.op = op, !.flag = flag,
                                          !.target = i])
      BY <2>2 DEF Invocation, Invoke
    <3> QED BY <1>0, <3>1 DEF Move, NoJob
  <2>3. CASE StatusBusy(c) \/ Crash(c)
    BY <1>0, <2>3 DEF StatusBusy, Crash, Move, NoJob
  <2> QED BY <2>1, <2>2, <2>3
<1> QED BY <1>0, <1>1, <1>2, <1>3, <1>4 DEF Agreement

\* A step of the command inside keeps what it and the others know.
LEMMA InsideAgrees ==
  ASSUME AgreeInv, MutualExclusion, NEW c \in Cli, pc[c] \in Critical,
         Agrees(c)
  PROVE  OneActive' /\ Agreement'
<1>0. pc \in [Cli -> Label] /\ job \in [Cli -> Job] /\ Agreement
  BY DEF AgreeInv, TypeInv, CtlOK
<1>1. ASSUME NEW d \in Cli, d # c
      PROVE  pc'[d] = pc[d] /\ job'[d] = job[d] /\ pc[d] \notin Critical
  BY <1>0, <1>1 DEF Agrees, Return, Move, MutualExclusion
<1>2. IF pc'[c] \in Critical THEN Facts(pc'[c], job'[c], db')
                             ELSE ~job'[c].made
  <2>1. CASE Return(c)
    BY <1>0, <2>1 DEF Return, NoJob, Critical, Recovering, Destroying,
                      Stopping, Deploying
  <2>2. ASSUME NEW l \in Critical, NEW j \in Job, Move(c, l, j),
               Facts(l, j, db')
        PROVE  pc'[c] = l /\ job'[c] = j
    BY <1>0, <2>2 DEF Move
  <2> QED BY <2>1, <2>2 DEF Agrees
<1> QED BY <1>0, <1>1, <1>2 DEF Agreement, Agrees

\* A step keeps memory and table in agreement.
LEMMA AgreeStep ==
  AgreeInv /\ MutualExclusion /\ [Next]_vars => AgreeInv'
<1> SUFFICES ASSUME AgreeInv, MutualExclusion, [Next]_vars
             PROVE  OneActive' /\ Agreement'
  BY TypeStep DEF AgreeInv
<1>1. ASSUME UNCHANGED <<db, pc, job>> PROVE OneActive' /\ Agreement'
  BY <1>1 DEF AgreeInv, OneActive, Active, Agreement
<1>2. ASSUME NEW c \in Cli, Invocation(c) \/ CliStep(c) \/ FaultStep(c)
      PROVE  OneActive' /\ Agreement'
  <2>1. CASE Invocation(c) \/ Acquire(c) \/ StatusBusy(c) \/ Crash(c)
    BY <2>1, OutsideAgrees
  <2>2. CASE RecoveryStep(c) \/ DestroyStep(c) \/ DeployStep(c)
    <3>1. pc[c] \in Critical
      BY <2>2, RecoveryStepOK, DestroyStepOK, DeployStepOK
         DEF AgreeInv, StepOK
    <3> QED BY <2>2, <3>1, RecoveryAgrees, DestroyAgrees, DeployAgrees,
               InsideAgrees
  <2>3. CASE FaultStep(c) /\ ~Crash(c)
    BY <2>3, FaultAgrees, InsideAgrees
  <2> QED BY <1>2, <2>1, <2>2, <2>3 DEF CliStep
<1>3. ASSUME NEW p \in Pid, ProcessStep(p) PROVE OneActive' /\ Agreement'
  <2>1. CASE UNCHANGED <<db, pc, job>>
    BY <1>1, <2>1
  <2>2. CASE \E c \in Cli :
               /\ pc[c] = "exec" /\ UNCHANGED db
               /\ Move(c, "ffail", [job[c] EXCEPT !.pid = NoPid, !.tok = 0])
    <3>1. "exec" \in Critical
      BY DEF Critical, Deploying
    <3> QED BY <2>2, <3>1, ExecFailsAgrees, InsideAgrees
  <2>3. CASE ChildExecFails(p)
    BY <2>1, <2>2, <2>3 DEF ChildExecFails
  <2>4. CASE ProcessStep(p) /\ ~ChildExecFails(p)
    BY <2>1, <2>4 DEF ProcessStep, ChildExecs, RuntimeExits, RuntimeReaped,
                      RuntimeForks, OthersStart, RuntimeDownloads, ctlVars
  <2> QED BY <1>3, <2>3, <2>4
<1>4. CASE Next
  <2>1. ASSUME NEW i \in Id, ProxyRuns(i) PROVE OneActive' /\ Agreement'
    BY <1>1, <2>1 DEF ProxyRuns, ctlVars
  <2> QED BY <1>2, <1>3, <1>4, <2>1 DEF Next
<1>5. CASE UNCHANGED vars
  BY <1>1, <1>5 DEF vars, ctlVars
<1> QED BY <1>4, <1>5

\* Nothing is active and nobody has begun.
LEMMA InitAgrees == Init => AgreeInv /\ MutualExclusion
<1> SUFFICES ASSUME Init PROVE AgreeInv /\ MutualExclusion
  OBVIOUS
<1>1. \A c \in Cli : pc[c] \notin Critical /\ ~job[c].made
  BY DEF Init, NoJob, Critical, Recovering, Destroying, Stopping, Deploying
<1>2. Active = {}
  BY DEF Init, StoreInit, NoRow, Active
<1> QED BY <1>1, <1>2, InitTyped
        DEF AgreeInv, Agreement, OneActive, MutualExclusion

\* Memory and table agree in every state.
THEOREM MemoryAgrees == Spec => [](AgreeInv /\ MutualExclusion)
<1>1. AgreeInv /\ MutualExclusion /\ [Next]_vars
        => (AgreeInv /\ MutualExclusion)'
  BY AgreeStep, ExclusionStep DEF AgreeInv
<1> QED BY <1>1, InitAgrees, PTL DEF Spec

\* The compare-and-set statements of store.go are a safety net that no
\* command ever falls into: the lock and recovery make every write legal.
THEOREM NoRefusal == Spec => []StoreNeverRefuses
<1>1. AgreeInv => StoreNeverRefuses
  BY FactsAccepted
<1> QED BY <1>1, MemoryAgrees, PTL

\* However often deploy --replace fails half-way or is killed, there is one
\* active record at most.
THEOREM OneIsActive == Spec => []OneActive
<1>1. AgreeInv => OneActive
  BY DEF AgreeInv
<1> QED BY <1>1, MemoryAgrees, PTL

\* recoverInterruptedDeployments leaves no half-started deployment to the
\* command that runs after it.
THEOREM RecoveryIsComplete == Spec => []RecoverySettles
<1>1. AgreeInv => RecoverySettles
  <2> SUFFICES ASSUME AgreeInv, NEW c \in Cli, pc[c] = "work", NEW i \in Id
               PROVE  SettledRow(db[i])
    BY DEF RecoverySettles, SettledRow
  <2>1. pc[c] \in Critical
    BY DEF Critical
  <2> QED BY <2>1 DEF AgreeInv, Agreement, Facts, Sweeps
<1> QED BY <1>1, MemoryAgrees, PTL

=============================================================================
