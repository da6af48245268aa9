-------------------------------- MODULE Store --------------------------------
(***************************************************************************)
(* The deployment table of internal/state/store.go.  One operator per      *)
(* statement of the store: "...OK" is the WHERE clause (with the legality  *)
(* check in front of it), the operator of the same name is the write.      *)
(* SQLite runs each statement atomically, so each is one step.             *)
(*                                                                         *)
(* A row keeps the columns the lifecycle decides on:                       *)
(*   key     the idempotency key, a number no two deployments share        *)
(*   pid,tok the recorded runtime: process id and OS start token           *)
(*   intent  a command line is recorded                                    *)
(*   upd     updated_at, as the number of process starts seen so far       *)
(***************************************************************************)
EXTENDS Universe, Phases, Naturals

VARIABLE db

Row == [phase : Phase \cup {Absent}, key : Nat, pid : Pid \cup {NoPid},
        tok : Nat, intent : BOOLEAN, upd : Nat]

NoRow == [phase |-> Absent, key |-> 0, pid |-> NoPid, tok |-> 0,
          intent |-> FALSE, upd |-> 0]

StoreInit == db = [i \in Id |-> NoRow]

\* INSERT: the id is the primary key, the row starts in REQUESTED.
CreateOK(i) == db[i].phase = Absent
\* Mutant: the row starts in a phase the state machine does not know.
NewRowUnknownPhase(k, now) ==
  [NoRow EXCEPT !.phase = "PENDING", !.key = k, !.upd = now]

NewRow(k, now) == [NoRow EXCEPT !.phase = "REQUESTED", !.key = k, !.upd = now]
Create(i, k, now) == db' = [db EXCEPT ![i] = NewRow(k, now)]

\* Compare-and-set of the phase.
TransitionOK(i, from, to) == checkTransition(from, to) /\ db[i].phase = from
Transition(i, to, now) ==
  db' = [db EXCEPT ![i] = [@ EXCEPT !.phase = to, !.upd = now]]

\* The command that is about to run is persisted before the process exists.
SetRuntimeIntentOK(i) == db[i].phase = "DOWNLOADING"
SetRuntimeIntent(i, now) ==
  db' = [db EXCEPT ![i] = [@ EXCEPT !.pid = NoPid, !.tok = 0,
                                    !.intent = TRUE, !.upd = now]]

\* A process is attached to a STARTING row that has none.
SetRuntimeOK(i) == db[i].phase = "STARTING" /\ db[i].pid = NoPid
SetRuntime(i, p, t, now) ==
  db' = [db EXCEPT ![i] = [@ EXCEPT !.pid = p, !.tok = t,
                                    !.intent = TRUE, !.upd = now]]

DeleteOK(i) == db[i].phase = "DESTROYED"
Delete(i) == db' = [db EXCEPT ![i] = NoRow]

=============================================================================
