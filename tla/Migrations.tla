----------------------------- MODULE Migrations -----------------------------
(***************************************************************************)
(* state.Open and Store.migrate, run by several processes at once.         *)
(*                                                                         *)
(* The operation lock does not protect Open: iold logs never takes it, and *)
(* iold status goes on without it when it is busy.  What orders the        *)
(* processes is SQLite alone: one write transaction at a time, a waiter    *)
(* gives up after busy_timeout, a killed process is rolled back.  The      *)
(* version is read before the first transaction, outside of any.           *)
(***************************************************************************)
EXTENDS Naturals, FiniteSets

CONSTANTS
  Proc,       \* the processes that open the database
  Nobody,     \* no process holds the write lock
  Known,      \* Known[p] = len(migrations) in the binary p runs
  Faults      \* what may go wrong: a subset of {"kill", "busy"}

ASSUME MigrationsAssumption ==
  /\ Nobody \notin Proc
  /\ Known \in [Proc -> Nat \ {0}]
  /\ \E newest \in Proc : \A p \in Proc : Known[p] <= Known[newest]
  /\ Faults \subseteq {"kill", "busy"}

VARIABLES
  db,       \* the committed database: the migrations applied, user_version
  pending,  \* the database as the open write transaction sees it
  writer,   \* the process whose transaction holds the write lock
  pc,       \* where each process is in Open
  next      \* the loop variable i of migrate

vars == <<db, pending, writer, pc, next>>

Database == [applied : SUBSET (Nat \ {0}), version : Nat]

\* The ways Open returns an error.
Refused == {"newer", "applyFailed", "locked"}
Place == {"closed", "read", "loop", "bump", "commit", "open"} \cup Refused

Init ==
  /\ db = [applied |-> {}, version |-> 0]
  /\ pending = db
  /\ writer = Nobody
  /\ pc = [p \in Proc |-> "closed"]
  /\ next = [p \in Proc |-> 0]

-----------------------------------------------------------------------------
\* The directory and the file exist with their modes; nothing is read yet.
OpenFile(p) ==
  /\ pc[p] \in {"closed"} \cup Refused
  /\ pc' = [pc EXCEPT ![p] = "read"]
  /\ UNCHANGED <<db, pending, writer, next>>

\* Mutant: every Open starts with the first migration.
ReadNothing(p) ==
  /\ pc[p] = "read"
  /\ next' = [next EXCEPT ![p] = 0]
  /\ pc' = [pc EXCEPT ![p] = "loop"]
  /\ UNCHANGED <<db, pending, writer>>

\* PRAGMA user_version, outside of a transaction: never blocked by a writer.
ReadVersion(p) ==
  /\ pc[p] = "read"
  /\ next' = [next EXCEPT ![p] = db.version]
  /\ pc' = [pc EXCEPT ![p] = IF db.version > Known[p] THEN "newer" ELSE "loop"]
  /\ UNCHANGED <<db, pending, writer>>

\* CREATE TABLE needs the table to be absent, ADD COLUMN the table to be
\* there and the column to be absent.
Applicable(i) ==
  /\ i \notin db.applied
  /\ i > 1 => 1 \in db.applied

\* Mutant: the statement runs outside of the transaction.
ApplyAtOnce(p) ==
  /\ pc[p] = "loop"
  /\ next[p] < Known[p]
  /\ writer = Nobody
  /\ Applicable(next[p] + 1)
  /\ writer' = p
  /\ db' = [db EXCEPT !.applied = @ \cup {next[p] + 1}]
  /\ pending' = db'
  /\ pc' = [pc EXCEPT ![p] = "bump"]
  /\ UNCHANGED next

\* Begin and the first statement, which takes the write lock.
Apply(p) ==
  /\ pc[p] = "loop"
  /\ next[p] < Known[p]
  /\ writer = Nobody
  /\ Applicable(next[p] + 1)
  /\ writer' = p
  /\ pending' = [db EXCEPT !.applied = @ \cup {next[p] + 1}]
  /\ pc' = [pc EXCEPT ![p] = "bump"]
  /\ UNCHANGED <<db, next>>

\* The statement fails when it is compiled against the committed schema, whoever
\* holds the write lock: rollback and the error "apply migration".
ApplyFails(p) ==
  /\ pc[p] = "loop"
  /\ next[p] < Known[p]
  /\ ~Applicable(next[p] + 1)
  /\ pc' = [pc EXCEPT ![p] = "applyFailed"]
  /\ UNCHANGED <<db, pending, writer, next>>

\* busy_timeout runs out while another transaction holds the lock.
GiveUp(p) ==
  /\ "busy" \in Faults
  /\ pc[p] = "loop"
  /\ next[p] < Known[p]
  /\ writer # Nobody
  /\ pc' = [pc EXCEPT ![p] = "locked"]
  /\ UNCHANGED <<db, pending, writer, next>>

\* Mutant: the version says that all migrations are applied.
BumpToNewest(p) ==
  /\ pc[p] = "bump"
  /\ pending' = [pending EXCEPT !.version = Known[p]]
  /\ pc' = [pc EXCEPT ![p] = "commit"]
  /\ UNCHANGED <<db, writer, next>>

\* PRAGMA user_version = i+1, inside the transaction.
Bump(p) ==
  /\ pc[p] = "bump"
  /\ pending' = [pending EXCEPT !.version = next[p] + 1]
  /\ pc' = [pc EXCEPT ![p] = "commit"]
  /\ UNCHANGED <<db, writer, next>>

Commit(p) ==
  /\ pc[p] = "commit"
  /\ db' = pending
  /\ writer' = Nobody
  /\ next' = [next EXCEPT ![p] = @ + 1]
  /\ pc' = [pc EXCEPT ![p] = "loop"]
  /\ UNCHANGED pending

\* Mutant: the loop ends before the last migration.
OpenedEarly(p) ==
  /\ pc[p] = "loop"
  /\ next[p] >= Known[p] - 1
  /\ pc' = [pc EXCEPT ![p] = "open"]
  /\ UNCHANGED <<db, pending, writer, next>>

\* The loop ends: Open returns the store.
Opened(p) ==
  /\ pc[p] = "loop"
  /\ next[p] = Known[p]
  /\ pc' = [pc EXCEPT ![p] = "open"]
  /\ UNCHANGED <<db, pending, writer, next>>

Close(p) ==
  /\ pc[p] = "open"
  /\ pc' = [pc EXCEPT ![p] = "closed"]
  /\ UNCHANGED <<db, pending, writer, next>>

\* The process is killed inside Open; its transaction is rolled back.
Kill(p) ==
  /\ "kill" \in Faults
  /\ pc[p] \in {"read", "loop", "bump", "commit"}
  /\ pc' = [pc EXCEPT ![p] = "closed"]
  /\ writer' = IF writer = p THEN Nobody ELSE writer
  /\ UNCHANGED <<db, pending, next>>

-----------------------------------------------------------------------------
\* What a process does inside Open.
Migrate(p) ==
  \/ ReadVersion(p) \/ Apply(p) \/ ApplyFails(p) \/ GiveUp(p)
  \/ Bump(p) \/ Commit(p) \/ Opened(p)

Next ==
  \E p \in Proc : OpenFile(p) \/ Migrate(p) \/ Close(p) \/ Kill(p)

Spec == Init /\ [][Next]_vars

\* A process inside Open goes on, and a command that has its store ends;
\* whether a command is run at all or killed is nobody's duty.
FairSpec == Spec /\ \A p \in Proc : WF_vars(Migrate(p)) /\ WF_vars(Close(p))

-----------------------------------------------------------------------------
TypeOK ==
  /\ db \in Database
  /\ pending \in Database
  /\ writer \in Proc \cup {Nobody}
  /\ pc \in [Proc -> Place]
  /\ next \in [Proc -> Nat]

\* The schema is built one migration at a time, in order, each exactly once,
\* whoever applies it and whoever is killed on the way: a transaction carries
\* both the statement and the version.
Top == CHOOSE n \in {Known[p] : p \in Proc} : \A p \in Proc : Known[p] <= n
InOrder == INSTANCE Schema WITH applied <- db.applied, version <- db.version
Implements == InOrder!Spec

\* A store that is open has every table and column its binary's statements
\* name, also when another binary has migrated further since.
OpenHasItsColumns ==
  \A p \in Proc : pc[p] = "open" => 1 .. Known[p] \subseteq db.applied

\* Types, and the columns of the stores that are open.
StoresComplete == TypeOK /\ OpenHasItsColumns

\* An Open that fails on a statement has lost a race, and nothing else: the
\* migration it meant to apply is in place, so the next Open starts after it.
FailureIsLostRace ==
  \A p \in Proc : pc[p] = "applyFailed" => next[p] + 1 <= db.version

\* Losing the race is not losing: a command that is run again and again gets
\* its store again and again (or is of an older binary and told so), once the
\* kills end.  No order of the processes starves one of them for good.
RepeatedOpenSucceeds ==
  \A p \in Proc :
    (/\ []<><<OpenFile(p)>>_vars
     /\ <>[][\A q \in Proc : ~Kill(q)]_vars)
      => []<>(pc[p] \in {"open", "newer"})

\* Claim: Open "applies any pending migrations" (a store.go comment), so that
\* without a fault every Open of one and the same binary gets its store.
OpenSucceeds == \A p \in Proc : pc[p] \notin Refused

=============================================================================
