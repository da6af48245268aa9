-------------------------- MODULE MigrationsProofs --------------------------
(***************************************************************************)
(* Theorems about Migrations for any processes and any binaries.           *)
(***************************************************************************)
EXTENDS Migrations, TLAPS

\* The schema is what the version says.
InStep == db.applied = 1 .. db.version

\* Nobody is ahead of the database, or of its binary.
NotAhead ==
  \A p \in Proc :
    /\ next[p] <= db.version
    /\ pc[p] = "loop" => next[p] <= Known[p]
    /\ pc[p] = "open" => Known[p] <= db.version
    /\ pc[p] = "applyFailed" => next[p] + 1 <= db.version

\* A process between its statement and its commit holds the write lock, its loop
\* is at the version, and its transaction is the next migration.
Writes ==
  \A p \in Proc :
    pc[p] \in {"bump", "commit"} =>
      /\ writer = p
      /\ next[p] = db.version /\ next[p] < Known[p]
      /\ pending.applied = db.applied \cup {next[p] + 1}
      /\ pc[p] = "commit" => pending.version = next[p] + 1

\* The inductive invariant.
IInv == TypeOK /\ InStep /\ NotAhead /\ Writes

LEMMA InitIInv == Init => IInv
BY MigrationsAssumption
   DEF Init, IInv, TypeOK, Database, Place, InStep, NotAhead, Writes

\* A statement that the schema admits is that of the next migration, and one it
\* does not admit is of a migration that is in place.
LEMMA ApplicableIsNext ==
  ASSUME IInv, NEW p \in Proc
  PROVE  /\ Applicable(next[p] + 1) => next[p] = db.version
         /\ ~Applicable(next[p] + 1) => next[p] + 1 <= db.version
<1>1. db.version \in Nat /\ next[p] \in Nat /\ next[p] <= db.version
  BY DEF IInv, TypeOK, Database, NotAhead
<1>2. db.applied = 1 .. db.version
  BY DEF IInv, InStep
<1> QED BY <1>1, <1>2 DEF Applicable

LEMMA IInvStep == IInv /\ [Next]_vars => IInv'
<1> SUFFICES ASSUME IInv, [Next]_vars PROVE IInv'
  OBVIOUS
<1>t. /\ db.applied \in SUBSET (Nat \ {0}) /\ db.version \in Nat
      /\ pending.applied \in SUBSET (Nat \ {0}) /\ pending.version \in Nat
      /\ pc \in [Proc -> Place] /\ next \in [Proc -> Nat]
      /\ Known \in [Proc -> Nat \ {0}] /\ Nobody \notin Proc
      /\ writer \in Proc \cup {Nobody}
      /\ db \in Database /\ pending \in Database
  BY MigrationsAssumption DEF IInv, TypeOK, Database
<1>i. InStep /\ NotAhead /\ Writes
  BY DEF IInv
<1>1. ASSUME NEW p \in Proc, OpenFile(p) PROVE IInv'
  BY <1>t, <1>i, <1>1
     DEF OpenFile, Refused, IInv, TypeOK, Place, InStep, NotAhead, Writes
<1>2. ASSUME NEW p \in Proc, ReadVersion(p) PROVE IInv'
  BY <1>t, <1>i, <1>2
     DEF ReadVersion, IInv, TypeOK, Place, Refused, InStep, NotAhead, Writes
<1>3. ASSUME NEW p \in Proc, Apply(p) PROVE IInv'
  <2>1. next[p] = db.version
    BY <1>3, ApplicableIsNext DEF Apply
  <2>2. \A q \in Proc : pc[q] \notin {"bump", "commit"}
    BY <1>t, <1>i, <1>3 DEF Apply, Writes
  <2>3. pending' = [applied |-> db.applied \cup {next[p] + 1}, version |-> db.version]
    BY <1>t, <1>3 DEF Apply, Database
  <2>4. pending' \in Database
    BY <1>t, <2>3 DEF Database
  <2>5. TypeOK'
    BY <1>t, <1>3, <2>4 DEF Apply, TypeOK, Place
  <2>6. Writes'
    BY <1>t, <1>3, <2>1, <2>2, <2>3 DEF Apply, Writes
  <2>7. InStep' /\ NotAhead'
    BY <1>t, <1>i, <1>3 DEF Apply, InStep, NotAhead
  <2> QED BY <2>5, <2>6, <2>7 DEF IInv
<1>4. ASSUME NEW p \in Proc, ApplyFails(p) PROVE IInv'
  <2>1. next[p] + 1 <= db.version
    BY <1>4, ApplicableIsNext DEF ApplyFails
  <2> QED BY <1>t, <1>i, <1>4, <2>1
     DEF ApplyFails, IInv, TypeOK, Place, Refused, InStep, NotAhead, Writes
<1>5. ASSUME NEW p \in Proc, GiveUp(p) PROVE IInv'
  BY <1>t, <1>i, <1>5
     DEF GiveUp, IInv, TypeOK, Place, Refused, InStep, NotAhead, Writes
<1>6. ASSUME NEW p \in Proc, Bump(p) PROVE IInv'
  <2>1. pending' = [applied |-> pending.applied, version |-> next[p] + 1]
    BY <1>t, <1>6 DEF Bump, Database
  <2>2. \A q \in Proc : pc[q] \in {"bump", "commit"} => q = p
    BY <1>i, <1>6 DEF Bump, Writes
  <2>3. TypeOK'
    BY <1>t, <1>6, <2>1 DEF Bump, TypeOK, Database, Place
  <2>4. Writes'
    BY <1>t, <1>i, <1>6, <2>1, <2>2 DEF Bump, Writes
  <2>5. InStep' /\ NotAhead'
    BY <1>t, <1>i, <1>6 DEF Bump, InStep, NotAhead
  <2> QED BY <2>3, <2>4, <2>5 DEF IInv
<1>7. ASSUME NEW p \in Proc, Commit(p) PROVE IInv'
  <2>1. /\ next[p] = db.version /\ next[p] < Known[p]
        /\ db'.applied = db.applied \cup {next[p] + 1} /\ db'.version = next[p] + 1
    BY <1>i, <1>7 DEF Commit, Writes
  <2>2. \A q \in Proc : pc[q] \in {"bump", "commit"} => q = p
    BY <1>i, <1>7 DEF Commit, Writes
  <2>3. TypeOK'
    BY <1>t, <1>7 DEF Commit, TypeOK, Place
  <2>4. InStep'
    BY <1>t, <1>i, <2>1 DEF InStep
  <2>5. NotAhead'
    BY <1>t, <1>i, <1>7, <2>1 DEF Commit, NotAhead
  <2>6. Writes'
    BY <1>t, <1>7, <2>2 DEF Commit, Writes
  <2> QED BY <2>3, <2>4, <2>5, <2>6 DEF IInv
<1>8. ASSUME NEW p \in Proc, Opened(p) PROVE IInv'
  BY <1>t, <1>i, <1>8
     DEF Opened, IInv, TypeOK, Place, InStep, NotAhead, Writes
<1>9. ASSUME NEW p \in Proc, Close(p) PROVE IInv'
  BY <1>t, <1>i, <1>9
     DEF Close, IInv, TypeOK, Place, InStep, NotAhead, Writes
<1>10. ASSUME NEW p \in Proc, Kill(p) PROVE IInv'
  BY <1>t, <1>i, <1>10
     DEF Kill, IInv, TypeOK, Place, InStep, NotAhead, Writes
<1>11. CASE UNCHANGED vars
  BY <1>11 DEF vars, IInv, TypeOK, InStep, NotAhead, Writes, Applicable
<1> QED
  BY <1>1, <1>2, <1>3, <1>4, <1>5, <1>6, <1>7, <1>8, <1>9, <1>10, <1>11
     DEF Next, Migrate

\* The invariant holds whatever processes open the database, killed or not.
THEOREM Invariant == Spec => []IInv
<1> QED BY InitIInv, IInvStep, PTL DEF Spec

\* A store that Open returned has every table and column that its binary's
\* statements name, however many processes of whatever binaries race for it.
THEOREM OpenStoresAreComplete == Spec => []StoresComplete
<1>1. IInv => StoresComplete
  <2> SUFFICES ASSUME IInv, NEW p \in Proc, pc[p] = "open"
               PROVE  1 .. Known[p] \subseteq db.applied
    BY DEF StoresComplete, OpenHasItsColumns, IInv
  <2>1. Known[p] \in Nat /\ db.version \in Nat /\ Known[p] <= db.version
    BY MigrationsAssumption DEF IInv, TypeOK, Database, NotAhead
  <2> QED BY <2>1 DEF IInv, InStep
<1> QED BY <1>1, Invariant, PTL

\* An Open that fails on a statement has lost a race to a process that applied
\* the same migration.
THEOREM FailuresAreLostRaces == Spec => []FailureIsLostRace
<1>1. IInv => FailureIsLostRace
  BY DEF IInv, NotAhead, FailureIsLostRace
<1> QED BY <1>1, Invariant, PTL

\* No binary knows more migrations than the newest.
LEMMA TopIsHighest == \A p \in Proc : Top \in Nat /\ Known[p] <= Top
<1>1. PICK newest \in Proc : \A p \in Proc : Known[p] <= Known[newest]
  BY MigrationsAssumption
<1>2. \E n \in {Known[p] : p \in Proc} : \A p \in Proc : Known[p] <= n
  BY <1>1
<1>3. /\ Top \in {Known[p] : p \in Proc}
      /\ \A p \in Proc : Known[p] <= Top
  BY <1>2 DEF Top
<1> QED BY <1>3, MigrationsAssumption

\* Whatever a process does is the next migration of the schema, or nothing.
LEMMA SchemaStep ==
  IInv /\ [Next]_vars => [InOrder!Migrate]_<<db.applied, db.version>>
<1> SUFFICES ASSUME IInv, [Next]_vars, UNCHANGED db \/ \E p \in Proc : Commit(p)
             PROVE  [InOrder!Migrate]_<<db.applied, db.version>>
  BY DEF Next, Migrate, OpenFile, ReadVersion, Apply, ApplyFails, GiveUp, Bump,
         Opened, Close, Kill, vars
<1>1. CASE UNCHANGED db
  BY <1>1
<1>2. ASSUME NEW p \in Proc, Commit(p) PROVE InOrder!Migrate
  <2>1. /\ next[p] = db.version /\ next[p] < Known[p]
        /\ db'.applied = db.applied \cup {next[p] + 1} /\ db'.version = next[p] + 1
    BY <1>2 DEF Commit, IInv, Writes
  <2>2. db.version < Top
    BY <2>1, TopIsHighest, MigrationsAssumption DEF IInv, TypeOK, Database
  <2> QED BY <2>1, <2>2 DEF InOrder!Migrate
<1> QED BY <1>1, <1>2

\* The schema is built one migration at a time, in order, each exactly once.
THEOREM SchemaInOrder == Spec => Implements
<1>1. Init => InOrder!Init
  BY DEF Init, InOrder!Init
<1> QED BY <1>1, SchemaStep, Invariant, PTL DEF Spec, Implements, InOrder!Spec

=============================================================================
