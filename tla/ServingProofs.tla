---------------------------- MODULE ServingProofs ----------------------------
(***************************************************************************)
(* Theorems about Serving for any ports, servers and scenarios.            *)
(***************************************************************************)
EXTENDS Serving, TLAPS

-----------------------------------------------------------------------------
(* The inductive invariant.                                                *)

Wait == Scenarios[scene].healthTimeout + 1
ReadyWait == Scenarios[scene].readyTimeout + 1

\* The labels before the new runtime exists, and those of the two waits.
Preparing == {"preflight", "scan", "replace", "launch"}
Starting == {"alive", "ask", "late"}
Testing == {"models", "infer", "unready", "registering"}

\* The recorded phase is that of the label, and a wait overshoots its deadline
\* by one poll, and by one request more before the deadline is looked at.
Waits ==
  /\ pc \in Preparing \cup Starting \cup Testing \cup {"returned"}
  /\ elapsed \in Nat
  /\ pc \in Preparing <=> phase = "none" /\ pc # "returned"
  /\ pc \in Starting <=> phase = "STARTING"
  /\ pc \in Testing <=> phase = "HEALTHY"
  /\ pc \in {"alive", "ask"} => elapsed <= Wait
  /\ pc = "late" => elapsed <= Wait + Slow
  /\ pc \in {"models", "infer", "registering"} => elapsed <= ReadyWait
  /\ pc = "unready" => elapsed <= ReadyWait + Slow

\* While there is a runtime its port stands.
Placed ==
  /\ pc \in Preparing => runtime = "absent"
  /\ pc = "preflight" => port = NoPort
  /\ pc = "scan" => port \in Scanned \cup {Preferred + Window}
  /\ pc \in {"replace", "launch"} \cup Starting \cup Testing => port \in Port
  /\ runtime # "absent" => port \in Port

Typed == TypeOK /\ scene \in DOMAIN Scenarios /\ Waits /\ Placed

-----------------------------------------------------------------------------
(* Types.                                                                  *)

\* What the constants are.
LEMMA Ports ==
  /\ Preferred \in Nat \ {0} /\ Window \in Nat \ {0}
  /\ Preferred \in Scanned /\ Scanned \subseteq Port /\ NoPort \notin Port
  /\ Preferred + Window \notin Scanned
  /\ \A p \in Scanned : p + 1 \in Scanned \cup {Preferred + Window}
BY ServingAssumption DEF Scanned, Port, NoPort

\* The durations of a scenario.
LEMMA Durations ==
  ASSUME scene \in DOMAIN Scenarios
  PROVE  /\ Scenarios[scene] \in Scenario
         /\ Slow \in Nat /\ Wait \in Nat /\ ReadyWait \in Nat
         /\ Scenarios[scene].visits \in Nat
         /\ Scenarios[scene].healthTimeout \in Nat
         /\ Scenarios[scene].readyTimeout \in Nat
         /\ OldPort \in Port
BY ServingAssumption DEF Scenario, Slow, Wait, ReadyWait, OldPort, Port

\* Whose listener it is.
LEMMA Owners ==
  /\ Nobody.is = "nobody" /\ Old.is = "old" /\ New.is = "new"
  /\ \A s : Other(s).is = "other"
  /\ Nobody \in Listener /\ Old \in Listener /\ New \in Listener
  /\ \A s \in Scenarios[scene].visitors \cup Scenarios[scene].squatters :
       Other(s) \in Listener
BY DEF Nobody, Old, New, Other, Listener

\* The deploy starts typed.
LEMMA InitTyped == Init => Typed
<1> SUFFICES ASSUME Init PROVE Typed
  OBVIOUS
<1>1. \A p \in Port : listener[p] \in Listener /\ listener[p].is # "new"
  BY Owners DEF Init
<1>2. listener \in [Port -> Listener]
  BY <1>1 DEF Init
<1>3. scene \in DOMAIN Scenarios
  BY DEF Init
<1> QED BY <1>1, <1>2, <1>3, Durations, Owners
        DEF Init, Typed, TypeOK, Waits, Placed, Preparing, Starting, Testing

\* A request takes up to Slow polls.
LEMMA RequestTakes ==
  ASSUME elapsed \in Nat, Slow \in Nat, Takes, NEW b \in Nat, elapsed <= b
  PROVE  elapsed' \in Nat /\ elapsed' <= b + Slow
BY DEF Takes

\* The new runtime is stopped, or nothing happens to it.
LEMMA FailTyped ==
  ASSUME Typed, UNCHANGED <<scene, server, port, inferred, visits>>,
         NEW why, Fail(why), elapsed' \in Nat, pc \in Starting \cup Testing
  PROVE  Typed'
<1>0. Listener' = Listener
  BY DEF Listener
<1>1. /\ listener' \in [Port -> Listener]
      /\ \A p \in Port :
           listener'[p].is = "new" <=> runtime' = "listening" /\ p = port
  <2>1. CASE UNCHANGED <<runtime, listener>>
    BY <2>1 DEF Typed, TypeOK
  <2>2. CASE /\ runtime' = "dead"
             /\ listener' = [p \in Port |-> IF listener[p].is = "new"
                                            THEN Nobody ELSE listener[p]]
    BY <2>2, Owners DEF Typed, TypeOK
  <2> QED BY <2>1, <2>2 DEF Fail
<1>2. runtime' \in {runtime, "dead"}
  BY DEF Fail
<1> QED BY <1>0, <1>1, <1>2
        DEF Typed, TypeOK, Waits, Placed, Fail, Go, Preparing, Starting, Testing,
            Slow, Wait, ReadyWait

\* Every step keeps the types.
LEMMA StepTyped == Typed /\ [Next]_vars => Typed'
<1> SUFFICES ASSUME Typed, [Next]_vars PROVE Typed'
  OBVIOUS
<1> USE Ports, Durations
<1> USE DEF Preparing, Starting, Testing
<1>1. CASE UNCHANGED vars
  BY <1>1 DEF vars, Typed, TypeOK, Waits, Placed, Listener, Slow, Wait, ReadyWait
<1>2. ASSUME UNCHANGED <<scene, server>> PROVE Listener' = Listener /\ Slow' = Slow /\ Wait' = Wait /\ ReadyWait' = ReadyWait
  BY <1>2 DEF Listener, Slow, Wait, ReadyWait
<1>3. CASE ChoosePort \/ AllocatePort \/ ReplaceFails
  BY <1>2, <1>3 DEF ChoosePort, AllocatePort, ReplaceFails, onlyCtl, fixed, Go, Refuse, Typed, TypeOK,
       Waits, Placed
<1>4. CASE Replace
  <2>1. listener' \in [Port -> Listener] /\ \A p \in Port : listener'[p].is = "new" <=> listener[p].is = "new"
    BY <1>4, Owners DEF Replace, Typed, TypeOK
  <2> QED BY <1>2, <1>4, <2>1 DEF Replace, fixed, Go, Typed, TypeOK, Waits, Placed
<1>5. CASE Launch
  BY <1>2, <1>5 DEF Launch, fixed, Go, Typed, TypeOK, Waits, Placed
<1>6. CASE CheckAlive
  <2>1. CASE Fail("exited")
    BY <1>6, <2>1, FailTyped DEF CheckAlive, fixed, Typed, Waits
  <2>2. CASE Go("ask") /\ UNCHANGED <<runtime, listener, phase, reason>>
    BY <1>2, <1>6, <2>2 DEF CheckAlive, fixed, Go, Typed, TypeOK, Waits, Placed
  <2> QED BY <1>6, <2>1, <2>2 DEF CheckAlive
<1>7. CASE AskHealth
  <2>1. CASE phase' = "HEALTHY" /\ elapsed' = 0 /\ Go("models")
    BY <1>2, <1>7, <2>1 DEF AskHealth, fixed, Go, Typed, TypeOK, Waits, Placed
  <2>2. CASE Takes /\ Go("late") /\ UNCHANGED phase
    <3>1. elapsed' \in Nat /\ elapsed' <= Wait + Slow
      BY <1>7, <2>2, RequestTakes DEF AskHealth, Typed, Waits
    <3> QED BY <1>2, <1>7, <2>2, <3>1
            DEF Wait, ReadyWait, AskHealth, fixed, Go, Typed, TypeOK, Waits, Placed
  <2> QED BY <1>7, <2>1, <2>2 DEF AskHealth
<1>8. CASE HealthDeadline
  <2>1. CASE Fail("unhealthy") /\ UNCHANGED elapsed
    BY <1>8, <2>1, FailTyped DEF HealthDeadline, fixed, Typed, Waits
  <2>2. CASE /\ elapsed <= Scenarios[scene].healthTimeout /\ PollAgain("alive")
             /\ UNCHANGED <<runtime, listener, phase, reason>>
    BY <1>2, <1>8, <2>2 DEF HealthDeadline, fixed, Go, Typed, TypeOK, Waits, Placed, PollAgain, Wait
  <2> QED BY <1>8, <2>1, <2>2 DEF HealthDeadline
<1>9. CASE ListModels
  <2>1. CASE Go("infer") /\ UNCHANGED elapsed
    BY <1>2, <1>9, <2>1
       DEF ListModels, onlyCtl, fixed, Go, Typed, TypeOK, Waits, Placed
  <2>2. CASE Takes /\ Go("unready")
    <3>1. elapsed' \in Nat /\ elapsed' <= ReadyWait + Slow
      BY <1>9, <2>2, RequestTakes DEF ListModels, Typed, Waits
    <3> QED BY <1>2, <1>9, <2>2, <3>1
            DEF Wait, ReadyWait, ListModels, onlyCtl, fixed, Go, Typed, TypeOK, Waits, Placed
  <2> QED BY <1>9, <2>1, <2>2 DEF ListModels
<1>10. CASE Inference
  <2>1. CASE /\ inferred' = listener[port]
             /\ Go("registering") /\ UNCHANGED elapsed
    BY <1>2, <1>10, <2>1 DEF Inference, fixed, Go, Typed, TypeOK, Waits, Placed
  <2>2. CASE Takes /\ Go("unready") /\ UNCHANGED inferred
    <3>1. elapsed' \in Nat /\ elapsed' <= ReadyWait + Slow
      BY <1>10, <2>2, RequestTakes DEF Inference, Typed, Waits
    <3> QED BY <1>2, <1>10, <2>2, <3>1
            DEF Wait, ReadyWait, Inference, fixed, Go, Typed, TypeOK, Waits, Placed
  <2> QED BY <1>10, <2>1, <2>2 DEF Inference
<1>11. CASE ReadyDeadline
  <2>1. CASE Fail("not ready") /\ UNCHANGED elapsed
    BY <1>11, <2>1, FailTyped DEF ReadyDeadline, fixed, Typed, Waits
  <2>2. CASE /\ elapsed <= Scenarios[scene].readyTimeout /\ PollAgain("models")
             /\ UNCHANGED <<runtime, listener, phase, reason>>
    <3>1. elapsed' \in Nat /\ elapsed' <= ReadyWait /\ pc' = "models"
      BY <2>2 DEF PollAgain, ReadyWait, Typed, Waits, Go
    <3>2. UNCHANGED <<scene, server, port, inferred, visits>>
          /\ phase = "HEALTHY" /\ port \in Port
      BY <1>11 DEF ReadyDeadline, fixed, Typed, Waits, Placed
    <3> QED BY <1>2, <2>2, <3>1, <3>2
            DEF Wait, ReadyWait, Typed, TypeOK, Waits, Placed
  <2> QED BY <1>11, <2>1, <2>2 DEF ReadyDeadline
<1>12. CASE Register
  BY <1>2, <1>12 DEF Register, onlyCtl, fixed, Go, Typed, TypeOK, Waits, Placed
<1>13. CASE RuntimeBinds
  <2>1. CASE PortFree(port)
    <3>1. listener' \in [Port -> Listener] /\ \A p \in Port : listener'[p].is = "new" <=> p = port
      BY <1>13, <2>1, Owners DEF RuntimeBinds, Typed, TypeOK, Placed
    <3> QED BY <1>2, <1>13, <2>1, <3>1 DEF RuntimeBinds, env, fixed, Typed, TypeOK, Waits, Placed
  <2>2. CASE ~PortFree(port)
    BY <1>2, <1>13, <2>2 DEF RuntimeBinds, env, fixed, Typed, TypeOK, Waits, Placed
  <2> QED BY <2>1, <2>2
<1>14. CASE RuntimeDies
  <2>1. listener' \in [Port -> Listener] /\ \A p \in Port : listener'[p].is # "new"
    BY <1>14, Owners DEF RuntimeDies, Typed, TypeOK
  <2> QED BY <1>2, <1>14, <2>1 DEF RuntimeDies, env, fixed, Typed, TypeOK, Waits, Placed
<1>15. CASE OldDies \/ OtherBinds \/ OtherLeaves
  <2>1. listener' \in [Port -> Listener] /\ \A p \in Port : listener'[p].is = "new" <=> listener[p].is = "new"
    BY <1>15, Owners DEF OldDies, OtherBinds, OtherLeaves, PortFree, Typed, TypeOK
  <2>2. visits' \in 0 .. Scenarios[scene].visits
    BY <1>15 DEF OldDies, OtherBinds, OtherLeaves, Typed, TypeOK
  <2> QED BY <1>2, <1>15, <2>1, <2>2 DEF OldDies, OtherBinds, OtherLeaves, env, fixed, Typed, TypeOK, Waits, Placed
<1> QED BY <1>1, <1>3, <1>4, <1>5, <1>6, <1>7, <1>8, <1>9, <1>10, <1>11, <1>12, <1>13, <1>14,
           <1>15 DEF Next, Deploy

\* The ports, the listeners and the length of the waits.
THEOREM TypeCorrect == Spec => []TypeOK
<1>1. Typed => TypeOK
  BY DEF Typed
<1> QED BY <1>1, InitTyped, StepTyped, PTL DEF Spec

-----------------------------------------------------------------------------
(* The port.                                                               *)

\* Nobody but the replaced deployment holds the port it has recorded.
RecordedPortIsKept ==
  \A name \in DOMAIN Scenarios :
    LET s == Scenarios[name] IN
    s.oldPort = Preferred /\ FALSE \in s.oldAlive => s.squatters = {}

\* Nobody has come: the recorded port is the old runtime's or free, so is the
\* one that was found, and after the replacement no old runtime is left.
Vacant ==
  visits = 0 /\ runtime \in {"absent", "loading"} =>
    /\ pc = "preflight" /\ OldPort = Preferred
         => listener[Preferred] \in {Nobody, Old}
    /\ pc = "replace" => listener[port] \in {Nobody, Old}
    /\ pc \in {"launch"} \cup Starting => PortFree(port)

\* The scan finds ports nobody listens on; whoever leaves, leaves them so.
LEMMA VacantStep == Typed /\ Vacant /\ [Next]_vars => Vacant'
<1> SUFFICES ASSUME Typed, Vacant, [Next]_vars, visits' = 0,
                    runtime' \in {"absent", "loading"}
             PROVE  /\ pc' = "preflight" /\ OldPort' = Preferred
                         => listener'[Preferred] \in {Nobody, Old}
                    /\ pc' = "replace" => listener'[port'] \in {Nobody, Old}
                    /\ pc' \in {"launch"} \cup Starting
                         => listener'[port'] = Nobody
  BY DEF Vacant, PortFree
<1> USE Ports, Owners
<1> USE DEF Preparing, Starting, Testing, PortFree
<1>0. /\ listener \in [Port -> Listener] /\ visits \in Nat
      /\ pc \in {"replace", "launch"} \cup Starting => port \in Port
      /\ Preferred \in Port
  BY Durations DEF Typed, TypeOK, Placed
<1>1. CASE UNCHANGED vars
  BY <1>1 DEF vars, Vacant, OldPort
<1>2. CASE ChoosePort \/ AllocatePort \/ Replace \/ ReplaceFails \/ Launch
  BY <1>0, <1>2 DEF ChoosePort, AllocatePort, Replace, ReplaceFails, Launch,
       onlyCtl, fixed, Go, Refuse, Vacant, Typed, Placed
<1>3. CASE CheckAlive \/ AskHealth \/ HealthDeadline
  <2>1. ASSUME NEW why, Fail(why) PROVE pc' = "returned"
    BY <2>1 DEF Fail, Go
  <2> QED BY <1>0, <1>3, <2>1 DEF CheckAlive, AskHealth, HealthDeadline, fixed, Go,
            PollAgain, Vacant
<1>4. CASE ListModels \/ Inference \/ ReadyDeadline \/ Register
  <2>1. ASSUME NEW why, Fail(why) PROVE pc' = "returned"
    BY <2>1 DEF Fail, Go
  <2> QED BY <1>4, <2>1 DEF ListModels, Inference, ReadyDeadline, Register, Go,
            PollAgain
<1>5. CASE RuntimeBinds \/ RuntimeDies
  BY <1>5 DEF RuntimeBinds, RuntimeDies
<1>6. CASE OldDies \/ OtherLeaves
  <2>1. \A p \in Port : listener'[p] \in {listener[p], Nobody}
    BY <1>0, <1>6 DEF OldDies, OtherLeaves
  <2>2. UNCHANGED <<pc, port, runtime, visits, OldPort>>
    BY <1>6 DEF OldDies, OtherLeaves, env, fixed, OldPort
  <2> QED BY <1>0, <2>1, <2>2 DEF Vacant
<1>7. CASE OtherBinds
  BY <1>0, <1>7 DEF OtherBinds
<1> QED BY <1>1, <1>2, <1>3, <1>4, <1>5, <1>6, <1>7 DEF Next, Deploy

\* The port that a deploy has chosen is its own: its runtime listens there and
\* nowhere else, and who takes it before the runtime binds came after the
\* choice.  A port that is recorded for the replaced deployment is not looked
\* at, so nobody else must hold it (ReleasedPort).
THEOREM PortIsItsOwn == ASSUME RecordedPortIsKept PROVE Spec => []PortIsOwn
<1>1. Init => Vacant
  <2> SUFFICES ASSUME Init, OldPort = Preferred
               PROVE  listener[Preferred] \in {Nobody, Old}
    BY DEF Init, Vacant, Starting
  <2> QED BY Ports, RecordedPortIsKept, Durations
          DEF Init, RecordedPortIsKept, Scenario, OldPort
<1>2. Typed /\ Vacant => PortIsOwn
  BY DEF Typed, Vacant, PortIsOwn, PortTakenOnlySince, Starting
<1> QED BY <1>1, <1>2, InitTyped, StepTyped, VacantStep, PTL DEF Spec

\* The scan has not passed a port that is free.
Ahead(p) ==
  /\ reason # "no free port"
  /\ pc = "scan" => port <= p

\* The scan leaves no free port behind.
LEMMA AheadStep ==
  ASSUME NEW p \in Scanned, Typed, PortFree(p), Ahead(p), [Next]_vars
  PROVE  Ahead(p)'
<1>1. /\ Preferred \in Nat /\ Window \in Nat
      /\ p \in Nat /\ Preferred <= p /\ p < Preferred + Window
  BY ServingAssumption DEF Scanned
<1>2. ASSUME NEW why, Fail(why) PROVE pc' = "returned" /\ reason' = why
  BY <1>2 DEF Fail, Go
<1>3. CASE AllocatePort
  <2>1. port \in Scanned \cup {Preferred + Window} /\ port <= p
    BY <1>3 DEF AllocatePort, Typed, Placed, Ahead
  <2>2. port \in Nat /\ port \in Scanned
    BY <1>1, <2>1 DEF Scanned
  <2>3. CASE PortFree(port)
    BY <1>3, <2>2, <2>3 DEF AllocatePort, Go, Ahead
  <2>4. CASE ~PortFree(port)
    <3>1. port # p /\ port + 1 <= p
      BY <1>1, <2>1, <2>2, <2>4
    <3>2. port' = port + 1 /\ UNCHANGED reason
      BY <1>3, <2>2, <2>4 DEF AllocatePort
    <3> QED BY <3>1, <3>2 DEF Ahead
  <2> QED BY <2>3, <2>4
<1>4. CASE ChoosePort \/ Replace \/ ReplaceFails \/ Launch
  BY <1>1, <1>4 DEF ChoosePort, Replace, ReplaceFails, Launch, onlyCtl, Go, Refuse,
                    Ahead
<1>5. CASE CheckAlive \/ HealthDeadline \/ ReadyDeadline
  <2>1. ASSUME NEW next, PollAgain(next) PROVE pc' = next
    BY <2>1 DEF PollAgain, Go
  <2>2. \/ reason' = reason /\ pc' # "scan"
        \/ \E why \in {"exited", "unhealthy", "not ready"} : Fail(why)
    BY <1>5, <2>1 DEF CheckAlive, HealthDeadline, ReadyDeadline, Go
  <2> QED BY <1>2, <2>2 DEF Ahead
<1>6. CASE AskHealth \/ ListModels \/ Inference \/ Register
  BY <1>6 DEF AskHealth, ListModels, Inference, Register, onlyCtl, Go, Ahead
<1>7. CASE \/ RuntimeBinds \/ RuntimeDies \/ OldDies \/ OtherBinds
           \/ OtherLeaves \/ UNCHANGED vars
  BY <1>7 DEF RuntimeBinds, RuntimeDies, OldDies, OtherBinds, OtherLeaves,
       env, vars, Ahead
<1> QED BY <1>3, <1>4, <1>5, <1>6, <1>7 DEF Next, Deploy

\* AllocatePort tries every port of the window: one that stays free is found.
THEOREM FreePortFound == Spec => FreePortIsFound
<1> SUFFICES ASSUME NEW p \in Scanned
             PROVE  Spec => ([]PortFree(p) => [](reason # "no free port"))
  BY DEF FreePortIsFound
<1>1. Init => Ahead(p)
  BY DEF Init, Ahead
<1>2. Typed /\ PortFree(p) /\ Ahead(p) /\ [Next]_vars => Ahead(p)'
  BY AheadStep
<1>3. Ahead(p) => reason # "no free port"
  BY DEF Ahead
<1> QED BY <1>1, <1>2, <1>3, InitTyped, StepTyped, PTL DEF Spec

-----------------------------------------------------------------------------
(* The server.                                                             *)

\* Nobody else serves the model to who has the new key: not the replaced
\* deployment, and not an orphan of an earlier one.
KeyIsSecret ==
  /\ OldKey \notin {NewKey, NoKey}
  /\ \A name \in DOMAIN Scenarios :
       \A s \in Scenarios[name].squatters \cup Scenarios[name].visitors :
         s.model = Mine => s.key \notin {NewKey, NoKey}

\* A deploy is past its checks only with an inference of its own runtime.
Served ==
  pc = "registering" \/ phase = "UNREGISTERED_HEALTHY" => inferred.is = "new"

\* checkReadiness asks for the deployment's model with its own key, which no
\* other server takes: what it reports as ready is its own runtime.
THEOREM OwnRuntimeServes == ASSUME KeyIsSecret PROVE Spec => []ServedByOwnRuntime
<1>1. Init => Served
  BY DEF Init, Served
<1>2. Typed /\ Served /\ [Next]_vars => Served'
  <2> SUFFICES ASSUME Typed, Served, [Next]_vars PROVE Served'
    OBVIOUS
  <2> USE DEF Preparing, Starting, Testing
  <2>1. ASSUME NEW why, Fail(why) PROVE pc' = "returned" /\ phase' = "FAILED"
    BY <2>1 DEF Fail, Go
  <2>2. CASE Inference
    <3>1. ASSUME Inferred PROVE listener[port].is = "new"
      <4>1. port \in Port /\ listener[port] \in Listener /\ listener[port] # Nobody
        BY <2>2, <3>1 DEF Inference, Inferred, Answering, Typed, TypeOK, Placed
      <4>2. listener[port] # Old
        BY <3>1, KeyIsSecret
           DEF Inferred, Infers, Authorized, APIKey, Old, KeyIsSecret
      <4>3. ASSUME NEW s \in Scenarios[scene].squatters
                                \cup Scenarios[scene].visitors,
                   listener[port] = Other(s)
            PROVE  FALSE
        BY <3>1, <4>3, KeyIsSecret
           DEF Inferred, Infers, Authorized, APIKey, Other, KeyIsSecret, Typed
      <4> QED BY <4>1, <4>2, <4>3 DEF Listener
    <3> QED BY <2>2, <3>1 DEF Inference, Served, Go, Typed, Waits
  <2>3. CASE Register
    BY <2>3 DEF Register, Served, onlyCtl
  <2>4. CASE ChoosePort \/ AllocatePort \/ Replace \/ ReplaceFails \/ Launch
    BY <2>4 DEF ChoosePort, AllocatePort, Replace, ReplaceFails, Launch, onlyCtl, Go,
         Refuse, Served
  <2>5. CASE CheckAlive \/ AskHealth \/ HealthDeadline
    BY <2>1, <2>5 DEF CheckAlive, AskHealth, HealthDeadline, Go, PollAgain, Served
  <2>6. CASE ListModels \/ ReadyDeadline
    BY <2>1, <2>6 DEF ListModels, ReadyDeadline, onlyCtl, Go, PollAgain, Served
  <2>7. CASE \/ RuntimeBinds \/ RuntimeDies \/ OldDies \/ OtherBinds
             \/ OtherLeaves \/ UNCHANGED vars
    BY <2>7 DEF RuntimeBinds, RuntimeDies, OldDies, OtherBinds, OtherLeaves,
         env, vars, Served
  <2> QED BY <2>2, <2>3, <2>4, <2>5, <2>6, <2>7 DEF Next, Deploy
<1>3. Served => ServedByOwnRuntime
  BY DEF Served, ServedByOwnRuntime
<1> QED BY <1>1, <1>2, <1>3, InitTyped, StepTyped, PTL DEF Spec

=============================================================================
