-------------------------- MODULE RegistrationProofs --------------------------
(***************************************************************************)
(* Theorems about Registration for any calls, policies, gateway options    *)
(* and number of network faults.                                           *)
(***************************************************************************)
EXTENDS Registration, TLAPS

-----------------------------------------------------------------------------
(* Types.                                                                  *)

\* Do is inside a call, in an attempt that the policy has; the backoff is only
\* entered before the last one.
Inside ==
  step # "idle" =>
    /\ call \in DOMAIN calls
    /\ attempt \in 1 .. attempts
    /\ step = "backoff" => attempt < attempts

\* Messages belong to attempts that were made.
Past ==
  /\ \A r \in requests : r.call <= call
  /\ \A a \in answers : /\ a.call <= call
                        /\ a.call = call /\ step = "loop" => a.attempt < attempt
                        /\ a.call = call /\ step # "idle" => a.attempt <= attempt

TypeInv == TypeOK /\ Inside /\ Past

\* What the constants say of the scenario in hand.
LEMMA Scenery ==
  ASSUME [calls |-> calls, policy |-> policy] \in Scenarios
  PROVE  /\ calls \in Seq(Call) /\ policy \in Policy
         /\ DOMAIN calls = 1 .. Len(calls) /\ Len(calls) \in Nat
         /\ \A c \in DOMAIN calls : calls[c] \in Call
         /\ attempts \in Nat \ {0}
<1>1. [calls |-> calls, policy |-> policy] \in [calls : Seq(Call), policy : Policy]
  BY RegistrationAssumption
<1>2. calls \in Seq(Call) /\ policy \in Policy
  BY <1>1
<1> QED BY <1>2 DEF attempts, Attempts, Policy

\* Policy.jittered gives a number.
LEMMA DelayType ==
  ASSUME NEW p \in Policy, NEW n \in Nat \ {0} PROVE Delay(p, n) \in Int
<1>1. ASSUME NEW m \in Nat \ {0}, NEW k \in Nat PROVE m ^ k \in Int
  OBVIOUS
<1> DEFINE m == IF p.multiplier <= 1 THEN 2 ELSE p.multiplier
<1>2. m \in Nat \ {0} /\ n - 1 \in Nat
  BY DEF Policy
<1> HIDE DEF m
<1>3. m ^ (n - 1) \in Int
  BY <1>1, <1>2
<1>4. p.baseDelay * m ^ (n - 1) \in Int
  BY <1>3 DEF Policy
<1>5. Growth(p, n) \in Int
  BY <1>4 DEF Growth, m
<1> QED BY <1>5 DEF Policy, Delay

\* And so do both ends of its jitter.
LEMMA JitterType ==
  ASSUME NEW p \in Policy, NEW n \in Nat \ {0}, NEW d \in Jittered(p, n)
  PROVE  d \in Int
<1>1. Delay(p, n) \in Int /\ p.jitter \in 0 .. 10
  BY DelayType DEF Policy
<1> QED BY <1>1 DEF Jittered

\* No call has begun.
LEMMA InitTyped == Init => TypeInv
<1> SUFFICES ASSUME Init PROVE TypeInv
  OBVIOUS
<1>1. [calls |-> calls, policy |-> policy] \in Scenarios
  <2>1. PICK s \in Scenarios : calls = s.calls /\ policy = s.policy
    BY DEF Init
  <2>2. s = [calls |-> s.calls, policy |-> s.policy]
    BY RegistrationAssumption
  <2> QED BY <2>1, <2>2
<1>2. opts \in Options /\ registeredKey = NoKey /\ registerCalls = 0
  BY DEF Init, GatewayInit
<1>3. Len(calls) \in Nat /\ attempts \in Nat
  BY <1>1, Scenery
<1>4. /\ call = 0 /\ step = "idle" /\ attempt = 0 /\ cancelled = FALSE
      /\ result \in [DOMAIN calls -> Results]
      /\ requests = {} /\ answers = {} /\ faults = 0 /\ elapsed = 0
  BY DEF Init, Results
<1>5. Inside /\ Past
  BY <1>4 DEF Inside, Past
<1>6. call \in 0 .. Len(calls) /\ attempt \in 0 .. attempts /\ faults \in 0 .. MaxFaults
  BY <1>3, <1>4, RegistrationAssumption
<1>7. /\ requests \subseteq [call : DOMAIN calls, attempt : 1 .. attempts]
      /\ answers \subseteq [call : DOMAIN calls, attempt : 1 .. attempts,
                            status : {201, 204, 401, 409, 500, 503}]
  BY <1>4
<1>8. /\ opts \in Options /\ registeredKey \in Key \cup {NoKey}
      /\ registerCalls \in Nat
  BY <1>2
<1>9. cancelled \in BOOLEAN
  BY <1>4, Zenon
<1>10. /\ step \in {"idle", "loop", "waiting", "backoff"}
       /\ elapsed \in Int /\ result \in [DOMAIN calls -> Results]
  BY <1>4
<1>11. TypeOK
  BY <1>1, <1>6, <1>7, <1>8, <1>9, <1>10, Zenon DEF TypeOK
<1> QED BY <1>5, <1>11 DEF TypeInv

\* Ending a call or an attempt.
LEMMA ReturnTypes ==
  ASSUME TypeInv, step # "idle", NEW how \in Results, Return(how)
  PROVE  result' \in [DOMAIN calls -> Results] /\ step' = "idle"
         /\ UNCHANGED <<call, attempt, cancelled>>
BY DEF TypeInv, TypeOK, Inside, Return

\* A failed attempt is followed by another, or by the end of the call.
LEMMA FailTypes ==
  ASSUME TypeInv, step # "idle", Fail
  PROVE  /\ result' \in [DOMAIN calls -> Results]
         /\ \/ step' = "idle"
            \/ step' = "backoff" /\ attempt < attempts
         /\ UNCHANGED <<call, attempt, cancelled>>
<1>1. "exhausted" \in Results /\ attempts \in Nat /\ attempt \in 1 .. attempts
  BY Scenery DEF Results, TypeInv, TypeOK, Inside
<1>2. CASE attempt = attempts
  BY <1>1, <1>2, ReturnTypes DEF Fail
<1>3. CASE attempt # attempts
  BY <1>1, <1>3 DEF Fail, TypeInv, TypeOK
<1> QED BY <1>2, <1>3

\* The gateway stays typed and its answers are of the known ones.
LEMMA GatewayTypes ==
  ASSUME TypeInv, NEW q \in Call, NEW status, Handle(q, status)
  PROVE  opts' = opts /\ registeredKey' \in Key \cup {NoKey} /\ registerCalls' \in Nat
BY DEF TypeInv, TypeOK, Handle, HandleRegister, HandleUnregister, gatewayVars, Call

\* Types are kept by every step.
LEMMA StepTyped == TypeInv /\ [Next]_vars => TypeInv'
<1> SUFFICES ASSUME TypeInv, [Next]_vars PROVE TypeInv'
  OBVIOUS
<1> USE Scenery
<1> USE DEF TypeInv
<1>0. /\ MaxFaults \in Nat /\ call \in 0 .. Len(calls) /\ attempt \in 0 .. attempts
      /\ Len(calls) \in Nat /\ attempts \in Nat \ {0}
      /\ DOMAIN calls = 1 .. Len(calls)
      /\ \A c \in DOMAIN calls : calls[c] \in Call
      /\ \A r \in requests : r.call \in 1 .. Len(calls)
      /\ \A a \in answers : a.call \in 1 .. Len(calls)
  BY RegistrationAssumption DEF TypeOK
<1>1. CASE UNCHANGED vars
  BY <1>1 DEF vars, gatewayVars, doVars, asked, TypeOK, Inside, Past, attempts
<1>2. CASE Begin
  <2>1. /\ call' = call + 1 /\ call' \in 1 .. Len(calls) /\ attempt' = 1
        /\ step' = "loop" /\ cancelled' = FALSE /\ faults' = 0 /\ elapsed' = 0
        /\ UNCHANGED <<gatewayVars, asked, attempts, result, requests, answers>>
    BY <1>0, <1>2 DEF Begin, asked, attempts
  <2>7. cancelled' \in BOOLEAN
    BY <2>1, Zenon
  <2>8. call' \in 0 .. Len(calls) /\ attempt' \in 0 .. attempts /\ faults' \in 0 .. MaxFaults
        /\ elapsed' \in Int /\ step' \in {"idle", "loop", "waiting", "backoff"}
    BY <1>0, <2>1
  <2>2. TypeOK'
    BY <2>1, <2>7, <2>8 DEF gatewayVars, asked, TypeOK
  <2>6. Inside'
    BY <1>0, <2>1 DEF asked, Inside
  <2>3. \A a \in answers : a.call < call'
    BY <1>0, <2>1 DEF Past
  <2>4. \A r \in requests : r.call <= call'
    BY <1>0, <2>1 DEF Past
  <2>5. Past'
    BY <1>0, <2>1, <2>3, <2>4 DEF Past
  <2> QED BY <2>2, <2>5, <2>6
<1>3. CASE Cancel
  BY <1>3 DEF Cancel, gatewayVars, asked, TypeOK, Inside, Past, attempts
<1>4. CASE Attempt
  BY <1>0, <1>4 DEF Attempt, Current, gatewayVars, asked, TypeOK, Inside, Past, attempts
<1>5. CASE CancelledAtTop \/ CancelledInBackoff
  <2>1. result' \in [DOMAIN calls -> Results] /\ step' = "idle"
         /\ UNCHANGED <<call, attempt, cancelled>>
    BY <1>5, ReturnTypes DEF CancelledAtTop, CancelledInBackoff, Results
  <2>2. UNCHANGED <<gatewayVars, asked, elapsed, requests, answers, faults>>
    BY <1>5 DEF CancelledAtTop, CancelledInBackoff
  <2> QED BY <2>1, <2>2 DEF gatewayVars, asked, TypeOK, Inside, Past, attempts
<1>6. CASE Receive \/ TimesOut \/ CancelledInOp
  <2>1. /\ result' \in [DOMAIN calls -> Results]
        /\ \/ step' = "idle"
           \/ step' = "backoff" /\ attempt < attempts
        /\ UNCHANGED <<call, attempt, cancelled>>
    BY <1>6, ReturnTypes, FailTypes DEF Receive, TimesOut, CancelledInOp, Results
  <2>2. /\ UNCHANGED <<gatewayVars, asked>> /\ requests' \subseteq requests
        /\ answers' \subseteq answers
        /\ step = "waiting"
    BY <1>6 DEF Receive, TimesOut, CancelledInOp
  <2>3. elapsed' \in Int /\ faults' \in 0 .. MaxFaults
    BY <1>0, <1>6 DEF Receive, TimesOut, CancelledInOp, TypeOK, Policy
  <2> QED BY <2>1, <2>2, <2>3 DEF gatewayVars, asked, TypeOK, Inside, Past, attempts
<1>7. CASE BackoffOver
  <2>1. elapsed' \in Int
    BY <1>7, JitterType DEF BackoffOver, TypeOK, Inside
  <2> QED BY <1>0, <1>7, <2>1
          DEF BackoffOver, gatewayVars, asked, TypeOK, Inside, Past, attempts
<1>8. ASSUME NEW r \in requests, Serve(r) PROVE TypeInv'
  <2>1. r.call \in DOMAIN calls /\ r.attempt \in 1 .. attempts /\ r.call <= call
    BY DEF TypeOK, Past
  <2>2. PICK status \in {201, 204, 401, 409, 500, 503} :
          /\ Handle(Received(r), status)
          /\ answers' = IF step = "waiting" /\ r = Current
                        THEN answers \cup {[call |-> r.call, attempt |-> r.attempt, status |-> status]}
                        ELSE answers
    BY <1>8 DEF Serve
  <2>3. opts' = opts /\ registeredKey' \in Key \cup {NoKey} /\ registerCalls' \in Nat
    BY <1>0, <2>1, <2>2, GatewayTypes DEF Received, Sent
  <2>4. /\ UNCHANGED doVars /\ requests' \subseteq requests /\ faults' \in 0 .. MaxFaults
    BY <1>0, <1>8 DEF Serve, TypeOK
  <2>5. /\ answers' \subseteq [call : DOMAIN calls, attempt : 1 .. attempts,
                               status : {201, 204, 401, 409, 500, 503}]
        /\ \A a \in answers' \ answers : step = "waiting" /\ a.call = call /\ a.attempt = attempt
    BY <2>1, <2>2 DEF TypeOK, Current
  <2> QED BY <1>0, <2>3, <2>4, <2>5 DEF doVars, asked, TypeOK, Inside, Past, attempts
<1>9. CASE (\E r \in requests : LoseRequest(r)) \/ (\E a \in answers : LoseAnswer(a))
  <2>1. /\ UNCHANGED <<gatewayVars, doVars>> /\ requests' \subseteq requests
        /\ answers' \subseteq answers /\ faults' \in 0 .. MaxFaults
    BY <1>0, <1>9 DEF LoseRequest, LoseAnswer, TypeOK
  <2> QED BY <2>1 DEF gatewayVars, doVars, asked, TypeOK, Inside, Past, attempts
<1> QED BY <1>1, <1>2, <1>3, <1>4, <1>5, <1>6, <1>7, <1>8, <1>9 DEF Next, Do, Network

-----------------------------------------------------------------------------
(* What the answers say.                                                   *)

\* Until somebody unregisters, the deployment keeps its first registration, and
\* an answer on its way, however late, is still true when it arrives.
AnswersTrue ==
  NoneUnregistered =>
    \A a \in answers :
      /\ a.status \in {201, 401, 409, 503}
      /\ a.status = 201 => registeredKey = calls[a.call].key
      /\ a.status = 401 => ~opts.authorised
      /\ a.status = 409 => registeredKey \notin {NoKey, calls[a.call].key}

\* A result is noted for a call that was made.
Noted == \A c \in DOMAIN calls : c > call => result[c] = "none"

Told == AnswersTrue /\ OkMeansRegistered /\ PermanentIsPermanent /\ Noted

\* Calls that have begun are calls.
LEMMA Begun ==
  ASSUME TypeInv
  PROVE  /\ call \in Nat /\ \A c \in 1 .. call : c \in DOMAIN calls /\ calls[c].key \in Key
         /\ \A a \in answers : a.call \in 1 .. call
         /\ \A r \in requests : r.call \in 1 .. call
<1>1. /\ DOMAIN calls = 1 .. Len(calls) /\ Len(calls) \in Nat
      /\ \A c \in DOMAIN calls : calls[c] \in Call
  BY Scenery DEF TypeInv, TypeOK
<1>2. call \in 0 .. Len(calls)
  BY DEF TypeInv, TypeOK
<1>3. /\ \A a \in answers : a.call \in DOMAIN calls /\ a.call <= call
      /\ \A r \in requests : r.call \in DOMAIN calls /\ r.call <= call
  BY DEF TypeInv, TypeOK, Past
<1> QED BY <1>1, <1>2, <1>3 DEF Call

\* What is registered stays, and new answers are true.
LEMMA ServeTold ==
  ASSUME TypeInv, Told, NEW r \in requests, Serve(r), NoneUnregistered
  PROVE  AnswersTrue' /\ OkMeansRegistered' /\ PermanentIsPermanent'
<1>1. UNCHANGED <<calls, call, result>> /\ NoneUnregistered'
  BY DEF Serve, doVars, asked, NoneUnregistered, Registers
<1>2. /\ call \in Nat /\ \A c \in 1 .. call : c \in DOMAIN calls /\ calls[c].key \in Key
      /\ \A a \in answers : a.call \in 1 .. call
      /\ r.call \in 1 .. call /\ NoKey \notin Key
  BY Begun, GatewayAssumption
<1>3. PICK status \in {201, 204, 401, 409, 500, 503} :
        /\ Handle(calls[r.call], status)
        /\ answers' = IF step = "waiting" /\ r = Current
                      THEN answers \cup {[call |-> r.call, attempt |-> r.attempt,
                                          status |-> status]}
                      ELSE answers
  BY DEF Serve, Received, Sent
<1>4. calls[r.call].kind = "register"
  BY <1>2 DEF NoneUnregistered, Registers
<1>5. /\ opts' = opts
      /\ registeredKey # NoKey => registeredKey' = registeredKey
      /\ registeredKey = NoKey => registeredKey' \in {NoKey, calls[r.call].key}
      /\ status \in {201, 401, 409, 503}
      /\ status = 201 => registeredKey' = calls[r.call].key
      /\ status = 401 => ~opts.authorised
      /\ status = 409 => registeredKey' \notin {NoKey, calls[r.call].key}
  BY <1>3, <1>4 DEF Handle, HandleRegister, RegisterStatus, gatewayVars
<1>6. \A c \in 1 .. call : calls[c].key # NoKey
  BY <1>2
<1>7. AnswersTrue'
  <2>1. ASSUME NEW a \in answers
        PROVE  /\ a.status \in {201, 401, 409, 503}
               /\ a.status = 201 => registeredKey' = calls[a.call].key
               /\ a.status = 401 => ~opts'.authorised
               /\ a.status = 409 => registeredKey' \notin {NoKey, calls[a.call].key}
    BY <1>2, <1>5, <1>6, <2>1 DEF Told, AnswersTrue
  <2>2. ASSUME NEW a \in answers' \ answers
        PROVE  a.call = r.call /\ a.status = status
    BY <1>3, <2>2
  <2>3. \A a \in answers' :
               /\ a.status \in {201, 401, 409, 503}
               /\ a.status = 201 => registeredKey' = calls'[a.call].key
               /\ a.status = 401 => ~opts'.authorised
               /\ a.status = 409 => registeredKey' \notin {NoKey, calls'[a.call].key}
    BY <1>1, <1>5, <2>1, <2>2
  <2> QED BY <2>3 DEF AnswersTrue
<1>8. OkMeansRegistered'
  BY <1>1, <1>5, <1>6 DEF Told, OkMeansRegistered
<1>9. PermanentIsPermanent'
  BY <1>1, <1>5, <1>6 DEF Told, PermanentIsPermanent
<1> QED BY <1>7, <1>8, <1>9

\* What the answers say stays true.
LEMMA ToldStep == TypeInv /\ Told /\ [Next]_vars => Told'
<1> SUFFICES ASSUME TypeInv, Told, [Next]_vars PROVE Told'
  OBVIOUS
<1> USE Begun
<1>t. /\ calls \in Seq(Call) /\ DOMAIN calls = 1 .. Len(calls) /\ Len(calls) \in Nat
      /\ call \in 0 .. Len(calls) /\ result \in [DOMAIN calls -> Results]
  BY Scenery DEF TypeInv, TypeOK
<1>c. UNCHANGED calls
  BY DEF Next, vars, gatewayVars, doVars, asked, Begin, Cancel, Do, Attempt, CancelledAtTop, Receive,
     TimesOut, CancelledInOp, BackoffOver, CancelledInBackoff, Network, Serve, LoseRequest,
     LoseAnswer
<1>1. CASE /\ UNCHANGED <<call, result, opts, registeredKey>> /\ answers' \subseteq answers
  <2>1. NoneUnregistered' <=> NoneUnregistered
    BY <1>1, <1>c DEF NoneUnregistered, Registers
  <2> QED BY <1>1, <1>c, <2>1
          DEF Told, AnswersTrue, OkMeansRegistered, PermanentIsPermanent, Noted
<1>2. CASE Begin
  <2>1. /\ call' = call + 1 /\ call' \in DOMAIN calls /\ result[call'] = "none"
        /\ UNCHANGED <<result, opts, registeredKey, answers>>
    BY <1>t, <1>2 DEF Begin, gatewayVars, Told, Noted
  <2>2. NoneUnregistered' => NoneUnregistered
    BY <1>t, <1>c, <2>1 DEF NoneUnregistered, Registers
  <2>3. \A c \in 1 .. call' : c \in 1 .. call \/ c = call'
    BY <1>t, <2>1
  <2>4. AnswersTrue' /\ Noted'
    BY <1>t, <1>c, <2>1, <2>2 DEF Told, AnswersTrue, Noted
  <2> QED BY <1>c, <2>1, <2>2, <2>3, <2>4
          DEF Told, OkMeansRegistered, PermanentIsPermanent
<1>3. CASE step # "idle" /\ \E how \in Results \ {"ok", "permanent"} : Return(how)
           /\ UNCHANGED <<opts, registeredKey>> /\ answers' \subseteq answers
  <2>1. PICK how \in Results \ {"ok", "permanent"} :
          /\ result' = [result EXCEPT ![call] = how] /\ UNCHANGED call
    BY <1>3 DEF Return
  <2>2. NoneUnregistered' <=> NoneUnregistered
    BY <1>c, <2>1 DEF NoneUnregistered, Registers
  <2> QED BY <1>t, <1>c, <1>3, <2>1, <2>2
          DEF Told, AnswersTrue, OkMeansRegistered, PermanentIsPermanent, Noted
<1>4. CASE Receive
  <2>1. PICK a \in answers :
          /\ a.call = call /\ a.attempt = attempt
          /\ answers' = answers \ {a}
          /\ IF a.status < 300 THEN Return("ok")
             ELSE IF a.status >= 500 THEN Fail
             ELSE Return("permanent")
    BY <1>4 DEF Receive
  <2>2. UNCHANGED <<opts, registeredKey>> /\ step # "idle"
    BY <1>4 DEF Receive, gatewayVars
  <2>3. CASE a.status >= 500 /\ Fail
    BY <1>1, <1>3, <2>1, <2>2, <2>3 DEF Fail, Results
  <2>4. CASE a.status < 300 /\ Return("ok")
    <3>1. result' = [result EXCEPT ![call] = "ok"] /\ UNCHANGED call
      BY <2>4 DEF Return
    <3>2. NoneUnregistered' <=> NoneUnregistered
      BY <1>c, <3>1 DEF NoneUnregistered, Registers
    <3>3. NoneUnregistered => registeredKey = calls[call].key
      BY <2>1, <2>4 DEF Told, AnswersTrue
    <3> QED BY <1>t, <1>c, <2>1, <2>2, <3>1, <3>2, <3>3
            DEF Told, AnswersTrue, OkMeansRegistered, PermanentIsPermanent, Noted
  <2>5. CASE ~(a.status < 300) /\ ~(a.status >= 500) /\ Return("permanent")
    <3>1. result' = [result EXCEPT ![call] = "permanent"] /\ UNCHANGED call
      BY <2>5 DEF Return
    <3>2. NoneUnregistered' <=> NoneUnregistered
      BY <1>c, <3>1 DEF NoneUnregistered, Registers
    <3>3. NoneUnregistered => ~opts.authorised \/ registeredKey \notin {NoKey, calls[call].key}
      BY <2>1, <2>5 DEF Told, AnswersTrue
    <3> QED BY <1>t, <1>c, <2>1, <2>2, <3>1, <3>2, <3>3
            DEF Told, AnswersTrue, OkMeansRegistered, PermanentIsPermanent, Noted
  <2> QED BY <2>1, <2>3, <2>4, <2>5
<1>5. CASE TimesOut \/ CancelledInOp
  <2>1. /\ UNCHANGED <<opts, registeredKey>> /\ answers' \subseteq answers /\ Fail
        /\ step # "idle"
    BY <1>5 DEF TimesOut, CancelledInOp, gatewayVars
  <2> QED BY <1>1, <1>3, <2>1 DEF Fail, Results
<1>6. CASE CancelledAtTop \/ CancelledInBackoff
  BY <1>3, <1>6 DEF CancelledAtTop, CancelledInBackoff, gatewayVars, Results
<1>7. CASE Cancel \/ Attempt \/ BackoffOver \/ UNCHANGED vars
  BY <1>1, <1>7 DEF Cancel, Attempt, BackoffOver, vars, doVars, gatewayVars
<1>8. ASSUME NEW r \in requests, Serve(r) PROVE Told'
  <2>1. UNCHANGED <<call, result>>
    BY <1>8 DEF Serve, doVars
  <2>2. NoneUnregistered' <=> NoneUnregistered
    BY <1>c, <2>1 DEF NoneUnregistered, Registers
  <2>3. Noted'
    BY <1>c, <2>1 DEF Told, Noted
  <2>4. CASE ~NoneUnregistered
    BY <2>2, <2>3, <2>4 DEF Told, AnswersTrue, OkMeansRegistered, PermanentIsPermanent
  <2>5. CASE NoneUnregistered
    BY <1>8, <2>3, <2>5, ServeTold DEF Told
  <2> QED BY <2>4, <2>5
<1>9. CASE (\E r \in requests : LoseRequest(r)) \/ (\E a \in answers : LoseAnswer(a))
  BY <1>1, <1>9 DEF LoseRequest, LoseAnswer, doVars, gatewayVars
<1> QED BY <1>2, <1>4, <1>5, <1>6, <1>7, <1>8, <1>9 DEF Next, Do, Network

\* registerOnce classifies answers so that nil means registered and a permanent
\* error cannot be retried away, whatever the network loses, delays or repeats.
THEOREM ResultsAreTrue == Spec => []ResultsTrue
<1>1. Init => Told
  <2> SUFFICES ASSUME Init PROVE Told
    OBVIOUS
  <2>1. call = 0 /\ answers = {} /\ \A c \in DOMAIN calls : result[c] = "none"
    BY DEF Init
  <2> QED BY <2>1 DEF Told, AnswersTrue, OkMeansRegistered, PermanentIsPermanent, Noted
<1>2. TypeInv /\ Told => ResultsTrue
  BY DEF TypeInv, Told, ResultsTrue
<1> QED BY <1>1, <1>2, InitTyped, StepTyped, ToldStep, PTL DEF Spec

-----------------------------------------------------------------------------
(* What an attempt costs.                                                  *)

\* The 503 answers the gateway has given.
Refused == IF registerCalls <= opts.unavailableFor THEN registerCalls
           ELSE opts.unavailableFor

Mine(a) == a.call = call /\ a.attempt = attempt

\* Every attempt that has failed, or can only fail, met a fault or a 503 of its
\* own, unless the caller cancels.
Costs ==
  call > 0 /\ Registers(call) /\ ~cancelled =>
    /\ step \in {"loop", "waiting"} => attempt - 1 <= faults + Refused
    /\ step = "waiting" /\ (~Arriving \/ \E a \in answers : Mine(a) /\ a.status >= 500)
         => attempt <= faults + Refused
    /\ step = "backoff" => attempt <= faults + Refused
    /\ step = "idle" /\ result[call] = "exhausted" => attempts <= faults + Refused

\* The current call is one of the calls.
LEMMA CallKnown ==
  ASSUME TypeInv, call > 0
  PROVE  /\ call \in DOMAIN calls /\ calls[call] \in Call
         /\ result[call] \in Results
<1>1. /\ call \in 0 .. Len(calls) /\ DOMAIN calls = 1 .. Len(calls) /\ Len(calls) \in Nat
      /\ \A c \in DOMAIN calls : calls[c] \in Call
      /\ result \in [DOMAIN calls -> Results]
  BY Scenery DEF TypeInv, TypeOK
<1> QED BY <1>1

\* The quantities of a call are numbers.
LEMMA Numbers ==
  ASSUME TypeInv
  PROVE  /\ attempt \in Nat /\ attempts \in Nat \ {0} /\ faults \in Nat
         /\ Refused \in Nat /\ registerCalls \in Nat /\ opts.unavailableFor \in Nat
         /\ call \in Nat
<1>1. /\ attempt \in 0 .. attempts /\ attempts \in Nat \ {0}
      /\ faults \in 0 .. MaxFaults /\ MaxFaults \in Nat /\ MaxUnavailable \in Nat
      /\ registerCalls \in Nat /\ opts \in Options /\ call \in 0 .. Len(calls)
      /\ Len(calls) \in Nat
  BY Scenery, RegistrationAssumption, GatewayAssumption DEF TypeInv, TypeOK
<1>2. opts.unavailableFor \in Nat
  BY <1>1 DEF Options
<1> QED BY <1>1, <1>2 DEF Refused

\* An attempt that has cost its fault or its 503 may fail.
LEMMA FailCosts ==
  ASSUME TypeInv, step = "waiting", Fail, UNCHANGED <<calls, policy, opts, registerCalls>>,
         faults' \in Nat, call > 0 /\ Registers(call) /\ ~cancelled
                            => attempt <= faults' + Refused
  PROVE  Costs'
<1>0. /\ attempt \in Nat /\ attempts \in Nat \ {0} /\ Refused \in Nat
      /\ attempts' = attempts /\ Refused' = Refused
      /\ Registers(call)' <=> Registers(call')
      /\ result \in [DOMAIN calls -> Results] /\ call \in DOMAIN calls
  BY Numbers DEF attempts, Refused, Registers, TypeInv, TypeOK, Inside
<1>1. CASE attempt = attempts
  <2>1. step' = "idle" /\ UNCHANGED <<call, attempt, cancelled>>
    BY <1>1 DEF Fail, Return
  <2> QED BY <1>0, <1>1, <2>1 DEF Costs, Registers
<1>2. CASE attempt # attempts
  <2>1. step' = "backoff" /\ UNCHANGED <<call, attempt, cancelled>>
    BY <1>2 DEF Fail
  <2> QED BY <1>0, <2>1 DEF Costs, Registers
<1> QED BY <1>1, <1>2

\* An attempt is paid for when it fails.
LEMMA CostsStep == TypeInv /\ Costs /\ [Next]_vars => Costs'
<1> SUFFICES ASSUME TypeInv, Costs, [Next]_vars PROVE Costs'
  OBVIOUS
<1> USE Numbers
<1>1. CASE UNCHANGED vars
  BY <1>1 DEF vars, gatewayVars, doVars, asked, Costs, Registers, Arriving, Current, Mine,
       Refused, attempts
<1>2. CASE Begin
  BY <1>2 DEF Begin, gatewayVars, asked, Costs, Refused
<1>3. CASE Cancel
  BY <1>3 DEF Cancel, Costs
<1>4. CASE Attempt
  <2>1. /\ step = "loop" /\ step' = "waiting" /\ Current \in requests' /\ answers' = answers
        /\ UNCHANGED <<calls, opts, registerCalls, call, attempt, cancelled, faults>>
    BY <1>4 DEF Attempt, gatewayVars, asked
  <2>2. Arriving'
    BY <2>1 DEF Arriving, Current
  <2>3. \A a \in answers : ~Mine(a)
    BY <2>1 DEF TypeInv, Past, Mine
  <2> QED BY <2>1, <2>2, <2>3 DEF Costs, Registers, Refused, Mine
<1>5. CASE CancelledAtTop \/ CancelledInBackoff
  BY <1>5 DEF CancelledAtTop, CancelledInBackoff, Return, Costs
<1>6. CASE Receive
  <2>1. PICK a \in answers :
          /\ Mine(a)
          /\ IF a.status < 300 THEN Return("ok")
             ELSE IF a.status >= 500 THEN Fail
             ELSE Return("permanent")
    BY <1>6 DEF Receive, Mine
  <2>2. /\ UNCHANGED <<calls, policy, opts, registerCalls, faults>> /\ step = "waiting"
    BY <1>6 DEF Receive, gatewayVars, asked
  <2>3. CASE a.status >= 500 /\ Fail
    <3>1. call > 0 /\ Registers(call) /\ ~cancelled => attempt <= faults + Refused
      BY <2>1, <2>2, <2>3 DEF Costs
    <3> QED BY <2>2, <2>3, <3>1, FailCosts
  <2>4. ASSUME NEW how \in {"ok", "permanent"}, Return(how) PROVE Costs'
    <3>1. step' = "idle" /\ call' = call /\ result' = [result EXCEPT ![call] = how]
      BY <2>4 DEF Return
    <3>2. call \in DOMAIN result
      BY <2>2 DEF TypeInv, TypeOK, Inside
    <3> QED BY <2>4, <3>1, <3>2 DEF Costs
  <2> QED BY <2>1, <2>3, <2>4
<1>7. CASE TimesOut
  <2>1. /\ UNCHANGED <<calls, policy, opts, registerCalls>> /\ step = "waiting" /\ Fail
        /\ Arriving => faults' = faults + 1
        /\ ~Arriving => faults' = faults
    BY <1>7 DEF TimesOut, gatewayVars, asked
  <2>2. call > 0 /\ Registers(call) /\ ~cancelled => attempt <= faults' + Refused
    BY <2>1 DEF Costs
  <2> QED BY <2>1, <2>2, FailCosts
<1>8. CASE CancelledInOp
  <2>1. /\ UNCHANGED <<calls, policy, opts, registerCalls, faults>> /\ step = "waiting" /\ Fail
        /\ cancelled
    BY <1>8 DEF CancelledInOp, gatewayVars, asked
  <2> QED BY <2>1, FailCosts
<1>9. CASE BackoffOver
  <2>1. /\ step = "backoff" /\ step' = "loop" /\ attempt' = attempt + 1
        /\ UNCHANGED <<calls, opts, registerCalls, call, cancelled, faults>>
    BY <1>9 DEF BackoffOver, gatewayVars, asked
  <2> QED BY <2>1 DEF Costs, Registers, Refused
<1>10. ASSUME NEW r \in requests, Serve(r) PROVE Costs'
  <2>1. PICK status \in {201, 204, 401, 409, 500, 503} :
          /\ Handle(calls[r.call], status)
          /\ answers' = IF step = "waiting" /\ r = Current
                        THEN answers \cup {[call |-> r.call, attempt |-> r.attempt,
                                            status |-> status]}
                        ELSE answers
    BY <1>10 DEF Serve, Received, Sent
  <2>2. /\ UNCHANGED <<calls, policy, call, step, attempt, cancelled, result>>
        /\ faults' >= faults /\ faults' \in Nat
        /\ requests \ {r} \subseteq requests'
    BY <1>10 DEF Serve, doVars, asked
  <2>3. /\ opts' = opts /\ registerCalls' \in {registerCalls, registerCalls + 1}
        /\ calls[r.call].kind = "register" /\ status >= 500 =>
             registerCalls' = registerCalls + 1 /\ registerCalls < opts.unavailableFor
    BY <2>1 DEF Handle, HandleRegister, HandleUnregister, RegisterStatus, gatewayVars
  <2>4. /\ Refused' \in Nat /\ Refused' >= Refused
        /\ calls[r.call].kind = "register" /\ status >= 500 => Refused' = Refused + 1
    BY <2>3 DEF Refused
  <2>5. attempts' = attempts /\ (Registers(call)' <=> Registers(call))
    BY <2>2 DEF attempts, Registers
  <2>6. CASE step = "waiting" /\ r = Current
    <3>1. r.call = call /\ r.attempt = attempt
      BY <2>6 DEF Current
    <3>2. Arriving'
      <4> DEFINE a == [call |-> r.call, attempt |-> r.attempt, status |-> status]
      <4>1. a \in answers' /\ a.call = call' /\ a.attempt = attempt'
        BY <2>1, <2>2, <2>6, <3>1
      <4> QED BY <4>1 DEF Arriving
    <3>3. \A a \in answers' : a \in answers \/ a.status = status
      BY <2>1, <2>6
    <3>4. ASSUME call > 0, Registers(call), ~cancelled
          PROVE  /\ attempt - 1 <= faults' + Refused'
                 /\ (\E a \in answers' : Mine(a)' /\ a.status >= 500) => attempt <= faults' + Refused'
      <4>1. attempt - 1 <= faults + Refused
        BY <2>6, <3>4 DEF Costs
      <4>2. CASE \E a \in answers : Mine(a) /\ a.status >= 500
        BY <2>2, <2>4, <2>6, <3>4, <4>2 DEF Costs
      <4>3. CASE status >= 500
        BY <2>2, <2>4, <3>1, <3>4, <4>1, <4>3 DEF Registers
      <4> QED BY <2>2, <2>4, <3>3, <4>1, <4>2, <4>3 DEF Mine
    <3> QED BY <2>2, <2>5, <2>6, <3>2, <3>4 DEF Costs
  <2>7. CASE ~(step = "waiting" /\ r = Current)
    <3>1. answers' = answers
      BY <2>1, <2>7
    <3>2. step = "waiting" => (Arriving => Arriving')
      BY <2>2, <2>7, <3>1 DEF Arriving, Current
    <3>3. \A a : Mine(a)' <=> Mine(a)
      BY <2>2 DEF Mine
    <3> QED BY <2>2, <2>4, <2>5, <3>1, <3>2, <3>3 DEF Costs
  <2> QED BY <2>6, <2>7
<1>11. ASSUME NEW r \in requests, LoseRequest(r) PROVE Costs'
  <2>1. /\ UNCHANGED <<calls, policy, call, step, attempt, cancelled, result, answers, opts, registerCalls>>
        /\ faults' = faults + 1
    BY <1>11 DEF LoseRequest, doVars, asked, gatewayVars
  <2> QED BY <2>1 DEF Costs, Registers, Refused, attempts, Mine
<1>12. ASSUME NEW b \in answers, LoseAnswer(b) PROVE Costs'
  <2>1. /\ UNCHANGED <<calls, policy, call, step, attempt, cancelled, result, requests, opts, registerCalls>>
        /\ faults' = faults + 1 /\ answers' \subseteq answers
    BY <1>12 DEF LoseAnswer, doVars, asked, gatewayVars
  <2> QED BY <2>1 DEF Costs, Registers, Refused, attempts, Mine
<1> QED BY <1>1, <1>2, <1>3, <1>4, <1>5, <1>6, <1>7, <1>8, <1>9, <1>10, <1>11, <1>12
        DEF Next, Do, Network

\* retry.Do wastes no attempt: it gives up after the last one, and each had met
\* a fault of the network or a 503 of the gateway.
THEOREM ExhaustionIsEarned == Spec => []ExhaustedIsEarned
<1>1. Init => Costs
  BY DEF Init, Costs
<1>2. TypeInv /\ Costs => ExhaustedIsEarned
  BY Numbers DEF Costs, ExhaustedIsEarned, Refused
<1> QED BY <1>1, <1>2, InitTyped, StepTyped, CostsStep, PTL DEF Spec

-----------------------------------------------------------------------------
(* How long it takes.                                                      *)

Timeout == policy.attemptTimeout
LongestBackoff == (policy.maxDelay * (10 + policy.jitter)) \div 10

\* With a timeout and a cap, so many of each have passed at most.
Spent ==
  Timeout > 0 /\ policy.maxDelay > 0 =>
    /\ step \in {"loop", "waiting"}
         => elapsed <= (attempt - 1) * Timeout + (attempt - 1) * LongestBackoff
    /\ step = "backoff"
         => elapsed <= attempt * Timeout + (attempt - 1) * LongestBackoff
    /\ step = "idle"
         => elapsed <= attempts * Timeout + (attempts - 1) * LongestBackoff

\* No backoff is longer than the cap and its jitter.
LEMMA BackoffBounded ==
  ASSUME NEW p \in Policy, NEW n \in Nat \ {0}, NEW d \in Jittered(p, n), p.maxDelay > 0
  PROVE  d <= (p.maxDelay * (10 + p.jitter)) \div 10
<1>1. /\ Delay(p, n) \in Int /\ p.maxDelay \in Int /\ p.jitter \in 0 .. 10
  BY DelayType DEF Policy
<1>2. Delay(p, n) <= p.maxDelay
  BY <1>1, DelayType DEF Delay
<1>3. ASSUME NEW x \in Int, NEW y \in Int, x <= y PROVE x \div 10 <= y \div 10
  BY <1>3
<1>4. ASSUME NEW x \in Int, NEW y \in Int, y > 0, x <= y, NEW k \in 0 .. 10, NEW l \in 0 .. 20, k <= l
      PROVE  x * k <= y * l
  <2>1. x * k <= y * k
    BY <1>4
  <2>2. y * k <= y * l
    BY <1>4
  <2> QED BY <2>1, <2>2, <1>4
<1> QED BY <1>1, <1>2, <1>3, <1>4 DEF Jittered

\* Multiples of a timeout or of a backoff.
LEMMA Multiples ==
  ASSUME NEW m \in Nat, NEW n \in Nat, m <= n, NEW t \in Nat
  PROVE  m * t <= n * t
OBVIOUS

\* The longest backoff is a number.
LEMMA LongestType ==
  ASSUME policy \in Policy, policy.maxDelay > 0 PROVE LongestBackoff \in Nat
<1>1. ASSUME NEW x \in Nat, NEW y \in Nat PROVE x * y \in Nat
  OBVIOUS
<1>2. policy.maxDelay \in Nat /\ 10 + policy.jitter \in Nat
  BY DEF Policy
<1>3. policy.maxDelay * (10 + policy.jitter) \in Nat
  BY <1>1, <1>2
<1> QED BY <1>3 DEF LongestBackoff

\* The time spent is that of the attempts and backoffs so far.
LEMMA SpentStep == TypeInv /\ Spent /\ [Next]_vars => Spent'
<1> SUFFICES ASSUME TypeInv, Spent, [Next]_vars, Timeout' > 0, policy'.maxDelay > 0
             PROVE  /\ step' \in {"loop", "waiting"}
                         => elapsed' <= (attempt' - 1) * Timeout' + (attempt' - 1) * LongestBackoff'
                    /\ step' = "backoff"
                         => elapsed' <= attempt' * Timeout' + (attempt' - 1) * LongestBackoff'
                    /\ step' = "idle"
                         => elapsed' <= attempts' * Timeout' + (attempts' - 1) * LongestBackoff'
  BY DEF Spent
<1>1. /\ policy' = policy /\ Timeout' = Timeout /\ LongestBackoff' = LongestBackoff
      /\ attempts' = attempts
  <2>1. policy' = policy
    BY DEF Next, vars, gatewayVars, doVars, asked, Begin, Cancel, Do, Attempt,
       CancelledAtTop, Receive, TimesOut, CancelledInOp, BackoffOver,
       CancelledInBackoff, Network, Serve, LoseRequest, LoseAnswer
  <2> QED BY <2>1 DEF Timeout, LongestBackoff, attempts
<1>2. /\ policy \in Policy /\ Timeout \in Nat /\ LongestBackoff \in Nat
      /\ elapsed \in Int /\ policy.maxDelay > 0 /\ Timeout > 0
  <2>1. /\ policy \in Policy /\ elapsed \in Int
        /\ policy.maxDelay > 0 /\ Timeout > 0
    BY <1>1, Scenery DEF TypeInv, TypeOK
  <2> QED BY <2>1, LongestType DEF Policy, Timeout
<1>3. attempt \in Nat /\ attempts \in Nat \ {0}
  BY Numbers
<1>4. step # "idle" => attempt \in 1 .. attempts
  BY DEF TypeInv, Inside
<1> DEFINE T == Timeout
           B == LongestBackoff
<1>5. /\ step \in {"loop", "waiting"} => elapsed <= (attempt - 1) * T + (attempt - 1) * B
      /\ step = "backoff" => elapsed <= attempt * T + (attempt - 1) * B
      /\ step = "idle" => elapsed <= attempts * T + (attempts - 1) * B
  BY <1>1, <1>2 DEF Spent
<1>6. ASSUME step # "idle"
      PROVE  /\ (attempt - 1) * T + T = attempt * T
             /\ (attempt - 1) * T <= attempts * T
             /\ attempt * T <= attempts * T
             /\ (attempt - 1) * B <= (attempts - 1) * B
             /\ (attempt - 1) * B + B = attempt * B
             /\ {(attempt - 1) * T, attempt * T, attempts * T, (attempt - 1) * B,
                 attempt * B, (attempts - 1) * B} \subseteq Int
  <2>1. attempt - 1 \in Nat /\ attempt \in Nat /\ attempts \in Nat /\ attempts - 1 \in Nat
        /\ attempt <= attempts /\ T \in Nat /\ B \in Nat
    BY <1>2, <1>3, <1>4, <1>6
  <2>2. ASSUME NEW x \in Nat, NEW t \in Nat PROVE x * t + t = (x + 1) * t /\ x * t \in Int
    OBVIOUS
  <2>3. (attempt - 1) + 1 = attempt
    BY <2>1
  <2>4. /\ (attempt - 1) * T <= attempts * T
        /\ attempt * T <= attempts * T
        /\ (attempt - 1) * B <= (attempts - 1) * B
    BY <2>1, Multiples
  <2>5. /\ (attempt - 1) * T + T = attempt * T
        /\ (attempt - 1) * B + B = attempt * B
    BY <2>1, <2>2, <2>3
  <2> QED BY <2>1, <2>2, <2>4, <2>5
<1> HIDE DEF T, B
<1>7. CASE step # "idle" /\ step' = "idle" /\ UNCHANGED elapsed
  BY <1>1, <1>2, <1>5, <1>6, <1>7 DEF TypeInv, TypeOK, T, B
<1>8. CASE /\ step \in {"loop", "waiting"} /\ step' = "backoff" /\ UNCHANGED <<elapsed, attempt>>
  BY <1>1, <1>2, <1>5, <1>6, <1>8 DEF T, B
<1>9. CASE UNCHANGED <<elapsed, attempt, step>>
  BY <1>1, <1>5, <1>9 DEF T, B
<1>10. CASE Attempt \/ Cancel \/ UNCHANGED vars
  <2>1. UNCHANGED <<elapsed, attempt>> /\ \/ step = "loop" /\ step' = "waiting"
                                          \/ step' = step
    BY <1>10 DEF Attempt, Cancel, vars, doVars
  <2> QED BY <1>1, <1>5, <2>1 DEF T, B
<1>11. CASE Begin
  <2>1. elapsed' = 0 /\ attempt' = 1 /\ step' = "loop"
    BY <1>11 DEF Begin
  <2> QED BY <1>1, <1>2, <2>1
<1>12. CASE CancelledAtTop \/ CancelledInBackoff
  BY <1>7, <1>12 DEF CancelledAtTop, CancelledInBackoff, Return
<1>13. CASE Receive \/ CancelledInOp
  <2>1. step = "waiting" /\ UNCHANGED <<elapsed, attempt>> /\ step' \in {"idle", "backoff"}
    BY <1>13 DEF Receive, CancelledInOp, Fail, Return
  <2> QED BY <1>7, <1>8, <2>1
<1>14. CASE TimesOut
  <2>1. /\ step = "waiting" /\ elapsed' = elapsed + T /\ attempt' = attempt
        /\ step' \in {"idle", "backoff"}
    BY <1>14 DEF TimesOut, Fail, Return, T, Timeout
  <2> QED BY <1>1, <1>2, <1>5, <1>6, <2>1 DEF T, B
<1>15. CASE BackoffOver
  <2>1. /\ step = "backoff" /\ step' = "loop" /\ attempt' = attempt + 1
        /\ \E d \in Jittered(policy, attempt) : elapsed' = elapsed + d
    BY <1>15 DEF BackoffOver
  <2>2. PICK d \in Jittered(policy, attempt) : elapsed' = elapsed + d
    BY <2>1
  <2>3. attempt \in Nat \ {0} /\ attempt' - 1 = attempt
    BY <1>3, <1>4, <2>1
  <2>4. d \in Int /\ d <= B
    BY <1>2, <2>3, BackoffBounded, JitterType DEF B, LongestBackoff
  <2>5. elapsed' <= attempt * T + attempt * B
    BY <1>2, <1>5, <1>6, <2>1, <2>2, <2>4 DEF T, B
  <2> QED BY <1>1, <2>1, <2>3, <2>5 DEF T, B
<1>16. CASE Network
  BY <1>9, <1>16 DEF Network, Serve, LoseRequest, LoseAnswer, doVars
<1> QED BY <1>10, <1>11, <1>12, <1>13, <1>14, <1>15, <1>16 DEF Next, Do

\* Do returns within its timeouts and its backoffs at the cap, the jitter that
\* is applied after the cap included.
THEOREM TimeIsBounded == Spec => []TimeBounded
<1>1. Init => Spent
  <2> SUFFICES ASSUME Init, Timeout > 0, policy.maxDelay > 0
               PROVE  0 <= attempts * Timeout + (attempts - 1) * LongestBackoff
    BY DEF Init, Spent
  <2>1. policy \in Policy /\ attempts \in Nat \ {0}
    BY InitTyped, Scenery DEF TypeInv, TypeOK
  <2>2. attempts \in Nat /\ attempts - 1 \in Nat /\ Timeout \in Nat /\ LongestBackoff \in Nat
    BY <2>1, LongestType DEF Policy, Timeout
  <2>3. ASSUME NEW x \in Nat, NEW y \in Nat PROVE x * y \in Nat
    OBVIOUS
  <2> QED BY <2>2, <2>3
<1>2. TypeInv /\ Spent => TimeBounded
  <2> SUFFICES ASSUME TypeInv, Spent, Timeout > 0, policy.maxDelay > 0
               PROVE  elapsed <= attempts * Timeout + (attempts - 1) * LongestBackoff
    BY DEF TimeBounded, Timeout, LongestBackoff
  <2>1. /\ elapsed \in Int /\ Timeout \in Nat /\ LongestBackoff \in Nat
        /\ attempt \in Nat /\ attempts \in Nat \ {0} /\ attempts - 1 \in Nat
        /\ step # "idle" => attempt - 1 \in Nat /\ attempt <= attempts
    <3>1. policy \in Policy /\ elapsed \in Int
      BY Scenery DEF TypeInv, TypeOK
    <3>2. Timeout \in Nat /\ LongestBackoff \in Nat
      BY <3>1, LongestType DEF Policy, Timeout
    <3> QED BY <3>1, <3>2, Numbers DEF TypeInv, Inside
  <2>2. step # "idle" => /\ (attempt - 1) * Timeout <= attempts * Timeout
                         /\ attempt * Timeout <= attempts * Timeout
                         /\ (attempt - 1) * LongestBackoff <= (attempts - 1) * LongestBackoff
    BY <2>1, Multiples
  <2>3. ASSUME NEW x \in Int, NEW y \in Int PROVE x * y \in Int
    OBVIOUS
  <2>4. step \in {"idle", "loop", "waiting", "backoff"}
    BY DEF TypeInv, TypeOK
  <2> QED BY <2>1, <2>2, <2>3, <2>4 DEF Spent
<1> QED BY <1>1, <1>2, InitTyped, StepTyped, SpentStep, PTL DEF Spec

-----------------------------------------------------------------------------
(* Cancellation.                                                           *)

\* The context is looked at before every attempt, also after a backoff whose
\* timer and cancellation came together.
THEOREM CancellationStops == Spec => CancelStopsAttempts
<1>1. [Next]_vars => [cancelled => requests' \subseteq requests]_vars
  BY DEF Next, vars, gatewayVars, doVars, Begin, Cancel, Do, Attempt,
     CancelledAtTop, Receive, TimesOut, CancelledInOp, BackoffOver,
     CancelledInBackoff, Network, Serve, LoseRequest, LoseAnswer
<1> QED BY <1>1, PTL DEF Spec, CancelStopsAttempts

=============================================================================
