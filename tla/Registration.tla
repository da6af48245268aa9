---------------------------- MODULE Registration ----------------------------
(***************************************************************************)
(* retry.Do around the requests to the gateway, over a network that loses, *)
(* delays and repeats them.                                                *)
(*                                                                         *)
(* The calls are the register and unregister operations on one deployment, *)
(* one after the other (the operation lock).  An attempt that is given up  *)
(* may still be on its way and be served later: a timeout ends the wait,   *)
(* not the request.                                                        *)
(***************************************************************************)
EXTENDS Gateway, Backoff, Sequences

CONSTANTS
  Scenarios,    \* what may be asked for: [calls, policy]
  MaxFaults     \* bound on lost, late and repeated messages in one call

Call == [kind : {"register", "unregister"}, key : Key]

ASSUME RegistrationAssumption ==
  /\ Scenarios \subseteq [calls : Seq(Call), policy : Policy]
  /\ MaxFaults \in Nat

VARIABLES
  calls,      \* the calls of Do, in order
  policy,     \* the Policy of each of them
  call,       \* index of the current call of Do
  step,       \* where Do is
  attempt,    \* its loop variable
  cancelled,  \* its context is cancelled
  result,     \* how each call ended
  requests,   \* requests on their way: [call, attempt]
  answers,    \* responses on their way: [call, attempt, status]
  faults,     \* faults of the network in this call
  elapsed     \* time of this call; an answer that comes, comes at once

asked == <<calls, policy>>
doVars == <<asked, call, step, attempt, cancelled, result, elapsed>>
vars == <<gatewayVars, doVars, requests, answers, faults>>

attempts == Attempts(policy)

Results == {"none", "ok", "permanent", "exhausted", "cancelled"}
Current == [call |-> call, attempt |-> attempt]

Init ==
  /\ GatewayInit
  /\ \E s \in Scenarios : calls = s.calls /\ policy = s.policy
  /\ call = 0 /\ step = "idle" /\ attempt = 0 /\ cancelled = FALSE
  /\ result = [c \in DOMAIN calls |-> "none"]
  /\ requests = {} /\ answers = {} /\ faults = 0 /\ elapsed = 0

-----------------------------------------------------------------------------
(* retry.Do *)

Begin ==
  /\ step = "idle" /\ call < Len(calls)
  /\ call' = call + 1 /\ attempt' = 1 /\ step' = "loop"
  /\ cancelled' = FALSE /\ faults' = 0 /\ elapsed' = 0
  /\ UNCHANGED <<gatewayVars, asked, result, requests, answers>>

Cancel ==
  /\ step # "idle" /\ ~cancelled
  /\ cancelled' = TRUE
  /\ UNCHANGED <<gatewayVars, asked, call, step, attempt, result, elapsed,
                 requests, answers, faults>>

Return(how) ==
  /\ result' = [result EXCEPT ![call] = how]
  /\ step' = "idle"
  /\ UNCHANGED <<call, attempt, cancelled>>

\* Mutant: the context is looked at during the backoff only.
AttemptAnyway ==
  /\ step = "loop"
  /\ step' = "waiting" /\ requests' = requests \cup {Current}
  /\ UNCHANGED <<gatewayVars, asked, call, attempt, cancelled, result, elapsed, answers, faults>>

\* The top of the loop, then op: the request leaves.
Attempt ==
  /\ step = "loop" /\ ~cancelled
  /\ step' = "waiting" /\ requests' = requests \cup {Current}
  /\ UNCHANGED <<gatewayVars, asked, call, attempt, cancelled, result, elapsed, answers, faults>>

CancelledAtTop ==
  /\ step = "loop" /\ cancelled
  /\ Return("cancelled")
  /\ UNCHANGED <<gatewayVars, asked, elapsed, requests, answers, faults>>

FailEarly ==
  IF attempt + 1 >= attempts
  THEN Return("exhausted")
  ELSE step' = "backoff" /\ UNCHANGED <<call, attempt, cancelled, result>>

\* An error that is not permanent: the last attempt ends Do, also when it is
\* the cancellation that made it fail.
Fail ==
  IF attempt = attempts
  THEN Return("exhausted")
  ELSE step' = "backoff" /\ UNCHANGED <<call, attempt, cancelled, result>>

\* The answer of this attempt, as registerOnce classifies it.
Receive ==
  /\ step = "waiting"
  /\ \E a \in answers :
       /\ a.call = call /\ a.attempt = attempt
       /\ answers' = answers \ {a}
       /\ IF a.status < 300 THEN Return("ok")
          ELSE IF a.status >= 500 THEN Fail
          ELSE Return("permanent")
  /\ UNCHANGED <<gatewayVars, asked, elapsed, requests, faults>>

\* Mutant: an attempt has no deadline.
NeverTimesOut == FALSE /\ UNCHANGED vars

Arriving == Current \in requests \/ \E a \in answers : a.call = call /\ a.attempt = attempt

\* AttemptTimeout, if there is one: the message was lost, or it is late (a fault of its own).
\* The connection is closed; what is still on its way may be dropped with it.
TimesOut ==
  /\ step = "waiting" /\ policy.attemptTimeout > 0
  /\ elapsed' = elapsed + policy.attemptTimeout
  /\ Arriving => faults < MaxFaults /\ faults' = faults + 1
  /\ ~Arriving => UNCHANGED faults
  /\ Fail
  /\ requests' \in {requests, requests \ {Current}}
  /\ answers' = {a \in answers : a.call # call \/ a.attempt # attempt}
  /\ UNCHANGED <<gatewayVars, asked>>

\* The context is cancelled while op waits.
CancelledInOp ==
  /\ step = "waiting" /\ cancelled
  /\ Fail
  /\ requests' \in {requests, requests \ {Current}}
  /\ answers' = {a \in answers : a.call # call \/ a.attempt # attempt}
  /\ UNCHANGED <<gatewayVars, asked, elapsed, faults>>

\* The timer fires; with the context cancelled too, select may take either.
BackoffOver ==
  /\ step = "backoff"
  /\ step' = "loop" /\ attempt' = attempt + 1
  /\ \E d \in Jittered(policy, attempt) : elapsed' = elapsed + d
  /\ UNCHANGED <<gatewayVars, asked, call, cancelled, result, requests, answers, faults>>

CancelledInBackoff ==
  /\ step = "backoff" /\ cancelled
  /\ Return("cancelled")
  /\ UNCHANGED <<gatewayVars, asked, elapsed, requests, answers, faults>>

-----------------------------------------------------------------------------
(* The network and the gateway *)

Sent(r) == calls[r.call]

\* Mutant: every attempt makes up a key of its own (of the few there are).
SentFresh(r) ==
  [calls[r.call] EXCEPT !.key =
     IF r.attempt = 1 THEN @ ELSE CHOOSE k \in Key : k # calls[r.call].key]

\* The request as the gateway reads it: one key for all attempts of a call.
Received(r) == Sent(r)

\* The gateway handles a request, late ones included; the network may deliver
\* it once more.
Serve(r) ==
  /\ r \in requests
  /\ \E status \in {201, 204, 401, 409, 500, 503} :
       /\ Handle(Received(r), status)
       /\ answers' = IF step = "waiting" /\ r = Current
                     THEN answers \cup {[call |-> r.call, attempt |-> r.attempt, status |-> status]}
                     ELSE answers
  /\ \/ requests' = requests \ {r} /\ UNCHANGED faults
     \/ faults < MaxFaults /\ faults' = faults + 1 /\ UNCHANGED requests
  /\ UNCHANGED doVars

LoseRequest(r) ==
  /\ r \in requests /\ faults < MaxFaults
  /\ requests' = requests \ {r} /\ faults' = faults + 1
  /\ UNCHANGED <<gatewayVars, doVars, answers>>

LoseAnswer(a) ==
  /\ a \in answers /\ faults < MaxFaults
  /\ answers' = answers \ {a} /\ faults' = faults + 1
  /\ UNCHANGED <<gatewayVars, doVars, requests>>

-----------------------------------------------------------------------------
Do ==
  \/ Attempt \/ CancelledAtTop \/ Receive \/ TimesOut \/ CancelledInOp
  \/ BackoffOver \/ CancelledInBackoff

Network ==
  \/ \E r \in requests : Serve(r) \/ LoseRequest(r)
  \/ \E a \in answers : LoseAnswer(a)

Next == Begin \/ Cancel \/ Do \/ Network

Spec == Init /\ [][Next]_vars

\* Do runs on; the gateway serves what reaches it.
FairSpec ==
  Spec /\ WF_vars(Do) /\ WF_vars(\E r \in requests : Serve(r))

-----------------------------------------------------------------------------
TypeOK ==
  /\ opts \in Options
  /\ registeredKey \in Key \cup {NoKey}
  /\ registerCalls \in Nat
  /\ [calls |-> calls, policy |-> policy] \in Scenarios
  /\ call \in 0 .. Len(calls)
  /\ step \in {"idle", "loop", "waiting", "backoff"}
  /\ attempt \in 0 .. attempts
  /\ cancelled \in BOOLEAN
  /\ result \in [DOMAIN calls -> Results]
  /\ requests \subseteq [call : DOMAIN calls, attempt : 1 .. attempts]
  /\ answers \subseteq [call : DOMAIN calls, attempt : 1 .. attempts,
                        status : {201, 204, 401, 409, 500, 503}]
  /\ faults \in 0 .. MaxFaults
  /\ elapsed \in Int

Registers(c) == calls[c].kind = "register"

\* No unregister call has begun yet.
NoneUnregistered == \A c \in 1 .. call : Registers(c)

\* A register call that returned nil has its deployment registered under its
\* own key, and it stays so until somebody unregisters it: no late or repeated
\* request of an earlier or of the same call takes it away.
OkMeansRegistered ==
  NoneUnregistered =>
    \A c \in 1 .. call : result[c] = "ok" => registeredKey = calls[c].key

\* A call is given up as permanent only for a reason that no retry can cure: a
\* token that is refused, or a registration of another call.  The call's own
\* earlier attempt, served while its answer was lost, is never taken for a
\* conflict.
PermanentIsPermanent ==
  NoneUnregistered =>
    \A c \in 1 .. call :
      result[c] = "permanent" =>
        ~opts.authorised \/ registeredKey \notin {NoKey, calls[c].key}

\* Types, and results that say what happened at the gateway.
ResultsTrue == TypeOK /\ OkMeansRegistered /\ PermanentIsPermanent

\* Attempts are not wasted: a register call is exhausted only if every one of
\* its attempts met a fault of its own, of the network or of the gateway (or
\* the cancellation that interrupts the last).
ExhaustedIsEarned ==
  step = "idle" /\ call > 0 =>
    (Registers(call) /\ result[call] = "exhausted" /\ ~cancelled =>
       attempts <= faults + opts.unavailableFor)

MaxCalls == CHOOSE n \in {Len(s.calls) : s \in Scenarios} :
              \A s \in Scenarios : Len(s.calls) <= n

\* No attempt leaves after the cancellation, whichever of the timer and the
\* context the backoff's select has taken.
CancelStopsAttempts == [][cancelled => requests' \subseteq requests]_vars

\* With a timeout every call of Do returns, whatever the network does to its
\* messages; without one it is the caller's cancellation that ends it.
DoReturns ==
  \A c \in 1 .. MaxCalls :
    (call = c /\ (policy.attemptTimeout > 0 \/ cancelled))
      ~> (call # c \/ result[c] # "none")

\* The wait is bounded: with a timeout and a cap, a call lasts no longer than
\* all its timeouts and all its backoffs at the cap.  The jitter is applied
\* after the cap, so each backoff may exceed it by the jitter's share.
TimeBounded ==
  policy.attemptTimeout > 0 /\ policy.maxDelay > 0 =>
    elapsed <= attempts * policy.attemptTimeout
               + (attempts - 1) * ((policy.maxDelay * (10 + policy.jitter)) \div 10)

\* Claim: 204 means "Unregistered or already absent" (the gateway contract).
UnregisteredIsAbsent ==
  call > 0 /\ result[call] = "ok" /\ ~Registers(call) => registeredKey = NoKey

=============================================================================
