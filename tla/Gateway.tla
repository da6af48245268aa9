------------------------------- MODULE Gateway -------------------------------
(***************************************************************************)
(* The gateway registration API (fakes/gateway.go), for one deployment.    *)
(* A handler runs under the mutex, so serving a request is one step.       *)
(***************************************************************************)
EXTENDS Naturals

CONSTANTS
  Key,             \* idempotency keys
  NoKey,           \* no registration
  MaxUnavailable   \* bound on GatewayOptions.UnavailableFor

ASSUME GatewayAssumption == NoKey \notin Key /\ MaxUnavailable \in Nat

VARIABLES
  opts,           \* GatewayOptions, and whether the caller has the right token
  registeredKey,  \* idempotencyKey of the deployment's registration
  registerCalls   \* register calls that reached the handler

gatewayVars == <<opts, registeredKey, registerCalls>>

Options == [authorised : BOOLEAN, unavailableFor : 0 .. MaxUnavailable,
            failUnregister : BOOLEAN]

GatewayInit ==
  /\ opts \in Options
  /\ registeredKey = NoKey
  /\ registerCalls = 0

\* What handleRegister answers: the same key is replayed, another is refused.
RegisterStatus(key) ==
  IF registerCalls < opts.unavailableFor THEN 503
  ELSE IF registeredKey \in {NoKey, key} THEN 201 ELSE 409

HandleRegister(key, status) ==
  /\ status = RegisterStatus(key)
  /\ registerCalls' = registerCalls + 1
  /\ registeredKey' = IF status = 201 THEN key ELSE registeredKey
  /\ UNCHANGED opts

\* Deleting an absent registration is answered like deleting one.
HandleUnregister(status) ==
  /\ status = IF opts.failUnregister THEN 500 ELSE 204
  /\ registeredKey' = IF status = 204 THEN NoKey ELSE registeredKey
  /\ UNCHANGED <<opts, registerCalls>>

\* The handlers behind auth.
Handle(request, status) ==
  IF ~opts.authorised THEN status = 401 /\ UNCHANGED gatewayVars
  ELSE IF request.kind = "register" THEN HandleRegister(request.key, status)
  ELSE HandleUnregister(status)

=============================================================================
