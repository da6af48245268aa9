------------------------------- MODULE Servers -------------------------------
(***************************************************************************)
(* HTTP servers as a deploy meets them on a port: vLLM as the repository's *)
(* fake (internal/fakes/vllm.go) serves its API.  Whoever else listens is  *)
(* one of them too, with another model, another key, or no key at all.     *)
(***************************************************************************)
EXTENDS Naturals

CONSTANTS
  Model,   \* the names of served models
  Key,     \* API keys
  NoKey    \* a server without --api-key

\* VLLMOptions.
Server ==
  [model : Model, key : Key \cup {NoKey}, failLoad : BOOLEAN,
   healthyAfter : Nat, malformed : BOOLEAN]

Authorized(server, key) == server.key \in {NoKey, key}

\* handleHealth at the calls-th call; it asks for no key.
Health(server, calls) ==
  IF server.failLoad THEN 500
  ELSE IF calls <= server.healthyAfter THEN 503
  ELSE 200

\* handleModels: does the answer list the model?  A truncated one is no list.
Lists(server, key, model) ==
  Authorized(server, key) /\ ~server.malformed /\ server.model = model

\* handleChat: is an inference served?
Infers(server, key, model) == Authorized(server, key) /\ server.model = model

=============================================================================
