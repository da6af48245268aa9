--------------------------- MODULE MCRegistration ---------------------------
(***************************************************************************)
(* Instances of Registration for TLC.                                      *)
(***************************************************************************)
EXTENDS Registration

CONSTANTS k1, k2

Register(key) == [kind |-> "register", key |-> key]
Unregister == [kind |-> "unregister", key |-> k1]

\* Backoffs of 2 and 3 (capped) with half of them as jitter; no backoff at all;
\* 1 and 3, doubled or nothing; the fields left out.
Capped == [maxAttempts |-> 3, baseDelay |-> 2, maxDelay |-> 3, multiplier |-> 0,
           jitter |-> 5, attemptTimeout |-> 2]
Hasty == [Capped EXCEPT !.maxAttempts = 2, !.baseDelay = 0]
Steep == [Capped EXCEPT !.maxAttempts = 4, !.baseDelay = 1, !.multiplier = 3, !.jitter = 10]
Unset == [maxAttempts |-> 0, baseDelay |-> 0, maxDelay |-> 0, multiplier |-> 0,
          jitter |-> 0, attemptTimeout |-> 0]

\* A deploy and another of the same id with another key; a deploy and a
\* destroy; a single deploy.
AllScenarios ==
  {[calls |-> <<Register(k1), Register(k2)>>, policy |-> Hasty],
   [calls |-> <<Register(k1), Unregister>>, policy |-> Capped],
   [calls |-> <<Register(k1)>>, policy |-> Steep],
   [calls |-> <<Register(k1), Unregister>>, policy |-> Unset]}

=============================================================================
