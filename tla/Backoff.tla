------------------------------- MODULE Backoff -------------------------------
(***************************************************************************)
(* retry.Policy: how often retry.Do tries and how long it waits between    *)
(* two attempts, in integers (durations in some unit, the jitter fraction  *)
(* in tenths, the multiplier an integer).                                  *)
(***************************************************************************)
EXTENDS Integers

Policy == [maxAttempts : Int, baseDelay : Int, maxDelay : Int, multiplier : Int,
           jitter : 0 .. 10, attemptTimeout : Int]

\* Zero and less mean one attempt.
Attempts(p) == IF p.maxAttempts <= 0 THEN 1 ELSE p.maxAttempts

Growth(p, n) ==
  p.baseDelay * (IF p.multiplier <= 1 THEN 2 ELSE p.multiplier) ^ (n - 1)

\* Mutant: no cap.
DelayUncapped(p, n) ==
  IF n < 1 \/ p.baseDelay <= 0 THEN 0 ELSE Growth(p, n)

\* Policy.Delay: the backoff between attempt n and the next, before jitter.
Delay(p, n) ==
  IF n < 1 \/ p.baseDelay <= 0 THEN 0
  ELSE IF p.maxDelay > 0 /\ Growth(p, n) > p.maxDelay THEN p.maxDelay
  ELSE Growth(p, n)

\* Policy.jittered: between 1-f and 1+f times the delay, here one of the two.
Jittered(p, n) ==
  {(Delay(p, n) * (10 - p.jitter)) \div 10, (Delay(p, n) * (10 + p.jitter)) \div 10}

=============================================================================
