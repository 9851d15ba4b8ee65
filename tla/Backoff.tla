------------------------------- MODULE Backoff -------------------------------
(***************************************************************************)
(* pkg/retry/backoff.go: how long asynq waits before it hands a task out   *)
(* again, for job tasks and deliveries alike (processor.go installs it as  *)
(* RetryDelayFunc).  The code computes in float64, where nothing           *)
(* overflows, and converts to an int64 last; MaxDuration is the largest    *)
(* value an int64 holds, in the units of the other constants.              *)
(***************************************************************************)
EXTENDS Integers

CONSTANTS baseDelay, maxDelay, jitterMax, MaxDuration

ASSUME BackoffAssumption ==
  /\ {baseDelay, maxDelay, jitterMax, MaxDuration} \subseteq Nat \ {0}
  /\ jitterMax <= baseDelay /\ baseDelay <= maxDelay /\ maxDelay < MaxDuration

(* time.Duration(total): out of range comes out as the smallest int64. *)
Duration(total) == IF total <= MaxDuration THEN total ELSE -(MaxDuration + 1)

Total(attempt, jitter) ==
  baseDelay * 2 ^ (IF attempt < 0 THEN 0 ELSE attempt) + jitter

(* Mutant: converted first, capped afterwards. *)
Capped_Late(total) ==
  IF Duration(total) >= maxDelay THEN maxDelay ELSE Duration(total)

Capped(total) == IF total >= maxDelay THEN maxDelay ELSE Duration(total)

(* Backoff(attempt), for each outcome of rand.Intn(jitterMax). *)
Delays(attempt) == {Capped(Total(attempt, j)) : j \in 0 .. jitterMax - 1}
=============================================================================
