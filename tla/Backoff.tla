-------------------------------- MODULE Backoff --------------------------------
(***************************************************************************)
(* The two retryDelay functions, in the arithmetic of time.Duration, a     *)
(* signed integer of Width bits that wraps around.                         *)
(***************************************************************************)
EXTENDS Integers

CONSTANTS
  Width, \* 64 in Go
  Second \* time.Second, how many units of time.Duration there are: 10^9 in Go

ASSUME BackoffAssumption == Width \in Nat \ {0} /\ Second \in Nat \ {0}

Half == 2^(Width - 1)
Wrap(x) == ((x + Half) % (2 * Half)) - Half

\* 1 << n, the left operand taking the type of the product it stands in.
ShiftLeft(n) == IF n < Width THEN Wrap(2^n) ELSE 0

Backoff(base, n) == Wrap(base * ShiftLeft(n))
Capped(delay, limit) == IF delay > limit THEN limit ELSE delay

\* service.retryDelay
RetryDelay_bug(base, limit, attempt) == Capped(Backoff(base, attempt), limit)
RetryDelay(base, limit, attempt) ==
  Capped(Backoff(base, IF attempt < 1 THEN 0 ELSE attempt - 1), limit)

\* WebhookDispatcher.retryDelay, its limit a constant of the code
MaxWebhookDelay == 30 * Second
WebhookDelay(base, attempt) ==
  Capped(Backoff(base, attempt - 1), MaxWebhookDelay)

-------------------------------------------------------------------------------
\* What a delay should be: it doubles from attempt to attempt up to the limit.
Doubled(base, attempt) == base * 2^(attempt - 1)

\* A delay is right as long as the exact product fits the type, even when the
\* limit is passed; beyond, it may be negative or zero, that is, no delay.
DelayRight(delay, base, limit, attempt) ==
  Doubled(base, attempt) < Half =>
    delay = IF Doubled(base, attempt) > limit
            THEN limit ELSE Doubled(base, attempt)
===============================================================================
