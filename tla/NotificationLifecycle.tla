------------------------- MODULE NotificationLifecycle -------------------------
(***************************************************************************)
(* What the delivery pipeline promises of the row of one notification: it  *)
(* is created pending with no attempt made, each attempt is counted before *)
(* it is made, a failed attempt that is not the last leads to "retrying",  *)
(* and "sent" and "failed" are final, the latter reached only when all     *)
(* attempts are used up.                                                   *)
(***************************************************************************)
EXTENDS Naturals

CONSTANT MaxAttempts

VARIABLES status, attempts

vars == <<status, attempts>>

Unsettled == status \in {"pending", "retrying"}
Settled == status \in {"sent", "failed"}

Accept == status = "absent" /\ status' = "pending" /\ UNCHANGED attempts

BeginAttempt ==
  /\ Unsettled
  /\ attempts < MaxAttempts
  /\ attempts' = attempts + 1
  /\ UNCHANGED status

\* The attempt under way has ended and the notification becomes s.
End(s) ==
  /\ Unsettled
  /\ attempts > 0
  /\ status' = s
  /\ UNCHANGED attempts

Deliver == End("sent")
Postpone == attempts < MaxAttempts /\ End("retrying")
GiveUp == attempts = MaxAttempts /\ End("failed")

Init == status = "absent" /\ attempts = 0

Next == Accept \/ BeginAttempt \/ Deliver \/ Postpone \/ GiveUp

Spec == Init /\ [][Next]_vars
===============================================================================
