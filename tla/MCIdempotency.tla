---------------------------- MODULE MCIdempotency -----------------------------
(* Instances of Idempotency for TLC: three requests compete for key k1, one  *)
(* of them with another body, one has a key of its own, one has none.        *)
EXTENDS Idempotency

CONSTANTS r1, r2, r3, r4, r5, k1, k2, b1, b2

MCKeyOf ==
  [r \in Requests |->
     IF r \in {r1, r2, r3} THEN k1 ELSE IF r = r4 THEN k2 ELSE NoKey]
MCBodyOf == [r \in Requests |-> IF r = r3 THEN b2 ELSE b1]

OneOfEach == [kind \in FaultKinds |-> 1]
OneHangUp == [kind \in FaultKinds |-> IF kind = "hangup" THEN 1 ELSE 0]
===============================================================================
