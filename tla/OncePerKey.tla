------------------------------ MODULE OncePerKey ------------------------------
(***************************************************************************)
(* What an idempotency key promises: one request claims the key, and the   *)
(* result of that request, once recorded, is the result of the key for     *)
(* ever.                                                                   *)
(***************************************************************************)
CONSTANTS Requests, Keys, Results, Nobody, NoResult

VARIABLES owner, result

vars == <<owner, result>>

Claim(k) ==
  /\ owner[k] = Nobody
  /\ \E r \in Requests : owner' = [owner EXCEPT ![k] = r]
  /\ UNCHANGED result

Decide(k) ==
  /\ owner[k] \in Requests
  /\ result[k] = NoResult
  /\ \E value \in Results : result' = [result EXCEPT ![k] = value]
  /\ UNCHANGED owner

Init ==
  /\ owner = [k \in Keys |-> Nobody]
  /\ result = [k \in Keys |-> NoResult]

Next == \E k \in Keys : Claim(k) \/ Decide(k)

Spec == Init /\ [][Next]_vars
===============================================================================
