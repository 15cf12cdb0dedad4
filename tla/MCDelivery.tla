------------------------------ MODULE MCDelivery ------------------------------
(* Instances of Delivery for TLC. *)
EXTENDS Delivery, TLC

NoFaults == [kind \in FaultKinds |-> 0]
OneOfAll == [kind \in FaultKinds |-> 1]
OneOfEach == [OneOfAll EXCEPT !["stop"] = 0]
StoreErrors == [OneOfEach EXCEPT !["crash"] = 0]
OneCrash == [NoFaults EXCEPT !["crash"] = 1]

Symmetry == Permutations(Notifications) \cup Permutations(Workers)
              \cup Permutations(Retriers)
===============================================================================
