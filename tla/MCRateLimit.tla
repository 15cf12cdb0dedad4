----------------------------- MODULE MCRateLimit ------------------------------
(* Instances of RateLimit for TLC. *)
EXTENDS RateLimit, TLC

CONSTANTS u1

MCUserOf == [k \in ApiKeys |-> u1]

Symmetry == Permutations(Requests) \cup Permutations(ApiKeys)
===============================================================================
