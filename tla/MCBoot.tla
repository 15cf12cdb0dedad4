-------------------------------- MODULE MCBoot --------------------------------
(* The instance of Boot for TLC: each process is started with variables that  *)
(* are missing or do not parse, or with a new API_KEY and delays that overflow. *)
(* A unit of time.Duration is a second here, and a duration one byte wide.    *)
EXTENDS Boot

MCEnvironments ==
  {[apiKey |-> Unset, maxRetries |-> Garbage, baseBackoff |-> Unset, maxBackoff |-> Garbage],
   [apiKey |-> "rotated", maxRetries |-> 8, baseBackoff |-> 5, maxBackoff |-> 100]}
MCKeys == {"dev-secret-key", "rotated"}
OneOfEach == [kind \in FaultKinds |-> 1]
===============================================================================
