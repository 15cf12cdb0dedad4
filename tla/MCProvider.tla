------------------------------ MODULE MCProvider ------------------------------
(* An instance of Provider for TLC: the cfg gives its numbers. *)
EXTENDS Provider
===============================================================================
