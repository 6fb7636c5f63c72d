-------------------------- MODULE MCGraphRecovery --------------------------
(* Two blocks with two places each. *)
EXTENDS GraphRecovery, TLC

CONSTANTS a, b
MCBlockOf == <<a, a, b, b>>
Interchangeable == Permutations(Clients)
=============================================================================
