------------------------------- MODULE MCPool -------------------------------
(* Two workers and one reward. *)
EXTENDS Pool, TLC

CONSTANTS a, b

MCWorkers == {a, b}

Symmetric == Permutations(MCWorkers)
=============================================================================
