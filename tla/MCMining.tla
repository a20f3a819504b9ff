------------------------------ MODULE MCMining ------------------------------
(* One transaction, a spawned round beside the loop, and a miner with one   *)
(* mining thread and its block checker.                                     *)
EXTENDS Mining
=============================================================================
