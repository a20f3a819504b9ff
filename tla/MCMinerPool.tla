---------------------------- MODULE MCMinerPool -----------------------------
(* Two clients, which are alike, and two connections: either both clients   *)
(* work, or one of them connects again.                                     *)
EXTENDS MinerPool, TLC

CONSTANTS alice, bob

MCClients == {alice, bob}

AlikeClients == Permutations(MCClients)
=============================================================================
