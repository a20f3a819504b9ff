------------------------------ MODULE MCPeers ------------------------------
(* Two nodes: b knows a by its IP and dials from two goroutines, a knows b  *)
(* by a name and itself by its public IP.                                   *)
EXTENDS Peers, TLC

CONSTANTS a, b, a1, b2

MCNodes == {a, b}

MCNonce == (a :> 2) @@ (b :> 1)

MCNodeAt == (a1 :> a) @@ (b2 :> b)

MCDials == {<<a, b2>>, <<a, a1>>, <<b, a1>>}

MCDialers == (a :> 1) @@ (b :> 2)
=============================================================================
