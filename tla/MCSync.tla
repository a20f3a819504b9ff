------------------------------- MODULE MCSync -------------------------------
(* Two nodes that connect with the same chain or with forks one and two     *)
(* blocks deep.                                                             *)
EXTENDS Sync

CONSTANTS a, b

MCPair == {a, b}

Light(n) == [miner |-> n, bits |-> 1]

MCInitChains ==
    {<<Light(b)>>,
     <<Light(a), Light(b), Light(b)>>,
     <<Light(a), Light(a), Light(a), Light(a), Light(a)>>}
=============================================================================
