------------------------------- MODULE MCNode -------------------------------
(* A small instance of Node: a local miner m and a peer p, a payment of m  *)
(* and one of SYSTEM that may be submitted, and blocks found elsewhere.    *)
EXTENDS Node

\* One reward of 8 pays t1, or even two of it, but t2 only without its fee.
t1 == [sig |-> "t1", from |-> "m", to |-> "p", amount |-> 2, fee |-> 1]
t2 == [sig |-> "t2", from |-> "m", to |-> "p", amount |-> 8, fee |-> 1]

\* A payment of SYSTEM to m, under the signature of t1.
s1 == [sig |-> "t1", from |-> "SYSTEM", to |-> "m", amount |-> 5, fee |-> 1]

\* Amount and fee add up to Int64Limit, and wrap to its negative.
t3 == [sig |-> "t3", from |-> "p", to |-> "m", amount |-> 32, fee |-> 32]

MCAddr == {"m", "p"}

\* What may be submitted here.
MCTx == {t1, s1}

\* A block by p: its coinbase's signature, its difficulty, the one it leads to,
\* its transactions.
ByP(c, b, st, s) ==
    [miner |-> "p", sig |-> c, bits |-> b, stamp |-> st, txs |-> s, extra |-> 0]

\* Blocks found elsewhere: a heavy one with t1, a light one with t2 after which
\* heavy ones are due, a light one with a payment of SYSTEM, which the checks
\* refuse, and a light one with a cost that wraps.  The first two have a coinbase
\* with the signature of t1.
MCPeerOffer ==
    {ByP("t1", 3, 1, <<t1>>), ByP("t1", 1, 3, <<t2>>),
     ByP("c", 1, 1, <<s1>>), ByP("c", 1, 1, <<t3>>)}
=============================================================================
