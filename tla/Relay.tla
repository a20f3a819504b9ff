------------------------------- MODULE Relay --------------------------------
(***************************************************************************)
(* Payments on their way to the mempools of all nodes: sent whole to the   *)
(* peers of the node that a wallet gave them to, announced to others, asked *)
(* for, announced again every two minutes, and refused, with a penalty for  *)
(* who sent them, by a node on which the sender's balance does not suffice. *)
(*                                                                         *)
(* There is one chain, of which each node has a prefix: what forks do is in *)
(* Node and Sync.  Every node is honest.                                    *)
(***************************************************************************)
EXTENDS Network, Integers, Sequences, SequencesExt

CONSTANTS
    Payments,     \* [from, to, amount, fee, id], of wallets, with sums within int64
    GivenTo,      \* bound: the nodes that a wallet gives each payment to
    Funds,        \* of each account, before any payment
    SendBuffer,   \* messages that a connection holds: 100
    Strikes,      \* refused payments that a peer is banned for: 10
    MaxBlocks,    \* bound: the chain
    MaxMeetings   \* bound: connections that are made again

ASSUME RelayAssumption ==
    /\ IsFiniteSet(Payments) /\ GivenTo \in [Payments -> SUBSET Nodes]
    /\ \A t \in Payments : /\ {t.from, t.to} \subseteq DOMAIN Funds
                           /\ t.amount \in Nat /\ t.fee \in Nat
    /\ \A a \in DOMAIN Funds : Funds[a] \in Nat
    /\ {SendBuffer, Strikes} \subseteq Nat \ {0} /\ {MaxBlocks, MaxMeetings} \subseteq Nat

VARIABLES
    blocks,    \* of the chain, each the set of its payments
    height,    \* of each node's prefix of the chain
    strayed,   \* the height of a block of its own that no other node takes; 0: none
    mempool,
    link,      \* sendCh and the connection behind it, from one peer to another
    strikes,   \* refused payments of a node's peer
    meetings

relayVars == <<blocks, height, strayed, mempool, link, strikes, meetings>>

RelayMessage == [type : {"tx", "inv", "getdata", "mempool"}, txs : SUBSET Payments]

RelayTypeOK ==
    /\ blocks \in Seq(SUBSET Payments) /\ Len(blocks) <= MaxBlocks
    /\ height \in [Nodes -> 0..MaxBlocks]
    /\ strayed \in [Nodes -> 0..(MaxBlocks + 1)]
    /\ mempool \in [Nodes -> SUBSET Payments]
    /\ link \in [Links -> Seq(RelayMessage)] /\ \A l \in Links : Len(link[l]) <= SendBuffer
    /\ strikes \in [Links -> 0..Strikes]
    /\ meetings \in 0..MaxMeetings

RelayInit ==
    /\ blocks = <<>>
    /\ height = [n \in Nodes |-> 0]
    /\ strayed = [n \in Nodes |-> 0]
    /\ mempool = [n \in Nodes |-> {}]
    /\ link = [l \in Links |-> <<>>]
    /\ strikes = [l \in Links |-> 0]
    /\ meetings = 0
-----------------------------------------------------------------------------
(* Balances and admission                                                  *)

Confirmed(n) == UNION {blocks[i] : i \in 1..height[n]}

Cost(txs, a) ==
    SumFunction([t \in Payments |-> IF t \in txs /\ t.from = a THEN t.amount + t.fee ELSE 0])

Gain(txs, a) ==
    SumFunction([t \in Payments |-> IF t \in txs /\ t.to = a THEN t.amount ELSE 0])

Balance(n, a) == Funds[a] + Gain(Confirmed(n), a) - Cost(Confirmed(n), a)

Affordable(n, t) ==
    Balance(n, t.from) - Cost(mempool[n], t.from) >= t.amount + t.fee

\* Faulty: only the mempool is looked at.
KnownPending(n, t) == t \in mempool[n]

\* AddTransactionIfNew takes no notice of what is in the mempool or in a block.
Known(n, t) == t \in mempool[n] \cup Confirmed(n)

Admit(n, t) == mempool' = [mempool EXCEPT ![n] = @ \cup {t}]
-----------------------------------------------------------------------------
(* Messages                                                                *)

\* Messages that do not fit in the buffer are not sent, and no one is told.
Sent(queue, msgs) ==
    SubSeq(queue \o msgs, 1, Min({SendBuffer, Len(queue) + Len(msgs)}))

Broadcast(n, msg, except, links) ==
    [l \in Links |-> IF l[1] = n /\ l[2] # except THEN Sent(links[l], <<msg>>) ELSE links[l]]

Runs(n) == strayed[n] = 0

\* POST /transaction, of a payment that the node takes.
Submit(n, t) ==
    /\ n \in GivenTo[t]
    /\ Runs(n)
    /\ ~Known(n, t)
    /\ Affordable(n, t)
    /\ Admit(n, t)
    /\ link' = Broadcast(n, [type |-> "tx", txs |-> {t}], n, link)
    /\ UNCHANGED <<blocks, height, strayed, strikes, meetings>>

\* Faulty: payments are announced when they come in, and not again.
RebroadcastNever(n, p) == FALSE /\ UNCHANGED relayVars

\* Every two minutes.  (Bounds: the peers are served one by one, and each when
\* nothing is under way between the two.)
Rebroadcast(n, p) ==
    /\ <<n, p>> \in Links
    /\ Runs(n)
    /\ mempool[n] # {}
    /\ link[<<n, p>>] = <<>> /\ link[<<p, n>>] = <<>>
    /\ link' = [link EXCEPT ![<<n, p>>] = Sent(@, <<[type |-> "inv", txs |-> mempool[n]]>>)]
    /\ UNCHANGED <<blocks, height, strayed, mempool, strikes, meetings>>

\* n takes the next message of p from the connection.
Delivered(n, p, type) ==
    /\ <<p, n>> \in Links
    /\ Runs(n)
    /\ link[<<p, n>>] # <<>>
    /\ Head(link[<<p, n>>]).type = type

Rest(n, p) == [link EXCEPT ![<<p, n>>] = Tail(@)]

Reply(n, p, msg) == [Rest(n, p) EXCEPT ![<<n, p>>] = Sent(@, <<msg>>)]

\* What is confirmed is asked for as well, if it is not in the mempool.
HandleInv(n, p) ==
    /\ Delivered(n, p, "inv")
    /\ LET needed == Head(link[<<p, n>>]).txs \ mempool[n]
       IN link' = IF needed = {} THEN Rest(n, p)
                  ELSE Reply(n, p, [type |-> "getdata", txs |-> needed])
    /\ UNCHANGED <<blocks, height, strayed, mempool, strikes, meetings>>

\* One message for each payment that still is in the mempool.
HandleGetData(n, p) ==
    /\ Delivered(n, p, "getdata")
    /\ \E order \in SetToSeqs(Head(link[<<p, n>>]).txs \cap mempool[n]) :
           link' = [Rest(n, p) EXCEPT ![<<n, p>>] =
                       Sent(@, [i \in DOMAIN order |-> [type |-> "tx", txs |-> {order[i]}]])]
    /\ UNCHANGED <<blocks, height, strayed, mempool, strikes, meetings>>

\* Ten refused payments ban the peer.  (The reject message is only logged.)
HandleTx(n, p) ==
    /\ Delivered(n, p, "tx")
    /\ \E t \in Head(link[<<p, n>>]).txs :
        \/ Known(n, t) /\ link' = Rest(n, p) /\ UNCHANGED <<mempool, strikes>>
        \/ /\ ~Known(n, t) /\ Affordable(n, t)
           /\ Admit(n, t)
           /\ link' = Broadcast(n, [type |-> "inv", txs |-> {t}], p, Rest(n, p))
           /\ UNCHANGED strikes
        \/ /\ ~Known(n, t) /\ ~Affordable(n, t)
           /\ strikes' = [strikes EXCEPT ![<<n, p>>] = Min({Strikes, @ + 1})]
           /\ link' = Rest(n, p)
           /\ UNCHANGED mempool
    /\ UNCHANGED <<blocks, height, strayed, meetings>>

HandleMempool(n, p) ==
    /\ Delivered(n, p, "mempool")
    /\ link' = IF mempool[n] = {} THEN Rest(n, p)
               ELSE Reply(n, p, [type |-> "inv", txs |-> mempool[n]])
    /\ UNCHANGED <<blocks, height, strayed, mempool, strikes, meetings>>

\* Two peers connect again, which they do not after a ban; the score is the
\* connection's.  Each asks for the other's mempool.
Meet(n, p) ==
    /\ <<n, p>> \in Links
    /\ Runs(n) /\ Runs(p)
    /\ strikes[<<n, p>>] < Strikes /\ strikes[<<p, n>>] < Strikes
    /\ meetings < MaxMeetings
    /\ meetings' = meetings + 1
    /\ LET both == {<<n, p>>, <<p, n>>}
       IN /\ link' = [l \in Links |-> IF l \in both THEN <<[type |-> "mempool", txs |-> {}]>>
                                      ELSE link[l]]
          /\ strikes' = [l \in Links |-> IF l \in both THEN 0 ELSE strikes[l]]
    /\ UNCHANGED <<blocks, height, strayed, mempool>>
-----------------------------------------------------------------------------
(* Blocks                                                                  *)

\* The own miner confirms the whole mempool, whether or not a block of another
\* node has spent what it holds: such a block stays the node's own, and the
\* node is not followed any further.  (Bounds: only on the tip; no payment of a
\* block spends what another one of it pays.)
MineBlock(n) ==
    /\ Runs(n)
    /\ height[n] = Len(blocks)
    /\ IF \A t \in mempool[n] : Cost(mempool[n], t.from) <= Balance(n, t.from)
       THEN /\ Len(blocks) < MaxBlocks
            /\ blocks' = Append(blocks, mempool[n])
            /\ height' = [height EXCEPT ![n] = @ + 1]
            /\ mempool' = [mempool EXCEPT ![n] = {}]
            /\ UNCHANGED strayed
       ELSE /\ strayed' = [strayed EXCEPT ![n] = height[n] + 1]
            /\ UNCHANGED <<blocks, height, mempool>>
    /\ UNCHANGED <<link, strikes, meetings>>

\* AddBlock and clearMinedTransactions: payments that the block made impossible
\* stay in the mempool.
LearnBlock(n) ==
    /\ Runs(n)
    /\ height[n] < Len(blocks)
    /\ height' = [height EXCEPT ![n] = @ + 1]
    /\ mempool' = [mempool EXCEPT ![n] = @ \ blocks[height[n] + 1]]
    /\ UNCHANGED <<blocks, strayed, link, strikes, meetings>>

\* The block of a node that strayed connects, and is invalid: ten strikes at once.
RefuseBlock(n, p) ==
    /\ <<n, p>> \in Links
    /\ Runs(n)
    /\ strayed[p] = height[n] + 1
    /\ strikes[<<n, p>>] < Strikes
    /\ strikes' = [strikes EXCEPT ![<<n, p>>] = Strikes]
    /\ UNCHANGED <<blocks, height, strayed, mempool, link, meetings>>
-----------------------------------------------------------------------------
HandleMessage(n, p) ==
    HandleInv(n, p) \/ HandleGetData(n, p) \/ HandleTx(n, p) \/ HandleMempool(n, p)

RelayNext ==
    \E n \in Nodes :
        \/ \E t \in Payments : Submit(n, t)
        \/ MineBlock(n) \/ LearnBlock(n)
        \/ \E p \in Nodes : \/ HandleMessage(n, p) \/ Rebroadcast(n, p)
                           \/ Meet(n, p) \/ RefuseBlock(n, p)

\* Messages are read, blocks arrive, and the ticker ticks (whose guard is a bound
\* of the model, hence the strong form).
RelayFairness ==
    /\ \A l \in Links : /\ WF_relayVars(HandleMessage(l[1], l[2]))
                        /\ SF_relayVars(Rebroadcast(l[1], l[2]))
    /\ \A n \in Nodes : WF_relayVars(LearnBlock(n))

RelaySpec == RelayInit /\ [][RelayNext]_relayVars /\ RelayFairness
-----------------------------------------------------------------------------
(* Properties                                                              *)

\* A payment by the same sender that n has already.
HasRival(n, t) == \E u \in (mempool[n] \cup Confirmed(n)) \ {t} : u.from = t.from

\* An honest peer is penalised only by a node that knows another payment of the
\* same sender, that lags behind, or for a block that confirmed too much: what
\* is announced again and again, late, and from longer or shorter chains does
\* not count against who announces it.
PenaltyHasCause ==
    [][\A l \in Links :
           strikes'[l] > strikes[l] =>
               \/ strayed[l[2]] # 0
               \/ height[l[1]] < Len(blocks)
               \/ HasRival(l[1], CHOOSE t \in Head(link[<<l[2], l[1]>>]).txs : TRUE)]_relayVars

\* p has yet to hear of payment t, and has no other one by its sender.
Missing(p, t) == Runs(p) /\ ~Known(p, t) /\ ~HasRival(p, t)

\* Again and again every payment in a mempool has come to all peers of that node,
\* although messages are dropped, come too early and get lost with a connection;
\* except where the sender has another payment.
PaymentsSpread ==
    []<>(\A l \in Links : Runs(l[1]) => \A t \in mempool[l[1]] : ~Missing(l[2], t))
=============================================================================
