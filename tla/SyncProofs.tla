----------------------------- MODULE SyncProofs -----------------------------
(***************************************************************************)
(* Proofs about what nodes send each other. Sync, for any chains, limits   *)
(* and buffer size: the types, why a set syncInProgress flag has a cause,  *)
(* and that the work of a node's chain only grows. Relay, for any nodes,   *)
(* payments, funds and buffers: why a peer is penalised for what it passed *)
(* on. Updates: whatever fails, the program or a copy of it is there.      *)
(* Census: what a node knows of another never goes back.                   *)
(***************************************************************************)
EXTENDS Sync, Relay, Gossip, SumsProofs

NetOK(q) == /\ q \in [Pair -> Seq(Message)]
            /\ \A k \in Pair : Len(q[k]) <= BufferSize

LEMMA OtherNode ==
  ASSUME NEW n \in Pair
  PROVE  Other(n) \in Pair /\ Other(n) # n /\ \A k \in Pair : k = n \/ k = Other(n)
BY PairAssumption DEF Other

LEMMA MessageFields ==
  ASSUME NEW m \in Message
  PROVE  /\ m.type \in {"block", "blocks"} => m.tip \in Seq(Block)
         /\ m.type \in {"getheaders", "headers", "getblocks", "blocks"} => m.start \in Nat
         /\ m.type \in {"headers", "getblocks"} => m.stop \in Nat
BY DEF Message

LEMMA ReorgState ==
  ASSUME TypeOK, NEW n \in Pair, reader[n].at = "reorg"
  PROVE  reader[n].start \in Nat /\ reader[n].tip \in Seq(Block)
<1>1. reader[n] \in ReaderState
  BY DEF TypeOK
<1>2. reader[n] \in [at : {"reorg"}, start : Nat, tip : Seq(Block)]
  <2>1. reader[n] # Idle /\ reader[n] \notin [at : {"start", "more"}]
    BY DEF Idle
  <2>. QED
    BY <1>1, <2>1 DEF ReaderState
<1>. QED
  BY <1>2

LEMMA CountNat ==
  ASSUME NEW c \in Seq(Block)
  PROVE  Count(c) \in Nat /\ Len(c) \in Nat /\ Count(c) = Len(c) + 1
BY DEF Count

LEMMA PrefixType ==
  ASSUME NEW c \in Seq(Block), NEW i \in 0..Len(c)
  PROVE  Prefix(c, i) \in Seq(Block) /\ Len(Prefix(c, i)) = i
BY DEF Prefix

\* What the reader takes, and the queues without it.
LEMMA ConsumedType ==
  ASSUME TypeOK, NEW n \in Pair, NEW type, Receives(n, type)
  PROVE  /\ Head(net[n]) \in Message
         /\ Head(net[n]).type = type
         /\ NetOK(Consumed(n))
<1>1. net[n] \in Seq(Message) /\ net[n] # <<>> /\ Len(net[n]) <= BufferSize
  BY DEF TypeOK, Receives
<1>2. Head(net[n]) \in Message /\ Tail(net[n]) \in Seq(Message) /\ Len(Tail(net[n])) = Len(net[n]) - 1
  BY <1>1
<1>3. Len(Tail(net[n])) <= BufferSize
  BY <1>1, <1>2, LimitsAssumption
<1>. QED
  BY <1>2, <1>3 DEF Receives, NetOK, Consumed, TypeOK

LEMMA SendType ==
  ASSUME NEW n \in Pair, NEW msg \in Message, NEW q, NetOK(q),
         NEW ab \in [Pair -> BOOLEAN], Send(n, msg, q, ab)
  PROVE  NetOK(net') /\ abandoned' \in [Pair -> BOOLEAN]
<1>. DEFINE m == Other(n)
<1>1. m \in Pair /\ n \in Pair
  BY OtherNode
<1>2. q[m] \in Seq(Message)
  BY <1>1 DEF NetOK
<1>3. CASE Len(q[m]) < BufferSize
  <2>1. Append(q[m], msg) \in Seq(Message) /\ Len(Append(q[m], msg)) = Len(q[m]) + 1
    BY <1>2
  <2>2. Len(Append(q[m], msg)) <= BufferSize
    BY <1>2, <1>3, <2>1, LimitsAssumption
  <2>. QED
    BY <1>1, <1>3, <2>1, <2>2 DEF Send, NetOK
<1>4. CASE ~(Len(q[m]) < BufferSize)
  <2>1. net' = q /\ abandoned' = [ab EXCEPT ![Waiting(n, msg)] = @ \/ msg.type # "block"]
    BY <1>4 DEF Send
  <2>2. Waiting(n, msg) \in Pair
    BY <1>1 DEF Waiting
  <2>. QED
    BY <2>1, <2>2
<1>. QED
  BY <1>3, <1>4

LEMMA StartSyncType ==
  ASSUME TypeOK, NEW n \in Pair, StartSync(n)
  PROVE  syncing' \in [Pair -> BOOLEAN] /\ NetOK(net') /\ abandoned' \in [Pair -> BOOLEAN]
<1>1. NetOK(net) /\ abandoned \in [Pair -> BOOLEAN] /\ syncing \in [Pair -> BOOLEAN]
  BY DEF TypeOK, NetOK
<1>2. CASE syncing[n]
  BY <1>1, <1>2 DEF StartSync, NetOK
<1>3. CASE ~syncing[n]
  <2>1. [type |-> "getheaders", start |-> Count(chain[n])] \in Message
    BY CountNat DEF TypeOK, Message
  <2>2. NotAbandoned(n) \in [Pair -> BOOLEAN]
    BY <1>1 DEF NotAbandoned
  <2>3. Send(n, [type |-> "getheaders", start |-> Count(chain[n])], net, NotAbandoned(n))
    BY <1>3 DEF StartSync
  <2>. QED
    BY <1>1, <1>3, <2>1, <2>2, <2>3, SendType DEF StartSync
<1>. QED
  BY <1>2, <1>3
-----------------------------------------------------------------------------
(* Types                                                                   *)

LEMMA TypeInit == Init => TypeOK
<1>. SUFFICES ASSUME Init PROVE TypeOK
  OBVIOUS
<1>1. chain \in [Pair -> Seq(Block)]
  <2>1. InitChains \subseteq Seq(Block)
    BY ChainsAssumption DEF Block
  <2>. QED
    BY <2>1 DEF Init
<1>2. peerHeight \in [Pair -> Nat]
  BY <1>1, OtherNode, CountNat DEF Init
<1>3. net \in [Pair -> Seq(Message)] /\ \A n \in Pair : Len(net[n]) <= BufferSize
  <2>1. [type |-> "verack"] \in Message
    BY DEF Message
  <2>. QED
    BY <2>1, LimitsAssumption DEF Init
<1>. QED
  BY <1>1, <1>2, <1>3, LimitsAssumption DEF Init, TypeOK, ReaderState

LEMMA TypeNext == TypeOK /\ [Next]_vars => TypeOK'
<1>. SUFFICES ASSUME TypeOK, [Next]_vars PROVE TypeOK'
  OBVIOUS
<1>1. NetOK(net) /\ abandoned \in [Pair -> BOOLEAN] /\ syncing \in [Pair -> BOOLEAN]
  BY DEF TypeOK, NetOK
<1>2. \A n \in Pair : chain[n] \in Seq(Block) /\ Count(chain[n]) \in Nat /\ Len(chain[n]) \in Nat
  BY CountNat DEF TypeOK
<1>3. \A n \in Pair : NotAbandoned(n) \in [Pair -> BOOLEAN]
  BY <1>1 DEF NotAbandoned
<1>4. ASSUME NEW n \in Pair, HandleVersionAck(n) PROVE TypeOK'
  <2>1. NetOK(net')
    BY <1>4, ConsumedType DEF HandleVersionAck
  <2>. QED
    BY <1>4, <2>1 DEF HandleVersionAck, TypeOK, NetOK, ReaderState, Idle
<1>5. ASSUME NEW n \in Pair, HandleBlock(n) PROVE TypeOK'
  <2>1. Head(net[n]) \in Message /\ Head(net[n]).type = "block" /\ NetOK(net')
    BY <1>5, ConsumedType DEF HandleBlock
  <2>2. Head(net[n]).tip \in Seq(Block)
    BY <2>1, MessageFields
  <2>3. chain' \in [Pair -> Seq(Block)]
    BY <1>5, <2>2 DEF HandleBlock, TypeOK
  <2>4. reader' \in [Pair -> ReaderState]
    BY <1>5 DEF HandleBlock, TypeOK, ReaderState
  <2>. QED
    BY <1>5, <2>1, <2>3, <2>4 DEF HandleBlock, TypeOK, NetOK
<1>6. ASSUME NEW n \in Pair, HandleGetHeaders(n) PROVE TypeOK'
  <2>. DEFINE start == Head(net[n]).start
              stop == Least(Count(chain[n]), start + MaxHeaders)
  <2>1. /\ Head(net[n]) \in Message /\ Head(net[n]).type = "getheaders"
        /\ NetOK(Consumed(n))
    BY <1>6, ConsumedType DEF HandleGetHeaders
  <2>2. start \in Nat /\ stop \in Nat
    BY <1>2, <2>1, MessageFields, LimitsAssumption DEF Least
  <2>3. [type |-> "headers", start |-> start, stop |-> stop] \in Message
    BY <2>2 DEF Message
  <2>4. Send(n, [type |-> "headers", start |-> start, stop |-> stop], Consumed(n), abandoned)
    BY <1>6 DEF HandleGetHeaders
  <2>5. NetOK(net') /\ abandoned' \in [Pair -> BOOLEAN]
    BY <1>1, <2>1, <2>3, <2>4, SendType
  <2>. QED
    BY <1>6, <2>5 DEF HandleGetHeaders, TypeOK, NetOK
<1>7. ASSUME NEW n \in Pair, HandleGetBlocks(n) PROVE TypeOK'
  <2>. DEFINE start == Head(net[n]).start
              stop == Least(Least(Head(net[n]).stop, Count(chain[n])), start + MaxBatch)
              tip == IF start < Count(chain[n]) THEN Prefix(chain[n], stop - 1) ELSE <<>>
  <2>1. /\ Head(net[n]) \in Message /\ Head(net[n]).type = "getblocks"
        /\ NetOK(Consumed(n))
    BY <1>7, ConsumedType DEF HandleGetBlocks
  <2>2. start \in Nat /\ stop \in Nat /\ stop <= Count(chain[n])
    BY <1>2, <2>1, MessageFields, LimitsAssumption DEF Least
  <2>3. tip \in Seq(Block)
    BY <1>2, <2>2 DEF Prefix, Count
  <2>4. [type |-> "blocks", start |-> start, tip |-> tip] \in Message
    BY <2>2, <2>3 DEF Message
  <2>5. Send(n, [type |-> "blocks", start |-> start, tip |-> tip], Consumed(n), abandoned)
    BY <1>7 DEF HandleGetBlocks
  <2>6. NetOK(net') /\ abandoned' \in [Pair -> BOOLEAN]
    BY <1>1, <2>1, <2>4, <2>5, SendType
  <2>. QED
    BY <1>7, <2>6 DEF HandleGetBlocks, TypeOK, NetOK
<1>8. ASSUME NEW n \in Pair, HandleHeaders(n) PROVE TypeOK'
  <2>. DEFINE stop == Head(net[n]).stop
              ours == Count(chain[n])
              want == [type |-> "getblocks", start |-> ours, stop |-> Least(stop, ours + MaxBatch)]
  <2>1. /\ Head(net[n]) \in Message /\ Head(net[n]).type = "headers"
        /\ NetOK(Consumed(n))
    BY <1>8, ConsumedType DEF HandleHeaders
  <2>2. want \in Message
    <3>1. stop \in Nat
      BY <2>1, MessageFields
    <3>2. Least(stop, ours + MaxBatch) \in Nat
      BY <1>2, <3>1, LimitsAssumption DEF Least
    <3>. QED
      BY <1>2, <3>2 DEF Message
  <2>3. CASE net' = Consumed(n) /\ abandoned' = [abandoned EXCEPT ![n] = TRUE] /\ UNCHANGED syncing
    BY <1>1, <1>8, <2>1, <2>3 DEF HandleHeaders, TypeOK, NetOK
  <2>4. CASE net' = Consumed(n) /\ SyncEnded(n)
    BY <1>1, <1>8, <2>1, <2>4 DEF HandleHeaders, SyncEnded, TypeOK, NetOK
  <2>5. CASE Send(n, want, Consumed(n), abandoned) /\ UNCHANGED syncing
    <3>1. NetOK(net') /\ abandoned' \in [Pair -> BOOLEAN]
      BY <1>1, <2>1, <2>2, <2>5, SendType
    <3>. QED
      BY <1>8, <2>5, <3>1 DEF HandleHeaders, TypeOK, NetOK
  <2>. QED
    BY <1>8, <2>3, <2>4, <2>5 DEF HandleHeaders
<1>9. ASSUME NEW n \in Pair, HandleOldBlocks(n) PROVE TypeOK'
  <2>1. NetOK(net')
    BY <1>9, ConsumedType DEF HandleOldBlocks
  <2>. QED
    BY <1>1, <1>9, <2>1 DEF HandleOldBlocks, SyncEnded, TypeOK, NetOK
<1>10. ASSUME NEW n \in Pair, HandleBlocks(n) PROVE TypeOK'
  <2>. DEFINE m == Head(net[n])
  <2>1. m \in Message /\ m.type = "blocks" /\ NetOK(net')
    BY <1>10, ConsumedType DEF HandleBlocks
  <2>2. m.start \in Nat /\ m.tip \in Seq(Block)
    BY <2>1, MessageFields
  <2>3. chain' \in [Pair -> Seq(Block)]
    <3>1. \A last \in Len(chain[n])..(Len(m.tip) - 1) : Prefix(m.tip, last) \in Seq(Block)
      BY <1>2, <2>2, PrefixType
    <3>. QED
      BY <1>10, <2>2, <3>1 DEF HandleBlocks, TypeOK
  <2>4. reader' \in [Pair -> ReaderState]
    <3>1. [at |-> "reorg", start |-> m.start, tip |-> m.tip] \in ReaderState
      BY <2>2 DEF ReaderState
    <3>2. [at |-> "more"] \in ReaderState
      BY DEF ReaderState
    <3>. QED
      BY <1>10, <3>1, <3>2 DEF HandleBlocks, TypeOK
  <2>5. syncing' \in [Pair -> BOOLEAN] /\ abandoned' \in [Pair -> BOOLEAN]
    BY <1>1, <1>10 DEF HandleBlocks, SyncEnded
  <2>. QED
    BY <1>10, <2>1, <2>3, <2>4, <2>5 DEF HandleBlocks, TypeOK, NetOK
<1>11. ASSUME NEW n \in Pair, ReaderStarts(n) PROVE TypeOK'
  <2>1. syncing' \in [Pair -> BOOLEAN] /\ NetOK(net') /\ abandoned' \in [Pair -> BOOLEAN]
    BY <1>11, StartSyncType DEF ReaderStarts
  <2>. QED
    BY <1>11, <2>1 DEF ReaderStarts, TypeOK, NetOK, ReaderState
<1>12. ASSUME NEW n \in Pair, ReaderContinues(n) PROVE TypeOK'
  BY <1>12 DEF ReaderContinues, TypeOK, ReaderState
<1>13. ASSUME NEW n \in Pair, SpawnedStarts(n) PROVE TypeOK'
  <2>1. syncing' \in [Pair -> BOOLEAN] /\ NetOK(net') /\ abandoned' \in [Pair -> BOOLEAN]
    BY <1>13, StartSyncType DEF SpawnedStarts
  <2>2. spawned' \in [Pair -> Nat]
    BY <1>13 DEF SpawnedStarts, TypeOK
  <2>. QED
    BY <1>13, <2>1, <2>2 DEF SpawnedStarts, TypeOK, NetOK
<1>14. ASSUME NEW n \in Pair, AttemptReorg(n) PROVE TypeOK'
  <2>. DEFINE start == reader[n].start
              tip == reader[n].tip
              want == [type |-> "getblocks", start |-> SearchFrom(chain[n]),
                       stop |-> Count(chain[n]) + SearchAhead]
  <2>1. tip \in Seq(Block)
    BY <1>14, ReorgState DEF AttemptReorg
  <2>2. reader' \in [Pair -> ReaderState]
    BY <1>14 DEF AttemptReorg, TypeOK, ReaderState
  <2>3. CASE UNCHANGED <<chain, spawned>>
    <3>1. CASE SyncEnded(n) /\ UNCHANGED net
      BY <1>1, <1>14, <2>2, <2>3, <3>1 DEF AttemptReorg, SyncEnded, TypeOK, NetOK
    <3>2. CASE /\ syncing' = [syncing EXCEPT ![n] = FALSE]
               /\ Send(n, want, net, NotAbandoned(n))
      <4>1. want \in Message
        BY <1>2, LimitsAssumption DEF Message, SearchFrom, Most
      <4>2. NetOK(net') /\ abandoned' \in [Pair -> BOOLEAN]
        BY <1>1, <1>3, <3>2, <4>1, SendType
      <4>. QED
        BY <1>1, <1>14, <2>2, <2>3, <3>2, <4>2 DEF AttemptReorg, TypeOK, NetOK
    <3>. QED
      BY <1>14, <2>3, <3>1, <3>2 DEF AttemptReorg
  <2>4. CASE /\ chain' = [chain EXCEPT ![n] = tip]
             /\ spawned' = [spawned EXCEPT ![n] = IF MoreWanted(n, Count(tip)) THEN @ + 1 ELSE @]
             /\ SyncEnded(n)
             /\ UNCHANGED net
    <3>1. spawned' \in [Pair -> Nat]
      BY <2>4 DEF TypeOK
    <3>. QED
      BY <1>1, <1>14, <2>1, <2>2, <2>4, <3>1 DEF AttemptReorg, SyncEnded, TypeOK, NetOK
  <2>. QED
    BY <1>14, <2>3, <2>4 DEF AttemptReorg
<1>15. ASSUME NEW n \in Pair, NEW bits \in Bits, Mine(n, bits) PROVE TypeOK'
  <2>. DEFINE new == Append(chain[n], [miner |-> n, bits |-> bits])
  <2>1. new \in Seq(Block)
    <3>1. [miner |-> n, bits |-> bits] \in Block
      BY DEF Block
    <3>. HIDE DEF Block
    <3>. QED
      BY <1>2, <3>1
  <2>2. NetOK(net') /\ abandoned' \in [Pair -> BOOLEAN]
    <3>1. [type |-> "block", tip |-> new] \in Message
      BY <2>1 DEF Message
    <3>2. CASE Active(n)
      BY <1>1, <1>15, <3>1, <3>2, SendType DEF Mine
    <3>3. CASE ~Active(n)
      BY <1>1, <1>15, <3>3 DEF Mine, NetOK
    <3>. QED
      BY <3>2, <3>3
  <2>3. chain' \in [Pair -> Seq(Block)] /\ mined' \in 0..MaxMined
    BY <1>15, <2>1, LimitsAssumption DEF Mine, TypeOK
  <2>. QED
    BY <1>15, <2>2, <2>3 DEF Mine, TypeOK, NetOK
<1>16. CASE Reconnect
  <2>1. peerHeight' \in [Pair -> Nat]
    BY <1>2, <1>16, OtherNode DEF Reconnect, Connected
  <2>2. NetOK(net')
    <3>1. [type |-> "verack"] \in Message
      BY DEF Message
    <3>. QED
      BY <1>16, <3>1, LimitsAssumption DEF Reconnect, Connected, NetOK
  <2>. QED
    BY <1>16, <2>1, <2>2, LimitsAssumption DEF Reconnect, Connected, TypeOK, NetOK
<1>17. CASE UNCHANGED vars
  BY <1>17 DEF vars, TypeOK
<1>. QED
  BY <1>4, <1>5, <1>6, <1>7, <1>8, <1>9, <1>10, <1>11, <1>12, <1>13, <1>14, <1>15, <1>16, <1>17
     DEF Next, Receive

\* Every variable keeps its type, and no queue ever holds more than the buffer.
THEOREM TypeCorrect == Spec => []TypeOK
BY TypeInit, TypeNext, PTL DEF Spec
-----------------------------------------------------------------------------
(* The flag                                                                *)

Requests == {"getheaders", "getblocks"}

Answers == {"headers", "blocks"}

Has(s, types) == \E i \in DOMAIN s : s[i].type \in types

\* A message of a sync of k is on queues q.
OnWay(q, k) == Has(q[Other(k)], Requests) \/ Has(q[k], Answers)

\* A set flag has its cause in the given state of the other variables.
HasCause(k) == syncing[k] => abandoned[k] \/ reader[k].at = "reorg" \/ OnWay(net, k)

LEMMA CauseIsInvariant == FlagHasCause <=> \A k \in Pair : HasCause(k)
BY DEF FlagHasCause, InFlight, HasCause, OnWay, Has, Requests, Answers

LEMMA HasAppend ==
  ASSUME NEW s \in Seq(Message), NEW msg \in Message, NEW types
  PROVE  /\ Has(s, types) => Has(Append(s, msg), types)
         /\ msg.type \in types => Has(Append(s, msg), types)
<1>1. /\ Len(s) \in Nat /\ DOMAIN s = 1..Len(s)
      /\ DOMAIN Append(s, msg) = 1..(Len(s) + 1)
      /\ \A i \in 1..Len(s) : Append(s, msg)[i] = s[i]
      /\ Append(s, msg)[Len(s) + 1] = msg
  OBVIOUS
<1>. QED
  BY <1>1 DEF Has

LEMMA HasTail ==
  ASSUME NEW s \in Seq(Message), s # <<>>, NEW types, Head(s).type \notin types, Has(s, types)
  PROVE  Has(Tail(s), types)
<1>1. /\ Len(s) \in Nat \ {0} /\ DOMAIN s = 1..Len(s) /\ s[1] = Head(s)
      /\ DOMAIN Tail(s) = 1..(Len(s) - 1)
      /\ \A i \in 1..(Len(s) - 1) : Tail(s)[i] = s[i + 1]
  OBVIOUS
<1>2. PICK i \in 1..Len(s) : s[i].type \in types
  BY <1>1 DEF Has
<1>3. i # 1
  BY <1>1, <1>2
<1>4. i - 1 \in 1..(Len(s) - 1) /\ Tail(s)[i - 1] = s[i]
  BY <1>1, <1>3
<1>. QED
  BY <1>1, <1>2, <1>4 DEF Has

\* A message is a cause for the node whose sync it is part of, and a dropped
\* one leaves that node abandoned; no cause is lost by sending.
LEMMA SendCause ==
  ASSUME NEW n \in Pair, NEW msg \in Message, NEW q, NetOK(q),
         NEW ab \in [Pair -> BOOLEAN], Send(n, msg, q, ab)
  PROVE  /\ \A k \in Pair : OnWay(q, k) => OnWay(net', k)
         /\ \A k \in Pair : ab[k] => abandoned'[k]
         /\ msg.type \in Requests => OnWay(net', n) \/ abandoned'[n]
         /\ msg.type \in Answers => OnWay(net', Other(n)) \/ abandoned'[Other(n)]
<1>. DEFINE m == Other(n)
<1>1. m \in Pair /\ m # n /\ Other(m) = n /\ \A k \in Pair : k = n \/ k = m
  <2>1. m \in Pair /\ m # n /\ \A k \in Pair : k = n \/ k = m
    BY OtherNode
  <2>2. Other(m) \in Pair /\ Other(m) # m
    BY <2>1, OtherNode
  <2>. QED
    BY <2>1, <2>2
<1>2. q[m] \in Seq(Message) /\ q[n] \in Seq(Message)
  BY <1>1 DEF NetOK
<1>3. CASE Len(q[m]) < BufferSize
  <2>1. net'[m] = Append(q[m], msg) /\ net'[n] = q[n] /\ abandoned' = ab
    BY <1>1, <1>3 DEF Send, NetOK
  <2>2. \A types : /\ Has(q[m], types) => Has(net'[m], types)
                   /\ msg.type \in types => Has(net'[m], types)
    BY <1>2, <2>1, HasAppend
  <2>. QED
    BY <1>1, <2>1, <2>2 DEF OnWay
<1>4. CASE ~(Len(q[m]) < BufferSize)
  <2>1. net' = q /\ abandoned' = [ab EXCEPT ![Waiting(n, msg)] = @ \/ msg.type # "block"]
    BY <1>4 DEF Send
  <2>2. Waiting(n, msg) \in Pair
    BY <1>1 DEF Waiting
  <2>3. \A k \in Pair : ab[k] => abandoned'[k]
    BY <2>1, <2>2
  <2>4. ASSUME msg.type \in Requests \cup Answers PROVE abandoned'[Waiting(n, msg)]
    BY <2>1, <2>2, <2>4 DEF Requests, Answers
  <2>5. /\ msg.type \in Requests => Waiting(n, msg) = n
        /\ msg.type \in Answers => Waiting(n, msg) = m
    BY DEF Waiting, Requests, Answers
  <2>. QED
    BY <2>1, <2>3, <2>4, <2>5
<1>. QED
  BY <1>3, <1>4

\* What the reader takes off the stream is a cause for one node at most.
LEMMA ConsumedCause ==
  ASSUME TypeOK, NEW n \in Pair, NEW type, Receives(n, type), NEW k \in Pair, OnWay(net, k),
         k = n => type \notin Answers, k # n => type \notin Requests
  PROVE  OnWay(Consumed(n), k)
<1>. DEFINE m == Other(n)
<1>1. m \in Pair /\ m # n /\ Other(m) = n /\ (k = n \/ k = m)
  <2>1. m \in Pair /\ m # n /\ (k = n \/ k = m)
    BY OtherNode
  <2>2. Other(m) \in Pair /\ Other(m) # m /\ (n = m \/ n = Other(m))
    BY <2>1, OtherNode
  <2>. QED
    BY <2>1, <2>2
<1>2. net[n] \in Seq(Message) /\ net[n] # <<>> /\ Head(net[n]).type = type
  BY DEF TypeOK, Receives
<1>3. Consumed(n)[n] = Tail(net[n]) /\ Consumed(n)[m] = net[m]
  BY <1>1 DEF Consumed, TypeOK
<1>4. CASE k = n
  <2>1. Has(net[n], Answers) => Has(Tail(net[n]), Answers)
    BY <1>2, <1>4, HasTail
  <2>. QED
    BY <1>3, <1>4, <2>1 DEF OnWay
<1>5. CASE k = m
  <2>1. Has(net[n], Requests) => Has(Tail(net[n]), Requests)
    BY <1>1, <1>2, <1>5, HasTail
  <2>. QED
    BY <1>1, <1>3, <1>5, <2>1 DEF OnWay
<1>. QED
  BY <1>1, <1>4, <1>5

LEMMA StartSyncCause ==
  ASSUME TypeOK, NEW n \in Pair, StartSync(n), \A k \in Pair : HasCause(k)
  PROVE  \A k \in Pair : syncing'[k] => abandoned'[k] \/ reader[k].at = "reorg" \/ OnWay(net', k)
<1>1. CASE syncing[n]
  BY <1>1 DEF StartSync, HasCause, OnWay
<1>2. CASE ~syncing[n]
  <2>. DEFINE msg == [type |-> "getheaders", start |-> Count(chain[n])]
  <2>1. msg \in Message /\ msg.type \in Requests
    BY CountNat DEF TypeOK, Message, Requests
  <2>2. /\ NotAbandoned(n) \in [Pair -> BOOLEAN]
        /\ \A k \in Pair : k # n => NotAbandoned(n)[k] = abandoned[k]
    BY DEF NotAbandoned, TypeOK
  <2>3. Send(n, msg, net, NotAbandoned(n)) /\ NetOK(net)
    BY <1>2 DEF StartSync, TypeOK, NetOK
  <2>. HIDE DEF msg
  <2>4. /\ \A k \in Pair : OnWay(net, k) => OnWay(net', k)
        /\ \A k \in Pair : NotAbandoned(n)[k] => abandoned'[k]
        /\ OnWay(net', n) \/ abandoned'[n]
    BY <2>1, <2>2, <2>3, SendCause
  <2>5. \A k \in Pair : k # n => syncing'[k] = syncing[k]
    BY <1>2 DEF StartSync, TypeOK
  <2>. QED
    BY <2>2, <2>4, <2>5 DEF HasCause
<1>. QED
  BY <1>1, <1>2

LEMMA CauseInit == Init => FlagHasCause
<1>. SUFFICES ASSUME Init, NEW k \in Pair PROVE ~syncing[k]
  BY DEF FlagHasCause
<1>. QED
  BY DEF Init

LEMMA CauseNext == TypeOK /\ FlagHasCause /\ [Next]_vars => FlagHasCause'
<1>. SUFFICES ASSUME TypeOK, FlagHasCause, [Next]_vars, NEW k \in Pair PROVE HasCause(k)'
  BY CauseIsInvariant DEF FlagHasCause, InFlight, HasCause, OnWay, Has, Requests, Answers
<1>1. HasCause(k) /\ \A j \in Pair : HasCause(j)
  BY CauseIsInvariant
<1>2. NetOK(net) /\ abandoned \in [Pair -> BOOLEAN]
  BY DEF TypeOK, NetOK
<1>3. \A n \in Pair : k = n \/ k = Other(n)
  BY OtherNode
<1>4. ASSUME NEW n \in Pair, HandleVersionAck(n) PROVE HasCause(k)'
  <2>1. reader[n].at # "reorg"
    BY <1>4 DEF HandleVersionAck, Receives, Idle
  <2>2. OnWay(net, k) => OnWay(net', k)
    BY <1>4, ConsumedCause DEF HandleVersionAck, Requests, Answers
  <2>3. k # n => reader'[k] = reader[k]
    BY <1>4 DEF HandleVersionAck, TypeOK
  <2>. QED
    BY <1>1, <1>4, <2>1, <2>2, <2>3 DEF HandleVersionAck, HasCause
<1>5. ASSUME NEW n \in Pair, HandleBlock(n) PROVE HasCause(k)'
  <2>1. reader[n].at # "reorg"
    BY <1>5 DEF HandleBlock, Receives, Idle
  <2>2. OnWay(net, k) => OnWay(net', k)
    BY <1>5, ConsumedCause DEF HandleBlock, Requests, Answers
  <2>3. k # n => reader'[k] = reader[k]
    BY <1>5 DEF HandleBlock, TypeOK
  <2>. QED
    BY <1>1, <1>5, <2>1, <2>2, <2>3 DEF HandleBlock, HasCause
<1>6. ASSUME NEW n \in Pair, HandleGetHeaders(n) PROVE HasCause(k)'
  <2>. DEFINE start == Head(net[n]).start
              msg == [type |-> "headers", start |-> start,
                      stop |-> Least(Count(chain[n]), start + MaxHeaders)]
  <2>1. /\ Head(net[n]) \in Message /\ Head(net[n]).type = "getheaders"
        /\ NetOK(Consumed(n))
    BY <1>6, ConsumedType DEF HandleGetHeaders
  <2>2. msg \in Message /\ msg.type \in Answers
    <3>1. start \in Nat /\ Count(chain[n]) \in Nat
      BY <2>1, MessageFields, CountNat DEF TypeOK
    <3>2. Least(Count(chain[n]), start + MaxHeaders) \in Nat
      BY <3>1, LimitsAssumption DEF Least
    <3>. QED
      BY <3>1, <3>2 DEF Message, Answers
  <2>3. Send(n, msg, Consumed(n), abandoned)
    BY <1>6 DEF HandleGetHeaders
  <2>. HIDE DEF msg
  <2>4. /\ OnWay(Consumed(n), k) => OnWay(net', k)
        /\ abandoned[k] => abandoned'[k]
        /\ OnWay(net', Other(n)) \/ abandoned'[Other(n)]
    BY <1>2, <2>1, <2>2, <2>3, SendCause
  <2>5. k = n => (OnWay(net, k) => OnWay(Consumed(n), k))
    BY <1>6, ConsumedCause DEF HandleGetHeaders, Requests, Answers
  <2>. QED
    BY <1>1, <1>3, <1>6, <2>4, <2>5 DEF HandleGetHeaders, HasCause
<1>7. ASSUME NEW n \in Pair, HandleGetBlocks(n) PROVE HasCause(k)'
  <2>. DEFINE start == Head(net[n]).start
              stop == Least(Least(Head(net[n]).stop, Count(chain[n])), start + MaxBatch)
              tip == IF start < Count(chain[n]) THEN Prefix(chain[n], stop - 1) ELSE <<>>
              msg == [type |-> "blocks", start |-> start, tip |-> tip]
  <2>1. /\ Head(net[n]) \in Message /\ Head(net[n]).type = "getblocks"
        /\ NetOK(Consumed(n))
    BY <1>7, ConsumedType DEF HandleGetBlocks
  <2>2. msg \in Message /\ msg.type \in Answers
    <3>1. chain[n] \in Seq(Block) /\ Count(chain[n]) \in Nat
      BY CountNat DEF TypeOK
    <3>2. start \in Nat /\ stop \in Nat /\ stop <= Count(chain[n])
      BY <2>1, <3>1, MessageFields, LimitsAssumption DEF Least
    <3>3. tip \in Seq(Block)
      BY <3>1, <3>2 DEF Prefix, Count
    <3>. QED
      BY <3>2, <3>3 DEF Message, Answers
  <2>3. Send(n, msg, Consumed(n), abandoned)
    BY <1>7 DEF HandleGetBlocks
  <2>. HIDE DEF msg
  <2>4. /\ OnWay(Consumed(n), k) => OnWay(net', k)
        /\ abandoned[k] => abandoned'[k]
        /\ OnWay(net', Other(n)) \/ abandoned'[Other(n)]
    BY <1>2, <2>1, <2>2, <2>3, SendCause
  <2>5. k = n => (OnWay(net, k) => OnWay(Consumed(n), k))
    BY <1>7, ConsumedCause DEF HandleGetBlocks, Requests, Answers
  <2>. QED
    BY <1>1, <1>3, <1>7, <2>4, <2>5 DEF HandleGetBlocks, HasCause
<1>8. ASSUME NEW n \in Pair, HandleHeaders(n) PROVE HasCause(k)'
  <2>. DEFINE stop == Head(net[n]).stop
              ours == Count(chain[n])
              msg == [type |-> "getblocks", start |-> ours, stop |-> Least(stop, ours + MaxBatch)]
  <2>1. /\ Head(net[n]) \in Message /\ Head(net[n]).type = "headers"
        /\ NetOK(Consumed(n))
    BY <1>8, ConsumedType DEF HandleHeaders
  <2>2. k # n => (OnWay(net, k) => OnWay(Consumed(n), k))
    BY <1>8, ConsumedCause DEF HandleHeaders, Requests, Answers
  <2>3. CASE net' = Consumed(n) /\ abandoned' = [abandoned EXCEPT ![n] = TRUE] /\ UNCHANGED syncing
    <3>1. abandoned'[n] /\ (abandoned[k] => abandoned'[k])
      BY <1>2, <2>3
    <3>. QED
      BY <1>1, <1>8, <2>2, <2>3, <3>1 DEF HandleHeaders, HasCause
  <2>4. CASE net' = Consumed(n) /\ SyncEnded(n)
    <3>1. ~syncing'[n]
      BY <2>4 DEF SyncEnded, TypeOK
    <3>2. k # n => syncing'[k] = syncing[k] /\ abandoned'[k] = abandoned[k]
      BY <2>4 DEF SyncEnded, TypeOK
    <3>. QED
      BY <1>1, <1>8, <2>2, <2>4, <3>1, <3>2 DEF HandleHeaders, HasCause
  <2>5. CASE Send(n, msg, Consumed(n), abandoned) /\ UNCHANGED syncing
    <3>1. msg \in Message /\ msg.type \in Requests
      <4>1. stop \in Nat /\ ours \in Nat
        BY <2>1, MessageFields, CountNat DEF TypeOK
      <4>2. Least(stop, ours + MaxBatch) \in Nat
        BY <4>1, LimitsAssumption DEF Least
      <4>. QED
        BY <4>1, <4>2 DEF Message, Requests
    <3>. HIDE DEF msg
    <3>2. /\ OnWay(Consumed(n), k) => OnWay(net', k)
          /\ abandoned[k] => abandoned'[k]
          /\ OnWay(net', n) \/ abandoned'[n]
      BY <1>2, <2>1, <2>5, <3>1, SendCause
    <3>. QED
      BY <1>1, <1>8, <2>2, <2>5, <3>2 DEF HandleHeaders, HasCause
  <2>. QED
    BY <1>8, <2>3, <2>4, <2>5 DEF HandleHeaders
<1>9. ASSUME NEW n \in Pair, HandleOldBlocks(n) PROVE HasCause(k)'
  <2>1. k # n => (OnWay(net, k) => OnWay(net', k))
    BY <1>9, ConsumedCause DEF HandleOldBlocks, Requests, Answers
  <2>2. ~syncing'[n] /\ (k # n => syncing'[k] = syncing[k] /\ abandoned'[k] = abandoned[k])
    BY <1>9 DEF HandleOldBlocks, SyncEnded, TypeOK
  <2>. QED
    BY <1>1, <1>9, <2>1, <2>2 DEF HandleOldBlocks, HasCause
<1>10. ASSUME NEW n \in Pair, HandleBlocks(n) PROVE HasCause(k)'
  <2>. DEFINE m == Head(net[n])
  <2>1. k # n => (OnWay(net, k) => OnWay(net', k))
    BY <1>10, ConsumedCause DEF HandleBlocks, Requests, Answers
  <2>2. k # n => reader'[k] = reader[k]
    BY <1>10 DEF HandleBlocks, TypeOK
  <2>3. CASE SyncEnded(n)
    <3>1. ~syncing'[n] /\ (k # n => syncing'[k] = syncing[k] /\ abandoned'[k] = abandoned[k])
      BY <2>3 DEF SyncEnded, TypeOK
    <3>. QED
      BY <1>1, <2>1, <2>2, <3>1 DEF HasCause
  <2>4. CASE /\ reader' = [reader EXCEPT ![n] = [at |-> "reorg", start |-> m.start, tip |-> m.tip]]
             /\ UNCHANGED <<syncing, abandoned>>
    <3>1. reader'[n].at = "reorg"
      BY <2>4 DEF TypeOK
    <3>. QED
      BY <1>1, <2>1, <2>2, <2>4, <3>1 DEF HasCause
  <2>. QED
    BY <1>10, <2>3, <2>4 DEF HandleBlocks
<1>11. ASSUME NEW n \in Pair, ReaderStarts(n) PROVE HasCause(k)'
  <2>1. syncing'[k] => abandoned'[k] \/ reader[k].at = "reorg" \/ OnWay(net', k)
    BY <1>1, <1>11, StartSyncCause DEF ReaderStarts
  <2>2. k # n => reader'[k] = reader[k]
    BY <1>11 DEF ReaderStarts, TypeOK
  <2>. QED
    BY <1>11, <2>1, <2>2 DEF ReaderStarts, HasCause
<1>12. ASSUME NEW n \in Pair, ReaderContinues(n) PROVE HasCause(k)'
  <2>1. k # n => reader'[k] = reader[k]
    BY <1>12 DEF ReaderContinues, TypeOK
  <2>. QED
    BY <1>1, <1>12, <2>1 DEF ReaderContinues, HasCause
<1>13. ASSUME NEW n \in Pair, SpawnedStarts(n) PROVE HasCause(k)'
  BY <1>1, <1>13, StartSyncCause DEF SpawnedStarts, HasCause
<1>14. ASSUME NEW n \in Pair, AttemptReorg(n) PROVE HasCause(k)'
  <2>. DEFINE msg == [type |-> "getblocks", start |-> SearchFrom(chain[n]),
                      stop |-> Count(chain[n]) + SearchAhead]
  <2>1. ~syncing'[n] /\ (k # n => syncing'[k] = syncing[k] /\ reader'[k] = reader[k])
    BY <1>14 DEF AttemptReorg, SyncEnded, TypeOK
  <2>2. k # n => (abandoned[k] => abandoned'[k]) /\ (OnWay(net, k) => OnWay(net', k))
    <3>1. CASE SyncEnded(n) /\ UNCHANGED net
      BY <3>1 DEF SyncEnded, TypeOK
    <3>2. CASE Send(n, msg, net, NotAbandoned(n))
      <4>1. msg \in Message
        <5>1. Count(chain[n]) \in Nat
          BY CountNat DEF TypeOK
        <5>. QED
          BY <5>1, LimitsAssumption DEF Message, SearchFrom, Most
      <4>2. NotAbandoned(n) \in [Pair -> BOOLEAN] /\ (k # n => NotAbandoned(n)[k] = abandoned[k])
        BY <1>2 DEF NotAbandoned
      <4>. HIDE DEF msg
      <4>. QED
        BY <1>2, <3>2, <4>1, <4>2, SendCause
    <3>. QED
      BY <1>14, <3>1, <3>2 DEF AttemptReorg
  <2>. QED
    BY <1>1, <2>1, <2>2 DEF HasCause
<1>15. ASSUME NEW n \in Pair, NEW bits \in Bits, Mine(n, bits) PROVE HasCause(k)'
  <2>. DEFINE new == Append(chain[n], [miner |-> n, bits |-> bits])
              msg == [type |-> "block", tip |-> new]
  <2>1. (abandoned[k] => abandoned'[k]) /\ (OnWay(net, k) => OnWay(net', k))
    <3>1. CASE UNCHANGED <<net, abandoned>>
      BY <3>1 DEF OnWay
    <3>2. CASE Send(n, msg, net, abandoned)
      <4>1. msg \in Message
        <5>1. [miner |-> n, bits |-> bits] \in Block /\ chain[n] \in Seq(Block)
          BY DEF Block, TypeOK
        <5>2. new \in Seq(Block)
          BY <5>1
        <5>. QED
          BY <5>2 DEF Message
      <4>. HIDE DEF msg
      <4>. QED
        BY <1>2, <3>2, <4>1, SendCause
    <3>. QED
      BY <1>15, <3>1, <3>2 DEF Mine
  <2>. QED
    BY <1>1, <1>15, <2>1 DEF Mine, HasCause
<1>16. CASE Reconnect
  BY <1>16 DEF Reconnect, Connected, HasCause
<1>17. CASE UNCHANGED vars
  BY <1>1, <1>17 DEF vars, HasCause, OnWay
<1>. QED
  BY <1>4, <1>5, <1>6, <1>7, <1>8, <1>9, <1>10, <1>11, <1>12, <1>13, <1>14, <1>15, <1>16, <1>17
     DEF Next, Receive

\* A set flag always has a sync behind it, for any buffer and batch size: the
\* invariant is inductive as it stands, since every handler that takes a sync's
\* message off the queue sends the next one, clears the flag or abandons the
\* sync, and the one in between keeps the batch in the reader.
THEOREM FlagHasCauseCorrect == Spec => []FlagHasCause
BY TypeInit, TypeNext, CauseInit, CauseNext, PTL DEF Spec
-----------------------------------------------------------------------------
(* Work                                                                    *)

Works(c) == [i \in DOMAIN c |-> Pow2(c[i].bits)]

LEMMA WorksType ==
  ASSUME NEW c \in Seq(Block)
  PROVE  /\ Works(c) \in Seq(Nat) /\ Works(c) \in Seq(Int) /\ Len(Works(c)) = Len(c)
         /\ Work(c) = SumSeq(Works(c)) /\ Work(c) \in Nat
<1>1. ASSUME NEW b \in Block PROVE Pow2(b.bits) \in Nat
  <2>1. b.bits \in Nat
    BY ChainsAssumption DEF Block
  <2>. QED
    BY <2>1, Pow2Positive
<1>2. /\ Works(c) \in Seq(Nat) /\ Len(Works(c)) = Len(c)
      /\ Works(c) \in Seq(Int)
  BY <1>1 DEF Works
<1>3. Work(c) = SumSeq(Works(c))
  BY DEF Work, Works
<1>. QED
  BY <1>2, <1>3, SumNat

LEMMA WorkConcat ==
  ASSUME NEW c \in Seq(Block), NEW s \in Seq(Block)
  PROVE  Work(c \o s) = Work(c) + Work(s)
<1>1. Works(c \o s) = Works(c) \o Works(s)
  <2>1. c \o s \in Seq(Block) /\ Len(c \o s) = Len(c) + Len(s)
    BY ConcatProperties
  <2>2. /\ Works(c) \in Seq(Int) /\ Len(Works(c)) = Len(c)
        /\ Works(s) \in Seq(Int) /\ Len(Works(s)) = Len(s)
        /\ Works(c \o s) \in Seq(Int) /\ Len(Works(c \o s)) = Len(c \o s)
    BY <2>1, WorksType
  <2>3. /\ Works(c) \o Works(s) \in Seq(Int)
        /\ Len(Works(c) \o Works(s)) = Len(c) + Len(s)
    BY <2>2, ConcatProperties
  <2>5. \A i \in 1..(Len(Works(c)) + Len(Works(s))) :
           (Works(c) \o Works(s))[i] =
               IF i <= Len(Works(c)) THEN Works(c)[i] ELSE Works(s)[i - Len(Works(c))]
    BY <2>2, ConcatProperties
  <2>6. \A i \in 1..(Len(c) + Len(s)) :
           (Works(c) \o Works(s))[i] =
               IF i <= Len(c) THEN Works(c)[i] ELSE Works(s)[i - Len(c)]
    BY <2>2, <2>5
  <2>4. ASSUME NEW i \in 1..(Len(c) + Len(s))
        PROVE  Works(c \o s)[i] = (Works(c) \o Works(s))[i]
    <3>1. Works(c \o s)[i] = Pow2((c \o s)[i].bits)
      BY <2>1, LenProperties DEF Works
    <3>2. Len(c) \in Nat /\ Len(s) \in Nat /\ DOMAIN c = 1..Len(c) /\ DOMAIN s = 1..Len(s)
      BY LenProperties
    <3>3. CASE i <= Len(c)
      <4>1. (c \o s)[i] = c[i] /\ i \in DOMAIN c
        BY <3>3, ConcatProperties, LenProperties
      <4>2. (Works(c) \o Works(s))[i] = Works(c)[i]
        BY <2>6, <3>3
      <4>. QED
        BY <3>1, <4>1, <4>2 DEF Works
    <3>4. CASE i > Len(c)
      <4>1. (c \o s)[i] = s[i - Len(c)] /\ i - Len(c) \in DOMAIN s
        BY <3>4, ConcatProperties, LenProperties
      <4>2. (Works(c) \o Works(s))[i] = Works(s)[i - Len(c)]
        <5>1. ~(i <= Len(c))
          BY <3>2, <3>4
        <5>. QED
          BY <2>6, <5>1
      <4>. QED
        BY <3>1, <4>1, <4>2 DEF Works
    <3>5. i <= Len(c) \/ i > Len(c)
      BY <3>2
    <3>. QED
      BY <3>3, <3>4, <3>5
  <2>. QED
    BY <2>1, <2>2, <2>3, <2>4, SeqEqual
<1>2. c \o s \in Seq(Block)
  BY ConcatProperties
<1>3. Works(c) \in Seq(Int) /\ Works(s) \in Seq(Int)
  BY WorksType
<1>. QED
  BY <1>1, <1>2, <1>3, WorksType, SumConcat

LEMMA WorkOne ==
  ASSUME NEW b \in Block
  PROVE  Work(<<b>>) > 0
<1>. DEFINE p == Pow2(b.bits)
<1>1. p \in Nat /\ p > 0
  <2>1. b.bits \in Nat
    BY ChainsAssumption DEF Block
  <2>. QED
    BY <2>1, Pow2Positive
<1>2. <<b>> \in Seq(Block) /\ Works(<<b>>) = <<p>>
  BY DEF Works
<1>. HIDE DEF p
<1>3. SumSeq(<<p>>) = p
  <2>1. <<>> \in Seq(Int) /\ p \in Int /\ Append(<<>>, p) = <<p>>
    BY <1>1
  <2>. QED
    <3>1. SumSeq(Append(<<>>, p)) = SumSeq(<<>>) + p
      BY <2>1, SumAppend
    <3>2. SumSeq(<<>>) = 0
      BY SumEmpty
    <3>. QED
      BY <1>1, <2>1, <3>1, <3>2
<1>. QED
  BY <1>1, <1>2, <1>3, WorksType

\* Any blocks on top add work: a difficulty is the exponent of a power of two.
LEMMA WorkAbove ==
  ASSUME NEW c \in Seq(Block), NEW t \in Seq(Block),
         Len(t) > Len(c), Prefix(t, Len(c)) = c
  PROVE  Work(t) > Work(c)
<1>. DEFINE k == Len(c)
            one == <<t[k + 1]>>
            rest == SubSeq(t, k + 2, Len(t))
<1>1. k \in Nat /\ Len(t) \in Nat /\ Len(t) > k
  BY LenProperties
<1>2. t[k + 1] \in Block
  BY <1>1, ElementOfSeq
<1>3. one \in Seq(Block) /\ rest \in Seq(Block) /\ Work(one) > 0
  <2>1. rest \in Seq(Block)
    BY <1>1, SubSeqProperties
  <2>. QED
    BY <1>2, <2>1, WorkOne
<1>4. t = (c \o one) \o rest
  <2>1. SubSeq(t, 1, k) = c
    BY DEF Prefix
  <2>2. SubSeq(t, k + 1, k + 1) = one
    <3>1. /\ SubSeq(t, k + 1, k + 1) \in Seq(Block)
          /\ Len(SubSeq(t, k + 1, k + 1)) = 1
          /\ SubSeq(t, k + 1, k + 1)[1] = t[k + 1]
      BY <1>1
    <3>2. one \in Seq(Block) /\ Len(one) = 1 /\ one[1] = t[k + 1]
      BY <1>3
    <3>3. \A i \in 1..1 : SubSeq(t, k + 1, k + 1)[i] = one[i]
      BY <3>1, <3>2
    <3>. HIDE DEF one
    <3>. QED
      BY <3>1, <3>2, <3>3, SeqEqual
  <2>3. c \o one = SubSeq(t, 1, k + 1)
    BY <1>1, <2>1, <2>2, ConcatAdjacentSubSeq
  <2>4. SubSeq(t, 1, k + 1) \o rest = SubSeq(t, 1, Len(t))
    <3>1. /\ 1 \in 1..(Len(t) + 1) /\ k + 1 \in (1 - 1)..Len(t)
          /\ Len(t) \in (k + 1)..Len(t) /\ (k + 1) + 1 = k + 2
      BY <1>1
    <3>. HIDE DEF k
    <3>2. SubSeq(t, 1, k + 1) \o SubSeq(t, (k + 1) + 1, Len(t)) = SubSeq(t, 1, Len(t))
      BY <3>1, ConcatAdjacentSubSeq
    <3>. QED
      BY <3>1, <3>2
  <2>. QED
    BY <2>3, <2>4, SubSeqFull
<1>. HIDE DEF k, one, rest
<1>5. c \o one \in Seq(Block)
  BY <1>3, ConcatProperties
<1>6. Work(t) = Work(c) + Work(one) + Work(rest)
  <2>1. Work(c \o one) = Work(c) + Work(one)
    BY <1>3, WorkConcat
  <2>2. Work((c \o one) \o rest) = Work(c \o one) + Work(rest)
    BY <1>3, <1>5, WorkConcat
  <2>. QED
    BY <1>4, <2>1, <2>2
<1>7. Work(c) \in Nat /\ Work(one) \in Nat /\ Work(rest) \in Nat
  BY <1>3, WorksType
<1>. QED
  BY <1>3, <1>6, <1>7

\* Of two chains that agree up to a fork, the one heavier above it is heavier.
LEMMA WorkHeavier ==
  ASSUME NEW c \in Seq(Block), NEW tip \in Seq(Block),
         NEW fork \in Nat, fork <= Len(c), fork <= Len(tip),
         Prefix(tip, fork) = Prefix(c, fork), Heavier(c, tip, fork)
  PROVE  Work(tip) > Work(c)
<1>1. ASSUME NEW d \in Seq(Block), fork <= Len(d)
      PROVE  /\ SubSeq(d, fork + 1, Len(d)) \in Seq(Block) /\ Prefix(d, fork) \in Seq(Block)
             /\ Work(d) = Work(Prefix(d, fork)) + Work(SubSeq(d, fork + 1, Len(d)))
  <2>1. Len(d) \in Nat
    BY LenProperties
  <2>2. SubSeq(d, fork + 1, Len(d)) \in Seq(Block) /\ SubSeq(d, 1, fork) \in Seq(Block)
    BY <1>1, <2>1, SubSeqProperties
  <2>3. SubSeq(d, 1, fork) \o SubSeq(d, fork + 1, Len(d)) = d
    <3>1. 1 \in 1..(Len(d) + 1) /\ fork \in (1 - 1)..Len(d) /\ Len(d) \in fork..Len(d)
      BY <1>1, <2>1
    <3>2. SubSeq(d, 1, fork) \o SubSeq(d, fork + 1, Len(d)) = SubSeq(d, 1, Len(d))
      BY <3>1, ConcatAdjacentSubSeq
    <3>. QED
      BY <3>2, SubSeqFull
  <2>. QED
    BY <2>2, <2>3, WorkConcat DEF Prefix
<1>2. Work(Prefix(c, fork)) \in Nat
  BY <1>1, WorksType
<1>3. ASSUME NEW d \in Seq(Block), fork <= Len(d)
      PROVE  Work(SubSeq(d, fork + 1, Len(d))) \in Nat
  BY <1>1, <1>3, WorksType
<1>. QED
  BY <1>1, <1>2, <1>3 DEF Heavier

LEMMA FirstAncestor ==
  ASSUME NEW c \in Seq(Block), NEW tip \in Seq(Block), NEW start \in Nat,
         Ancestors(c, start, tip) # {}
  PROVE  LET fork == Min(Ancestors(c, start, tip))
         IN  /\ fork \in Nat /\ fork <= Len(c) /\ fork <= Len(tip)
             /\ Prefix(tip, fork) = Prefix(c, fork)
<1>. DEFINE A == Ancestors(c, start, tip)
<1>1. /\ A \in SUBSET Nat
      /\ \A i \in A : i <= Len(c) /\ i <= Len(tip) /\ Prefix(tip, i) = Prefix(c, i)
  BY LenProperties DEF Ancestors, Most, Count
<1>2. Min(A) \in A
  <2>1. \E i \in A : \A j \in A : i <= j
    BY <1>1, LeastElement
  <2>. QED
    BY <2>1 DEF Min
<1>. QED
  BY <1>1, <1>2

\* A node's chain is only ever replaced by one with more work, for any batch,
\* limits and interleaving with its own miner.
THEOREM WorkGrowsCorrect == Spec => WorkGrows
<1>. DEFINE Step == \A n \in Pair : chain'[n] # chain[n] => Work(chain'[n]) > Work(chain[n])
<1>1. ASSUME TypeOK, [Next]_vars PROVE Step
  <2>. SUFFICES ASSUME NEW k \in Pair, chain'[k] # chain[k] PROVE Work(chain'[k]) > Work(chain[k])
    OBVIOUS
  <2>1. chain \in [Pair -> Seq(Block)] /\ chain[k] \in Seq(Block) /\ Len(chain[k]) \in Nat
    BY <1>1 DEF TypeOK
  <2>2. ASSUME NEW n \in Pair, HandleBlock(n) PROVE Work(chain'[k]) > Work(chain[k])
    <3>. DEFINE new == Head(net[n]).tip
    <3>1. new \in Seq(Block)
      BY <1>1, <2>2, ConsumedType, MessageFields DEF HandleBlock
    <3>2. k = n /\ chain'[k] = new /\ Len(new) = Count(chain[k]) /\ Prefix(new, Len(chain[k])) = chain[k]
      BY <2>1, <2>2 DEF HandleBlock
    <3>3. Len(new) > Len(chain[k])
      BY <2>1, <3>2 DEF Count
    <3>. QED
      BY <2>1, <3>1, <3>2, <3>3, WorkAbove
  <2>3. ASSUME NEW n \in Pair, HandleBlocks(n) PROVE Work(chain'[k]) > Work(chain[k])
    <3>. DEFINE m == Head(net[n])
    <3>1. m.tip \in Seq(Block) /\ Len(m.tip) \in Nat
      BY <1>1, <2>3, ConsumedType, MessageFields DEF HandleBlocks
    <3>2. k = n /\ Prefix(m.tip, Len(chain[k])) = chain[k] /\ Len(m.tip) > Len(chain[k])
      BY <2>1, <2>3 DEF HandleBlocks
    <3>3. CASE chain' = [chain EXCEPT ![n] = m.tip]
      BY <2>1, <3>1, <3>2, <3>3, WorkAbove
    <3>4. ASSUME NEW last \in Len(chain[n])..(Len(m.tip) - 1),
                 chain' = [chain EXCEPT ![n] = Prefix(m.tip, last)]
          PROVE  Work(chain'[k]) > Work(chain[k])
      <4>1. chain'[k] = Prefix(m.tip, last) /\ last # Len(chain[k])
        BY <2>1, <3>2, <3>4
      <4>2. last \in 0..Len(m.tip) /\ last > Len(chain[k])
        BY <2>1, <3>1, <3>2, <4>1
      <4>3. Prefix(m.tip, last) \in Seq(Block) /\ Len(Prefix(m.tip, last)) = last
        BY <3>1, <4>2, PrefixType
      <4>4. Prefix(Prefix(m.tip, last), Len(chain[k])) = chain[k]
        <5>1. Prefix(Prefix(m.tip, last), Len(chain[k])) = Prefix(m.tip, Len(chain[k]))
          BY <2>1, <3>1, <4>2 DEF Prefix
        <5>. QED
          BY <3>2, <5>1
      <4>. QED
        BY <2>1, <4>1, <4>2, <4>3, <4>4, WorkAbove
    <3>. QED
      BY <2>1, <2>3, <3>3, <3>4 DEF HandleBlocks
  <2>4. ASSUME NEW n \in Pair, AttemptReorg(n) PROVE Work(chain'[k]) > Work(chain[k])
    <3>. DEFINE start == reader[n].start
                tip == reader[n].tip
                ancestors == Ancestors(chain[n], start, tip)
    <3>1. start \in Nat /\ tip \in Seq(Block)
      BY <1>1, <2>4, ReorgState DEF AttemptReorg
    <3>2. /\ k = n /\ chain'[k] = tip /\ ancestors # {}
          /\ Heavier(chain[k], tip, Min(ancestors))
      BY <2>1, <2>4 DEF AttemptReorg
    <3>. HIDE DEF start, tip
    <3>3. /\ Min(ancestors) \in Nat /\ Min(ancestors) <= Len(chain[k]) /\ Min(ancestors) <= Len(tip)
          /\ Prefix(tip, Min(ancestors)) = Prefix(chain[k], Min(ancestors))
      BY <2>1, <3>1, <3>2, FirstAncestor
    <3>. HIDE DEF ancestors
    <3>. QED
      BY <2>1, <3>1, <3>2, <3>3, WorkHeavier
  <2>5. ASSUME NEW n \in Pair, NEW bits \in Bits, Mine(n, bits) PROVE Work(chain'[k]) > Work(chain[k])
    <3>. DEFINE b == [miner |-> n, bits |-> bits]
                new == Append(chain[k], b)
    <3>1. k = n /\ chain'[k] = new
      BY <2>1, <2>5 DEF Mine
    <3>2. b \in Block
      BY DEF Block
    <3>. HIDE DEF b
    <3>3. new \in Seq(Block) /\ Len(new) > Len(chain[k]) /\ Prefix(new, Len(chain[k])) = chain[k]
      BY <2>1, <3>2 DEF Prefix
    <3>. QED
      BY <2>1, <3>1, <3>3, WorkAbove
  <2>. QED
    BY <1>1, <2>2, <2>3, <2>4, <2>5
       DEF Next, Receive, HandleVersionAck, HandleGetHeaders, HandleGetBlocks, HandleHeaders,
           HandleOldBlocks, ReaderStarts, ReaderContinues, SpawnedStarts, Reconnect, vars
<1>2. Spec => []TypeOK
  BY TypeCorrect
<1>. QED
  BY <1>1, <1>2, PTL DEF Spec, WorkGrows
-----------------------------------------------------------------------------
(* Payments on their way between nodes                                     *)

AllConfirmed == UNION {blocks[i] : i \in 1..Len(blocks)}

\* What a sender can pay for who has paid nothing else, when all blocks are known.
Solvent ==
    {t \in Payments : t.amount + t.fee <= Funds[t.from] + Gain(AllConfirmed, t.from)}

\* Messages about payments of S; a payment is sent in a message of its own.
Letters(S) ==
    {m \in [type : {"tx", "inv", "getdata", "mempool"}, txs : SUBSET S] :
        m.type = "tx" => \E t \in S : m.txs = {t}}

RelayTypes ==
    /\ blocks \in Seq(SUBSET Payments)
    /\ height \in [Nodes -> Nat] /\ \A n \in Nodes : height[n] <= Len(blocks)
    /\ strikes \in [Links -> Nat]

\* Whatever is on its way or waits to be confirmed, its sender could pay for.
AllSolvent ==
    /\ mempool \in [Nodes -> SUBSET Solvent]
    /\ link \in [Links -> Seq(Letters(Solvent))]

RelayInv == RelayTypes /\ AllSolvent

\* Sums.
LEMMA RelayPayments ==
  /\ IsFiniteSet(Payments) /\ SendBuffer \in Nat \ {0} /\ Strikes \in Nat \ {0}
  /\ \A t \in Payments : t.amount \in Nat /\ t.fee \in Nat /\ Funds[t.from] \in Nat
BY RelayAssumption

LEMMA GainMore ==
  ASSUME NEW txs, NEW more, txs \subseteq more, NEW a
  PROVE  /\ Gain(txs, a) \in Int /\ Gain(more, a) \in Int
         /\ Gain(txs, a) <= Gain(more, a)
<1>. DEFINE f == [t \in Payments |-> IF t \in txs /\ t.to = a THEN t.amount ELSE 0]
            g == [t \in Payments |-> IF t \in more /\ t.to = a THEN t.amount ELSE 0]
<1>1. Gain(txs, a) = SumFunction(f) /\ Gain(more, a) = SumFunction(g)
  BY DEF Gain
<1>2. /\ f \in [Payments -> Int] /\ g \in [Payments -> Int]
      /\ \A t \in Payments : f[t] <= g[t]
  BY RelayPayments
<1>. HIDE DEF f, g
<1>. QED
  BY <1>1, <1>2, RelayPayments, SumFunctionLE, SumFunctionInt

LEMMA CostNat ==
  ASSUME NEW txs, NEW a
  PROVE  Cost(txs, a) \in Nat
<1>. DEFINE f == [t \in Payments |-> IF t \in txs /\ t.from = a THEN t.amount + t.fee ELSE 0]
<1>1. Cost(txs, a) = SumFunction(f)
  BY DEF Cost
<1>2. f \in [Payments -> Nat]
  BY RelayPayments
<1>. HIDE DEF f
<1>. QED
  BY <1>1, <1>2, RelayPayments, SumFunctionNat

LEMMA CostNone ==
  ASSUME NEW txs, NEW a, \A t \in txs : t.from # a
  PROVE  Cost(txs, a) = 0
<1>1. [t \in Payments |-> IF t \in txs /\ t.from = a THEN t.amount + t.fee ELSE 0]
      = [t \in Payments |-> 0]
  OBVIOUS
<1>. QED
  BY <1>1, RelayPayments, SumFunctionZero DEF Cost

\* Who can pay on a node's chain can pay on the whole.
LEMMA AffordableSolvent ==
  ASSUME RelayInv, NEW n \in Nodes, NEW t \in Payments, Affordable(n, t)
  PROVE  t \in Solvent
<1>. DEFINE confirmed == Confirmed(n)
            gain == Gain(confirmed, t.from)
            all == Gain(AllConfirmed, t.from)
            spent == Cost(confirmed, t.from)
            pending == Cost(mempool[n], t.from)
<1>1. confirmed \subseteq AllConfirmed
  BY DEF Confirmed, AllConfirmed, RelayInv, RelayTypes
<1>2. gain \in Int /\ all \in Int /\ gain <= all
  BY <1>1, GainMore
<1>3. spent \in Nat /\ pending \in Nat
  BY CostNat
<1>4. Funds[t.from] \in Nat /\ t.amount \in Nat /\ t.fee \in Nat
  BY RelayPayments
<1>5. Funds[t.from] + gain - spent - pending >= t.amount + t.fee
  <2>1. Balance(n, t.from) - pending >= t.amount + t.fee
    BY DEF Affordable
  <2>2. Balance(n, t.from) = Funds[t.from] + gain - spent
    BY DEF Balance
  <2>. HIDE DEF gain, spent, pending
  <2>. QED
    BY <1>2, <1>3, <1>4, <2>1, <2>2
<1>6. t \in Solvent <=> t.amount + t.fee <= Funds[t.from] + all
  BY DEF Solvent
<1>. HIDE DEF gain, all, spent, pending
<1>. QED
  BY <1>2, <1>3, <1>4, <1>5, <1>6

\* A node on the tip refuses what its sender could pay for only if it has another
\* payment of the sender.
LEMMA SolventAffordable ==
  ASSUME RelayInv, NEW n \in Nodes, NEW t \in Solvent,
         ~(height[n] < Len(blocks)), ~HasRival(n, t), ~Known(n, t)
  PROVE  Affordable(n, t)
<1>1. height[n] = Len(blocks)
  BY DEF RelayInv, RelayTypes
<1>2. Confirmed(n) = AllConfirmed
  BY <1>1 DEF Confirmed, AllConfirmed
<1>3. \A u \in mempool[n] \cup Confirmed(n) : u.from # t.from
  BY DEF HasRival, Known
<1>4. Cost(mempool[n], t.from) = 0 /\ Cost(Confirmed(n), t.from) = 0
  BY <1>3, CostNone
<1>5. t \in Payments /\ t.amount + t.fee <= Funds[t.from] + Gain(AllConfirmed, t.from)
  BY DEF Solvent
<1>6. Gain(AllConfirmed, t.from) \in Int
  BY GainMore
<1>7. Funds[t.from] \in Nat /\ t.amount \in Nat /\ t.fee \in Nat
  BY <1>5, RelayPayments
<1>. QED
  BY <1>2, <1>4, <1>5, <1>6, <1>7 DEF Affordable, Balance

\* Messages.
LEMMA RelayMin ==
  ASSUME NEW a \in Nat, NEW b \in Nat
  PROVE  Min({a, b}) \in Nat /\ Min({a, b}) <= b
<1>1. \E x \in {a, b} : \A y \in {a, b} : x <= y
  <2>1. CASE a <= b
    BY <2>1
  <2>2. CASE b <= a
    BY <2>2
  <2>. QED
    BY <2>1, <2>2
<1>2. Min({a, b}) \in {a, b} /\ \A y \in {a, b} : Min({a, b}) <= y
  BY <1>1 DEF Min
<1>. QED
  BY <1>2

LEMMA SentLetters ==
  ASSUME NEW L, NEW queue \in Seq(L), NEW msgs \in Seq(L)
  PROVE  Sent(queue, msgs) \in Seq(L)
<1>. DEFINE all == queue \o msgs
            k == Min({SendBuffer, Len(queue) + Len(msgs)})
<1>1. all \in Seq(L) /\ Len(all) = Len(queue) + Len(msgs)
  OBVIOUS
<1>2. k \in Nat /\ k <= Len(queue) + Len(msgs)
  BY RelayMin, RelayPayments
<1>. HIDE DEF all, k
<1>3. SubSeq(all, 1, k) \in Seq(L)
  BY <1>1, <1>2
<1>. QED
  BY <1>3 DEF all, k, Sent

LEMMA OneLetter == ASSUME NEW L, NEW m \in L PROVE <<m>> \in Seq(L)
OBVIOUS

LEMMA MoreLetters ==
  ASSUME NEW S, NEW T, S \subseteq T
  PROVE  Seq(Letters(S)) \subseteq Seq(Letters(T))
<1>1. Letters(S) \subseteq Letters(T)
  BY DEF Letters
<1>. QED
  BY <1>1

LEMMA LetterIs ==
  ASSUME NEW S, NEW txs \in SUBSET S
  PROVE  /\ [type |-> "inv", txs |-> txs] \in Letters(S)
         /\ [type |-> "getdata", txs |-> txs] \in Letters(S)
         /\ [type |-> "mempool", txs |-> {}] \in Letters(S)
         /\ \A t \in S : [type |-> "tx", txs |-> {t}] \in Letters(S)
BY DEF Letters

LinksOK(links) == links \in [Links -> Seq(Letters(Solvent))]

LEMMA BroadcastLetters ==
  ASSUME NEW links, LinksOK(links), NEW msg \in Letters(Solvent),
         NEW n, NEW except
  PROVE  LinksOK(Broadcast(n, msg, except, links))
<1>1. \A l \in Links : Sent(links[l], <<msg>>) \in Seq(Letters(Solvent))
  BY OneLetter, SentLetters DEF LinksOK
<1>. QED
  BY <1>1 DEF LinksOK, Broadcast

LEMMA SendOn ==
  ASSUME NEW links, LinksOK(links), NEW l, NEW msgs \in Seq(Letters(Solvent))
  PROVE  LinksOK([links EXCEPT ![l] = Sent(links[l], msgs)])
<1>1. CASE l \in Links
  <2>1. Sent(links[l], msgs) \in Seq(Letters(Solvent))
    BY <1>1, SentLetters DEF LinksOK
  <2>. QED
    BY <2>1 DEF LinksOK
<1>2. CASE l \notin Links
  BY <1>2 DEF LinksOK
<1>. QED
  BY <1>1, <1>2

\* What a node receives, and the queues without it.
LEMMA ReceivedLetter ==
  ASSUME RelayInv, NEW n, NEW p, NEW type, Delivered(n, p, type)
  PROVE  /\ <<p, n>> \in Links
         /\ Head(link[<<p, n>>]) \in Letters(Solvent)
         /\ Head(link[<<p, n>>]).type = type
         /\ LinksOK(Rest(n, p))
<1>1. <<p, n>> \in Links /\ link[<<p, n>>] # <<>> /\ Head(link[<<p, n>>]).type = type
  BY DEF Delivered
<1>2. link \in [Links -> Seq(Letters(Solvent))]
  BY DEF RelayInv, AllSolvent
<1>3. /\ Head(link[<<p, n>>]) \in Letters(Solvent)
      /\ Tail(link[<<p, n>>]) \in Seq(Letters(Solvent))
  BY <1>1, <1>2
<1>. QED
  BY <1>1, <1>2, <1>3 DEF LinksOK, Rest

LEMMA LinkEnds == ASSUME NEW n, NEW p, <<p, n>> \in Links PROVE n \in Nodes /\ p \in Nodes
BY DEF Links

\* The blocks stay, and what is admitted is solvent.
LEMMA Relayed ==
  ASSUME RelayInv, UNCHANGED <<blocks, height>>, LinksOK(link'),
         strikes' \in [Links -> Nat],
         \/ mempool' = mempool
         \/ \E n \in Nodes, t \in Solvent : Admit(n, t)
  PROVE  RelayInv'
<1>1. Solvent' = Solvent
  BY DEF Solvent, AllConfirmed
<1>2. mempool' \in [Nodes -> SUBSET Solvent]
  BY DEF RelayInv, AllSolvent, Admit
<1>. QED
  BY <1>1, <1>2 DEF RelayInv, RelayTypes, AllSolvent, LinksOK

LEMMA SubmitKeeps ==
  ASSUME RelayInv, NEW n \in Nodes, NEW t \in Payments, Submit(n, t)
  PROVE  RelayInv' /\ UNCHANGED strikes
<1>1. /\ Affordable(n, t) /\ Admit(n, t) /\ UNCHANGED <<blocks, height, strikes>>
      /\ link' = Broadcast(n, [type |-> "tx", txs |-> {t}], n, link)
  BY DEF Submit
<1>2. t \in Solvent
  BY <1>1, AffordableSolvent
<1>3. LinksOK(link')
  <2>1. [type |-> "tx", txs |-> {t}] \in Letters(Solvent) /\ LinksOK(link)
    BY <1>2, LetterIs DEF LinksOK, RelayInv, AllSolvent
  <2>. QED
    BY <1>1, <2>1, BroadcastLetters
<1>4. strikes' \in [Links -> Nat]
  BY <1>1 DEF RelayInv, RelayTypes
<1>. QED
  BY <1>1, <1>2, <1>3, <1>4, Relayed

LEMMA ReplyLetters ==
  ASSUME RelayInv, NEW n, NEW p, NEW type, Delivered(n, p, type),
         NEW msg \in Letters(Solvent)
  PROVE  LinksOK(Reply(n, p, msg))
<1>1. LinksOK(Rest(n, p)) /\ <<msg>> \in Seq(Letters(Solvent))
  BY ReceivedLetter, OneLetter
<1>. QED
  BY <1>1, SendOn DEF Reply

LEMMA HandleInvKeeps ==
  ASSUME RelayInv, NEW n, NEW p, HandleInv(n, p)
  PROVE  RelayInv' /\ UNCHANGED strikes
<1>. DEFINE needed == Head(link[<<p, n>>]).txs \ mempool[n]
            msg == [type |-> "getdata", txs |-> needed]
<1>1. /\ Delivered(n, p, "inv") /\ UNCHANGED <<blocks, height, mempool, strikes>>
      /\ link' = IF needed = {} THEN Rest(n, p) ELSE Reply(n, p, msg)
  BY DEF HandleInv
<1>2. LinksOK(Rest(n, p)) /\ Head(link[<<p, n>>]) \in Letters(Solvent)
  BY <1>1, ReceivedLetter
<1>3. needed \in SUBSET Solvent
  BY <1>2 DEF Letters
<1>. HIDE DEF needed
<1>4. msg \in Letters(Solvent)
  BY <1>3, LetterIs
<1>. HIDE DEF msg
<1>5. LinksOK(link')
  BY <1>1, <1>2, <1>4, ReplyLetters
<1>6. strikes' \in [Links -> Nat]
  BY <1>1 DEF RelayInv, RelayTypes
<1>. QED
  BY <1>1, <1>5, <1>6, Relayed

LEMMA HandleMempoolKeeps ==
  ASSUME RelayInv, NEW n, NEW p, HandleMempool(n, p)
  PROVE  RelayInv' /\ UNCHANGED strikes
<1>. DEFINE msg == [type |-> "inv", txs |-> mempool[n]]
<1>1. /\ Delivered(n, p, "mempool") /\ UNCHANGED <<blocks, height, mempool, strikes>>
      /\ link' = IF mempool[n] = {} THEN Rest(n, p) ELSE Reply(n, p, msg)
  BY DEF HandleMempool
<1>2. LinksOK(Rest(n, p)) /\ n \in Nodes
  BY <1>1, ReceivedLetter, LinkEnds
<1>3. mempool[n] \in SUBSET Solvent
  BY <1>2 DEF RelayInv, AllSolvent
<1>4. msg \in Letters(Solvent)
  BY <1>3, LetterIs
<1>. HIDE DEF msg
<1>5. LinksOK(link')
  BY <1>1, <1>2, <1>4, ReplyLetters
<1>6. strikes' \in [Links -> Nat]
  BY <1>1 DEF RelayInv, RelayTypes
<1>. QED
  BY <1>1, <1>5, <1>6, Relayed

LEMMA HandleGetDataKeeps ==
  ASSUME RelayInv, NEW n, NEW p, HandleGetData(n, p)
  PROVE  RelayInv' /\ UNCHANGED strikes
<1>. DEFINE held == Head(link[<<p, n>>]).txs \cap mempool[n]
            rest == Rest(n, p)
            Letter(order) == [i \in DOMAIN order |-> [type |-> "tx", txs |-> {order[i]}]]
<1>1. /\ Delivered(n, p, "getdata") /\ UNCHANGED <<blocks, height, mempool, strikes>>
      /\ \E order \in SetToSeqs(held) :
             link' = [rest EXCEPT ![<<n, p>>] = Sent(rest[<<n, p>>], Letter(order))]
  BY DEF HandleGetData
<1>2. /\ LinksOK(rest) /\ Head(link[<<p, n>>]) \in Letters(Solvent)
  BY <1>1, ReceivedLetter
<1>3. held \in SUBSET Solvent /\ IsFiniteSet(held)
  <2>1. held \in SUBSET Solvent
    BY <1>2 DEF Letters
  <2>2. Solvent \subseteq Payments
    BY DEF Solvent
  <2>. QED
    BY <2>1, <2>2, RelayPayments, FS_Subset
<1>4. Cardinality(held) \in Nat
  <2>1. Cardinality(held) = Cardinality(held)
    BY DEF Cardinality, Cardinality
  <2>. QED
    BY <1>3, <2>1, FS_CardinalityType
<1>5. PICK order \in SetToSeqs(held) :
          link' = [rest EXCEPT ![<<n, p>>] = Sent(rest[<<n, p>>], Letter(order))]
  BY <1>1
<1>. DEFINE k == Cardinality(held)
<1>6. order \in [1..k -> held]
  BY <1>5 DEF SetToSeqs
<1>. HIDE DEF held, rest, k
<1>7. Letter(order) \in Seq(Letters(Solvent))
  <2>1. \A i \in 1..k : [type |-> "tx", txs |-> {order[i]}] \in Letters(Solvent)
    BY <1>3, <1>6, LetterIs
  <2>2. DOMAIN order = 1..k /\ k \in Nat
    BY <1>4, <1>6 DEF k
  <2>. QED
    BY <2>1, <2>2
<1>. HIDE DEF Letter
<1>8. LinksOK(link')
  BY <1>2, <1>5, <1>7, SendOn
<1>9. strikes' \in [Links -> Nat]
  BY <1>1 DEF RelayInv, RelayTypes
<1>. QED
  BY <1>1, <1>8, <1>9, Relayed

\* The cause of a penalty, of l's first node for its second.
Cause(l) ==
    \/ strayed[l[2]] # 0
    \/ height[l[1]] < Len(blocks)
    \/ HasRival(l[1], CHOOSE t \in Head(link[<<l[2], l[1]>>]).txs : TRUE)

Caused == \A l \in Links : strikes'[l] > strikes[l] => Cause(l)

LEMMA Raised ==
  ASSUME RelayInv, NEW l \in Links, NEW v \in Nat, strikes' = [strikes EXCEPT ![l] = v],
         Cause(l)
  PROVE  Caused /\ strikes' \in [Links -> Nat]
<1>1. strikes \in [Links -> Nat]
  BY DEF RelayInv, RelayTypes
<1>2. \A k \in Links : k # l => strikes'[k] = strikes[k] /\ strikes[k] \in Nat
  BY <1>1
<1>3. \A k \in Links : strikes'[k] > strikes[k] => k = l
  BY <1>2
<1>. QED
  BY <1>1, <1>3 DEF Caused

LEMMA NotRaised ==
  ASSUME RelayInv, UNCHANGED strikes
  PROVE  Caused
BY DEF Caused, RelayInv, RelayTypes

LEMMA HandleTxKeeps ==
  ASSUME RelayInv, NEW n, NEW p, HandleTx(n, p)
  PROVE  RelayInv' /\ Caused
<1>. DEFINE msg == Head(link[<<p, n>>])
<1>1. Delivered(n, p, "tx") /\ UNCHANGED <<blocks, height>>
  BY DEF HandleTx
<1>2. /\ <<p, n>> \in Links /\ msg \in Letters(Solvent) /\ msg.type = "tx"
      /\ LinksOK(Rest(n, p)) /\ n \in Nodes /\ p \in Nodes
  BY <1>1, ReceivedLetter, LinkEnds
<1>3. PICK t \in Solvent : msg.txs = {t}
  BY <1>2 DEF Letters
<1>4. \/ Known(n, t) /\ link' = Rest(n, p) /\ UNCHANGED <<mempool, strikes>>
      \/ /\ ~Known(n, t) /\ Affordable(n, t)
         /\ Admit(n, t)
         /\ link' = Broadcast(n, [type |-> "inv", txs |-> {t}], p, Rest(n, p))
         /\ UNCHANGED strikes
      \/ /\ ~Known(n, t) /\ ~Affordable(n, t)
         /\ strikes' = [strikes EXCEPT ![<<n, p>>] = Min({Strikes, strikes[<<n, p>>] + 1})]
         /\ link' = Rest(n, p)
         /\ UNCHANGED mempool
  BY <1>3 DEF HandleTx
<1>5. strikes \in [Links -> Nat]
  BY DEF RelayInv, RelayTypes
<1>6. CASE Known(n, t) /\ link' = Rest(n, p) /\ UNCHANGED <<mempool, strikes>>
  BY <1>1, <1>2, <1>5, <1>6, Relayed, NotRaised
<1>7. CASE /\ ~Known(n, t) /\ Affordable(n, t)
           /\ Admit(n, t)
           /\ link' = Broadcast(n, [type |-> "inv", txs |-> {t}], p, Rest(n, p))
           /\ UNCHANGED strikes
  <2>1. [type |-> "inv", txs |-> {t}] \in Letters(Solvent)
    BY <1>3, LetterIs
  <2>2. LinksOK(link')
    BY <1>2, <1>7, <2>1, BroadcastLetters
  <2>. QED
    BY <1>1, <1>2, <1>3, <1>5, <1>7, <2>2, Relayed, NotRaised
<1>8. CASE /\ ~Known(n, t) /\ ~Affordable(n, t)
           /\ strikes' = [strikes EXCEPT ![<<n, p>>] = Min({Strikes, strikes[<<n, p>>] + 1})]
           /\ link' = Rest(n, p)
           /\ UNCHANGED mempool
  <2>1. <<n, p>> \in Links
    BY <1>2, NetworkAssumption DEF Links
  <2>2. Min({Strikes, strikes[<<n, p>>] + 1}) \in Nat
    <3>1. Strikes \in Nat /\ strikes[<<n, p>>] + 1 \in Nat
      BY <1>5, <2>1, RelayPayments
    <3>. QED
      BY <3>1, RelayMin
  <2>3. Cause(<<n, p>>)
    <3>1. height[n] < Len(blocks) \/ HasRival(n, t)
      BY <1>2, <1>3, <1>8, SolventAffordable
    <3>2. (CHOOSE u \in msg.txs : TRUE) = t
      BY <1>3
    <3>3. <<n, p>>[1] = n /\ <<n, p>>[2] = p
      OBVIOUS
    <3>. QED
      BY <3>1, <3>2, <3>3 DEF Cause
  <2>4. Caused /\ strikes' \in [Links -> Nat]
    BY <1>8, <2>1, <2>2, <2>3, Raised
  <2>. QED
    BY <1>1, <1>2, <1>8, <2>4, Relayed
<1>. QED
  BY <1>4, <1>6, <1>7, <1>8

LEMMA RebroadcastKeeps ==
  ASSUME RelayInv, NEW n, NEW p, Rebroadcast(n, p)
  PROVE  RelayInv' /\ UNCHANGED strikes
<1>. DEFINE msg == [type |-> "inv", txs |-> mempool[n]]
<1>1. /\ <<n, p>> \in Links /\ UNCHANGED <<blocks, height, mempool, strikes>>
      /\ link' = [link EXCEPT ![<<n, p>>] = Sent(link[<<n, p>>], <<msg>>)]
  BY DEF Rebroadcast
<1>2. mempool[n] \in SUBSET Solvent /\ LinksOK(link)
  BY <1>1, LinkEnds DEF RelayInv, AllSolvent, LinksOK
<1>3. msg \in Letters(Solvent)
  BY <1>2, LetterIs
<1>. HIDE DEF msg
<1>4. LinksOK(link')
  BY <1>1, <1>2, <1>3, OneLetter, SendOn
<1>5. strikes' \in [Links -> Nat]
  BY <1>1 DEF RelayInv, RelayTypes
<1>. QED
  BY <1>1, <1>4, <1>5, Relayed

LEMMA ReconnectKeeps ==
  ASSUME RelayInv, NEW n, NEW p, Meet(n, p)
  PROVE  RelayInv' /\ Caused
<1>. DEFINE both == {<<n, p>>, <<p, n>>}
            asks == <<[type |-> "mempool", txs |-> {}]>>
<1>1. /\ link' = [l \in Links |-> IF l \in both THEN asks ELSE link[l]]
      /\ strikes' = [l \in Links |-> IF l \in both THEN 0 ELSE strikes[l]]
      /\ UNCHANGED <<blocks, height, mempool>>
  BY DEF Meet
<1>2. /\ strikes \in [Links -> Nat]
      /\ link \in [Links -> Seq(Letters(Solvent))]
  BY DEF RelayInv, RelayTypes, AllSolvent
<1>3. asks \in Seq(Letters(Solvent))
  BY LetterIs, OneLetter
<1>. HIDE DEF both, asks
<1>4. LinksOK(link') /\ strikes' \in [Links -> Nat]
  BY <1>1, <1>2, <1>3 DEF LinksOK
<1>5. \A l \in Links : ~(strikes'[l] > strikes[l])
  BY <1>1, <1>2
<1>. QED
  BY <1>1, <1>4, <1>5, Relayed DEF Caused

LEMMA RefuseKeeps ==
  ASSUME RelayInv, NEW n, NEW p, RefuseBlock(n, p)
  PROVE  RelayInv' /\ Caused
<1>1. /\ <<n, p>> \in Links /\ strayed[p] = height[n] + 1
      /\ strikes' = [strikes EXCEPT ![<<n, p>>] = Strikes]
      /\ UNCHANGED <<blocks, height, mempool, link>>
  BY DEF RefuseBlock
<1>2. strayed[p] # 0
  <2>1. height[n] \in Nat
    BY <1>1, LinkEnds DEF RelayInv, RelayTypes
  <2>. QED
    BY <1>1, <2>1
<1>3. Cause(<<n, p>>) /\ Strikes \in Nat
  BY <1>2, RelayPayments DEF Cause
<1>4. Caused /\ strikes' \in [Links -> Nat]
  BY <1>1, <1>3, Raised
<1>5. LinksOK(link')
  BY <1>1 DEF RelayInv, AllSolvent, LinksOK
<1>. QED
  BY <1>1, <1>4, <1>5, Relayed

\* A block makes no one poorer who has not paid.
LEMMA BlocksKeep ==
  ASSUME RelayInv, NEW n \in Nodes, MineBlock(n) \/ LearnBlock(n)
  PROVE  RelayInv' /\ UNCHANGED strikes
<1>1. UNCHANGED <<link, strikes>>
  BY DEF MineBlock, LearnBlock
<1>2. /\ blocks \in Seq(SUBSET Payments) /\ Len(blocks) \in Nat
      /\ height \in [Nodes -> Nat] /\ \A v \in Nodes : height[v] <= Len(blocks)
      /\ mempool \in [Nodes -> SUBSET Solvent]
      /\ mempool[n] \subseteq Payments
  BY DEF RelayInv, RelayTypes, AllSolvent, Solvent
<1>3. ASSUME blocks' \in Seq(SUBSET Payments), AllConfirmed \subseteq AllConfirmed',
             height' \in [Nodes -> Nat], \A v \in Nodes : height'[v] <= Len(blocks'),
             mempool' \in [Nodes -> SUBSET Solvent]
      PROVE  RelayInv'
  <2>1. \A a : /\ Gain(AllConfirmed, a) \in Int /\ Gain(AllConfirmed', a) \in Int
               /\ Gain(AllConfirmed, a) <= Gain(AllConfirmed', a)
    BY <1>3, GainMore
  <2>2. Solvent \subseteq Solvent'
    <3>1. Solvent' = {t \in Payments :
                          t.amount + t.fee <= Funds[t.from] + Gain(AllConfirmed', t.from)}
      BY DEF Solvent, Gain
    <3>. SUFFICES ASSUME NEW t \in Payments,
                         t.amount + t.fee <= Funds[t.from] + Gain(AllConfirmed, t.from)
                  PROVE  t.amount + t.fee <= Funds[t.from] + Gain(AllConfirmed', t.from)
      BY <3>1 DEF Solvent
    <3>. QED
      BY <2>1, RelayPayments
  <2>3. mempool' \in [Nodes -> SUBSET Solvent'] /\ link' \in [Links -> Seq(Letters(Solvent'))]
    <3>1. Seq(Letters(Solvent)) \subseteq Seq(Letters(Solvent'))
      BY <2>2, MoreLetters
    <3>2. link' \in [Links -> Seq(Letters(Solvent))]
      BY <1>1 DEF RelayInv, AllSolvent
    <3>. QED
      BY <1>3, <2>2, <3>1, <3>2
  <2>4. AllSolvent'
    BY <2>3 DEF AllSolvent, Letters
  <2>5. RelayTypes'
    BY <1>1, <1>3 DEF RelayInv, RelayTypes
  <2>. QED
    BY <2>4, <2>5 DEF RelayInv
<1>4. CASE LearnBlock(n)
  <2>1. /\ height[n] < Len(blocks) /\ height' = [height EXCEPT ![n] = height[n] + 1]
        /\ mempool' = [mempool EXCEPT ![n] = mempool[n] \ blocks[height[n] + 1]]
        /\ blocks' = blocks
    BY <1>4 DEF LearnBlock
  <2>2. /\ height' \in [Nodes -> Nat] /\ \A v \in Nodes : height'[v] <= Len(blocks)
        /\ mempool' \in [Nodes -> SUBSET Solvent]
    BY <1>2, <2>1
  <2>3. AllConfirmed' = AllConfirmed
    BY <2>1 DEF AllConfirmed
  <2>. QED
    BY <1>1, <1>2, <1>3, <2>1, <2>2, <2>3
<1>5. CASE MineBlock(n)
  <2>1. CASE UNCHANGED <<blocks, height, mempool>>
    <3>1. AllConfirmed' = AllConfirmed
      BY <2>1 DEF AllConfirmed
    <3>. QED
      BY <1>1, <1>2, <1>3, <2>1, <3>1
  <2>2. CASE /\ blocks' = Append(blocks, mempool[n])
             /\ height' = [height EXCEPT ![n] = height[n] + 1]
             /\ mempool' = [mempool EXCEPT ![n] = {}]
             /\ height[n] = Len(blocks)
    <3>1. /\ blocks' \in Seq(SUBSET Payments) /\ Len(blocks') = Len(blocks) + 1
          /\ \A i \in 1..Len(blocks) : blocks'[i] = blocks[i]
      BY <1>2, <2>2
    <3>2. AllConfirmed \subseteq AllConfirmed'
      BY <1>2, <3>1 DEF AllConfirmed
    <3>3. /\ height' \in [Nodes -> Nat] /\ \A v \in Nodes : height'[v] <= Len(blocks')
          /\ mempool' \in [Nodes -> SUBSET Solvent]
      BY <1>2, <2>2, <3>1
    <3>. QED
      BY <1>1, <1>3, <3>1, <3>2, <3>3
  <2>. QED
    BY <1>5, <2>1, <2>2 DEF MineBlock
<1>. QED
  BY <1>1, <1>4, <1>5

\* An honest peer is penalised only for a cause, for any nodes, payments, funds and
\* buffers: whoever could pay when a payment was admitted somewhere can pay on the
\* tip of the chain, if it has paid nothing else.
THEOREM PenaltyHasCauseCorrect == RelaySpec => PenaltyHasCause
<1>1. RelayInit => RelayInv
  <2>. SUFFICES ASSUME RelayInit PROVE RelayInv
    OBVIOUS
  <2>1. /\ blocks = <<>> /\ height = [n \in Nodes |-> 0] /\ strikes = [l \in Links |-> 0]
        /\ mempool = [n \in Nodes |-> {}] /\ link = [l \in Links |-> <<>>]
    BY DEF RelayInit
  <2>2. <<>> \in Seq(Letters(Solvent)) /\ blocks \in Seq(SUBSET Payments) /\ Len(blocks) = 0
    BY <2>1
  <2>. QED
    BY <2>1, <2>2 DEF RelayInv, RelayTypes, AllSolvent
<1>2. RelayInv /\ [RelayNext]_relayVars => RelayInv' /\ Caused
  <2>. SUFFICES ASSUME RelayInv, [RelayNext]_relayVars PROVE RelayInv' /\ Caused
    OBVIOUS
  <2>1. ASSUME RelayInv', UNCHANGED strikes PROVE RelayInv' /\ Caused
    BY <2>1, NotRaised
  <2>2. ASSUME NEW n \in Nodes, NEW t \in Payments, Submit(n, t) PROVE RelayInv' /\ Caused
    BY <2>1, <2>2, SubmitKeeps
  <2>3. ASSUME NEW n \in Nodes, MineBlock(n) \/ LearnBlock(n) PROVE RelayInv' /\ Caused
    BY <2>1, <2>3, BlocksKeep
  <2>4. ASSUME NEW n \in Nodes, NEW p \in Nodes, HandleMessage(n, p) PROVE RelayInv' /\ Caused
    BY <2>1, <2>4, HandleInvKeeps, HandleGetDataKeeps, HandleTxKeeps, HandleMempoolKeeps
       DEF HandleMessage
  <2>5. ASSUME NEW n \in Nodes, NEW p \in Nodes,
               Rebroadcast(n, p) \/ Meet(n, p) \/ RefuseBlock(n, p)
        PROVE  RelayInv' /\ Caused
    BY <2>1, <2>5, RebroadcastKeeps, ReconnectKeeps, RefuseKeeps
  <2>6. CASE UNCHANGED relayVars
    <3>1. UNCHANGED <<blocks, height, mempool, link, strikes>>
      BY <2>6 DEF relayVars
    <3>2. LinksOK(link') /\ strikes' \in [Links -> Nat]
      BY <3>1 DEF RelayInv, RelayTypes, AllSolvent, LinksOK
    <3>. QED
      BY <2>1, <3>1, <3>2, Relayed
  <2>. QED
    BY <2>2, <2>3, <2>4, <2>5, <2>6 DEF RelayNext
<1>. QED
  BY <1>1, <1>2, PTL DEF RelaySpec, PenaltyHasCause, Caused, Cause
-----------------------------------------------------------------------------
(* The program and its copy                                                *)

UpdatesTypes ==
    /\ process \in [Nodes -> {"up", "stopping", "terminating", "panicked", "down"}]
    /\ exec \in [Nodes -> Versions \cup {0}]
    /\ old \in [Nodes -> Versions \cup {0}]
    /\ update \in [Nodes -> [Keys -> Steps]]
    /\ seen = [n \in Nodes |-> seen[n]]
    /\ overlapped \in [Nodes -> BOOLEAN]

\* Of a node: an announcement is worked on once in a process; while one has put
\* the program aside no other has, and there is no program otherwise only where
\* no process runs; then there is the copy.
Sound(up1, upd, sn, ex, od, over) ==
    /\ \A k \in Keys : upd[k] # "none" => up1 /\ k \in sn
    /\ \A k \in Keys : upd[k] = "install" => ex = 0
    /\ \A k, l \in Keys : upd[k] = "install" /\ upd[l] = "install" => k = l
    /\ ~over /\ ex = 0 => od # 0 /\ (up1 => \E k \in Keys : upd[k] = "install")

SoundAt(n) == Sound(IsUp(n), update[n], seen[n], exec[n], old[n], overlapped[n])

CopiesKept == \A n \in Nodes : SoundAt(n)

Same(n) ==
    /\ process'[n] = process[n] /\ update'[n] = update[n] /\ seen'[n] = seen[n]
    /\ exec'[n] = exec[n] /\ old'[n] = old[n] /\ overlapped'[n] = overlapped[n]

LEMMA OneNode ==
  ASSUME CopiesKept, NEW n \in Nodes, \A v \in Nodes \ {n} : Same(v), SoundAt(n)'
  PROVE  CopiesKept'
<1>1. ASSUME NEW v \in Nodes, v # n PROVE SoundAt(v)'
  <2>1. Same(v) /\ SoundAt(v)
    BY <1>1 DEF CopiesKept
  <2>. QED
    BY <2>1 DEF Same, SoundAt, Sound, IsUp
<1>. QED
  BY <1>1 DEF CopiesKept

\* Without an update under way.
LEMMA SoundNone ==
  ASSUME NEW up1, NEW upd, NEW sn, NEW ex, NEW od, NEW over, Sound(up1, upd, sn, ex, od, over),
         NEW up2, NEW sn2, up2 => ex # 0
  PROVE  Sound(up2, NoUpdates, sn2, ex, od, over)
BY DEF Sound, NoUpdates

LEMMA NoUpdatesType == NoUpdates \in [Keys -> Steps]
BY DEF NoUpdates, Steps

\* The step of one update to what it does next, when that is not "install" and it
\* was not.
LEMMA SoundGoes ==
  ASSUME NEW upd \in [Keys -> Steps], NEW sn, NEW ex, NEW od, NEW over,
         Sound(TRUE, upd, sn, ex, od, over), NEW k \in Keys, k \in sn, NEW step,
         upd[k] # "install", step # "install", NEW after, after = [upd EXCEPT ![k] = step]
  PROVE  Sound(TRUE, after, sn, ex, od, over)
<1>1. after[k] = step /\ \A l \in Keys : l # k => after[l] = upd[l]
  OBVIOUS
<1>. QED
  BY <1>1 DEF Sound

\* The same of a node.
LEMMA NodeGoes ==
  ASSUME UpdatesTypes, NEW n \in Nodes, NEW k \in Keys, k \in seen[n], NEW step,
         Sound(TRUE, update[n], seen[n], exec[n], old[n], overlapped[n]),
         update[n][k] # "install", step # "install",
         update'[n] = [update[n] EXCEPT ![k] = step]
  PROVE  Sound(TRUE, update'[n], seen[n], exec[n], old[n], overlapped[n])
<1>1. update[n] \in [Keys -> Steps]
  BY DEF UpdatesTypes
<1>. DEFINE upd == update[n]
            sn == seen[n]
            ex == exec[n]
            od == old[n]
            over == overlapped[n]
            after == update'[n]
<1>2. /\ upd \in [Keys -> Steps] /\ Sound(TRUE, upd, sn, ex, od, over) /\ k \in sn
      /\ upd[k] # "install" /\ after = [upd EXCEPT ![k] = step]
  BY <1>1
<1>3. after[k] = step /\ \A l \in Keys : l # k => after[l] = upd[l]
  BY <1>2
<1>. HIDE DEF upd, sn, ex, od, over, after
<1>4. Sound(TRUE, after, sn, ex, od, over)
  BY <1>2, <1>3 DEF Sound
<1>. QED
  BY <1>4 DEF after, sn, ex, od, over

\* A step of one update.
LEMMA GoesIs ==
  ASSUME UpdatesTypes, NEW n \in Nodes, NEW k \in Keys, NEW step \in Steps,
         update' = Goes(n, k, step)
  PROVE  /\ update' \in [Nodes -> [Keys -> Steps]]
         /\ update'[n] = [update[n] EXCEPT ![k] = step]
         /\ \A v \in Nodes \ {n} : update'[v] = update[v]
BY DEF UpdatesTypes, Goes

\* An announcement is emitted or handled.
LEMMA GossipKeeps ==
  ASSUME UpdatesTypes, CopiesKept, NEW n \in Nodes,
         EmitUpdateAnnouncement(n) \/ \E p \in Nodes : HandleUpdateAnnounce(n, p)
  PROVE  UpdatesTypes' /\ CopiesKept'
<1>1. ASSUME NEW key, seen' = [seen EXCEPT ![n] = seen[n] \cup {key}],
             \/ update' = update
             \/ IsUp(n) /\ key \notin seen[n] /\ update' = [update EXCEPT ![n][key] = "download"],
             UNCHANGED <<process, exec, old, overlapped>>
      PROVE  UpdatesTypes' /\ CopiesKept'
  <2>1. /\ seen'[n] = seen[n] \cup {key}
        /\ \A v \in Nodes \ {n} : seen'[v] = seen[v]
        /\ seen' = [v \in Nodes |-> seen'[v]]
    BY <1>1 DEF UpdatesTypes
  <2>2. CASE update' = update
    <3>1. UpdatesTypes'
      BY <1>1, <2>1, <2>2 DEF UpdatesTypes
    <3>2. SoundAt(n)'
      <4>1. SoundAt(n)
        BY DEF CopiesKept
      <4>. QED
        BY <1>1, <2>1, <2>2, <4>1 DEF SoundAt, Sound, IsUp
    <3>. QED
      BY <1>1, <2>1, <2>2, <3>1, <3>2, OneNode DEF Same
  <2>3. CASE /\ IsUp(n) /\ key \notin seen[n] /\ key \in Keys
             /\ update' = [update EXCEPT ![n][key] = "download"]
    <3>1. /\ update' \in [Nodes -> [Keys -> Steps]]
          /\ update'[n] = [update[n] EXCEPT ![key] = "download"]
          /\ \A v \in Nodes \ {n} : update'[v] = update[v]
      BY <2>3 DEF UpdatesTypes, Steps
    <3>2. UpdatesTypes'
      BY <1>1, <2>1, <3>1 DEF UpdatesTypes
    <3>3. SoundAt(n)'
      <4>1. Sound(TRUE, update[n], seen[n], exec[n], old[n], overlapped[n])
        BY <2>3 DEF CopiesKept, SoundAt
      <4>2. update[n][key] = "none" /\ update[n] \in [Keys -> Steps]
        BY <2>3, <4>1 DEF Sound, UpdatesTypes
      <4>3. Sound(TRUE, update[n], seen'[n], exec[n], old[n], overlapped[n])
        BY <2>1, <4>1 DEF Sound
      <4>4. Sound(TRUE, update'[n], seen'[n], exec[n], old[n], overlapped[n])
        BY <2>1, <2>3, <3>1, <4>2, <4>3, SoundGoes
      <4>5. IsUp(n)' = TRUE
        BY <1>1, <2>3 DEF IsUp
      <4>. QED
        BY <1>1, <4>4, <4>5 DEF SoundAt
    <3>. QED
      BY <1>1, <2>1, <3>1, <3>2, <3>3, OneNode DEF Same
  <2>4. key \notin Keys => [update EXCEPT ![n][key] = "download"] = update
    BY DEF UpdatesTypes
  <2>. QED
    BY <1>1, <2>2, <2>3, <2>4
<1>2. CASE EmitUpdateAnnouncement(n)
  BY <1>1, <1>2 DEF EmitUpdateAnnouncement, fileVars
<1>3. ASSUME NEW p \in Nodes, HandleUpdateAnnounce(n, p) PROVE UpdatesTypes' /\ CopiesKept'
  BY <1>1, <1>3 DEF HandleUpdateAnnounce, fileVars
<1>. QED
  BY <1>2, <1>3

\* The downloaded file, and the removal of the copy.
LEMMA DownloadKeeps ==
  ASSUME UpdatesTypes, CopiesKept, NEW n \in Nodes, NEW k \in Keys,
         Download(n, k) \/ RemoveOld(n, k)
  PROVE  UpdatesTypes' /\ CopiesKept'
<1>. DEFINE S(od, over) == Sound(TRUE, update'[n], seen[n], exec[n], od, over)
<1>1. /\ IsUp(n) /\ update[n][k] \in {"download", "removeOld"}
      /\ UNCHANGED <<process, exec, seen>>
      /\ \E step \in {"none", "removeOld", "backUp"} : update' = Goes(n, k, step)
  BY DEF Download, RemoveOld, At, Fails, gossipVars, fileVars
<1>2. PICK step \in {"none", "removeOld", "backUp"} : update' = Goes(n, k, step)
  BY <1>1
<1>3. step \in Steps /\ step # "install" /\ update[n][k] # "install"
  BY <1>1, <1>2 DEF Steps
<1>4. /\ update' \in [Nodes -> [Keys -> Steps]]
      /\ update'[n] = [update[n] EXCEPT ![k] = step]
      /\ \A v \in Nodes \ {n} : update'[v] = update[v]
  BY <1>2, <1>3, GoesIs
<1>5. /\ Sound(TRUE, update[n], seen[n], exec[n], old[n], overlapped[n])
      /\ update[n] \in [Keys -> Steps]
  BY <1>1 DEF CopiesKept, SoundAt, UpdatesTypes
<1>6. k \in seen[n]
  BY <1>1, <1>5 DEF Sound
<1>7. S(old[n], overlapped[n])
  BY <1>4, <1>5, <1>6, <1>3, NodeGoes
<1>8. IsUp(n)' = TRUE
  BY <1>1 DEF IsUp
<1>9. CASE Download(n, k)
  <2>1. UNCHANGED <<old, overlapped>>
    BY <1>9 DEF Download, fileVars
  <2>2. UpdatesTypes' /\ SoundAt(n)'
    BY <1>1, <1>4, <1>7, <1>8, <2>1 DEF UpdatesTypes, SoundAt
  <2>. QED
    BY <1>1, <1>4, <2>1, <2>2, OneNode DEF Same
<1>10. CASE RemoveOld(n, k)
  <2>1. /\ old' = [old EXCEPT ![n] = 0]
        /\ overlapped' = [overlapped EXCEPT
              ![n] = overlapped[n] \/ \E other \in Keys : update[n][other] = "install"]
    BY <1>10 DEF RemoveOld
  <2>2. /\ \A v \in Nodes \ {n} : old'[v] = old[v] /\ overlapped'[v] = overlapped[v]
        /\ overlapped'[n] = (overlapped[n] \/ \E other \in Keys : update[n][other] = "install")
        /\ old'[n] = 0
    BY <2>1 DEF UpdatesTypes
  <2>3. S(old'[n], overlapped'[n])
    <3>1. ~overlapped'[n] => exec[n] # 0
      BY <1>5, <2>2 DEF Sound
    <3>. QED
      BY <1>7, <3>1 DEF Sound
  <2>4. UpdatesTypes'
    BY <1>1, <1>4, <2>1 DEF UpdatesTypes
  <2>5. SoundAt(n)'
    BY <1>1, <1>8, <2>3 DEF SoundAt
  <2>. QED
    BY <1>1, <1>4, <2>2, <2>4, <2>5, OneNode DEF Same
<1>. QED
  BY <1>9, <1>10

\* The program becomes the copy.
LEMMA BackUpKeeps ==
  ASSUME UpdatesTypes, CopiesKept, NEW n \in Nodes, NEW k \in Keys, BackUp(n, k)
  PROVE  UpdatesTypes' /\ CopiesKept'
<1>1. /\ IsUp(n) /\ update[n][k] = "backUp" /\ UNCHANGED <<process, seen, overlapped>>
  BY DEF BackUp, At, gossipVars
<1>2. /\ Sound(TRUE, update[n], seen[n], exec[n], old[n], overlapped[n])
      /\ update[n] \in [Keys -> Steps]
  BY <1>1 DEF CopiesKept, SoundAt, UpdatesTypes
<1>3. k \in seen[n]
  BY <1>1, <1>2 DEF Sound
<1>4. IsUp(n)' = TRUE
  BY <1>1 DEF IsUp
<1>5. CASE Fails(n, k) /\ UNCHANGED <<exec, old>>
  <2>1. update' = Goes(n, k, "none")
    BY <1>5 DEF Fails
  <2>2. /\ update' \in [Nodes -> [Keys -> Steps]]
        /\ update'[n] = [update[n] EXCEPT ![k] = "none"]
        /\ \A v \in Nodes \ {n} : update'[v] = update[v]
    BY <2>1, GoesIs DEF Steps
  <2>3. Sound(TRUE, update'[n], seen[n], exec[n], old[n], overlapped[n])
    BY <1>1, <1>2, <1>3, <2>2, NodeGoes
  <2>4. UpdatesTypes' /\ SoundAt(n)'
    BY <1>1, <1>4, <1>5, <2>2, <2>3 DEF UpdatesTypes, SoundAt
  <2>. QED
    BY <1>1, <1>5, <2>2, <2>4, OneNode DEF Same
<1>6. CASE /\ exec[n] # 0 /\ old' = [old EXCEPT ![n] = exec[n]] /\ exec' = [exec EXCEPT ![n] = 0]
           /\ update' = Goes(n, k, "install")
  <2>1. /\ update' \in [Nodes -> [Keys -> Steps]]
        /\ update'[n] = [update[n] EXCEPT ![k] = "install"]
        /\ \A v \in Nodes \ {n} : update'[v] = update[v]
    BY <1>6, GoesIs DEF Steps
  <2>2. /\ old' \in [Nodes -> Versions \cup {0}] /\ exec' \in [Nodes -> Versions \cup {0}]
        /\ old'[n] = exec[n] /\ exec'[n] = 0
        /\ \A v \in Nodes \ {n} : old'[v] = old[v] /\ exec'[v] = exec[v]
    BY <1>6 DEF UpdatesTypes
  <2>3. /\ update'[n][k] = "install"
        /\ \A l \in Keys : l # k => update'[n][l] = update[n][l] /\ update[n][l] # "install"
    BY <1>2, <1>6, <2>1 DEF Sound
  <2>4. Sound(TRUE, update'[n], seen[n], exec'[n], old'[n], overlapped[n])
    BY <1>2, <1>3, <1>6, <2>2, <2>3 DEF Sound
  <2>5. UpdatesTypes' /\ SoundAt(n)'
    BY <1>1, <1>4, <2>1, <2>2, <2>4 DEF UpdatesTypes, SoundAt
  <2>. QED
    BY <1>1, <2>1, <2>2, <2>5, OneNode DEF Same
<1>. QED
  BY <1>5, <1>6 DEF BackUp, fileVars

\* The new file becomes the program, or the copy does again.
LEMMA InstallKeeps ==
  ASSUME UpdatesTypes, CopiesKept, NEW n \in Nodes, NEW k \in Keys, Install(n, k),
         MaxVersion \in Nat
  PROVE  UpdatesTypes' /\ CopiesKept'
<1>1. /\ IsUp(n) /\ update[n][k] = "install" /\ UNCHANGED <<process, seen, overlapped>>
  BY DEF Install, At, gossipVars
<1>2. /\ Sound(TRUE, update[n], seen[n], exec[n], old[n], overlapped[n])
      /\ update[n] \in [Keys -> Steps]
  BY <1>1 DEF CopiesKept, SoundAt, UpdatesTypes
<1>3. k \in seen[n] /\ exec[n] = 0 /\ \A l \in Keys : l # k => update[n][l] # "install"
  BY <1>1, <1>2 DEF Sound
<1>4. IsUp(n)' = TRUE
  BY <1>1 DEF IsUp
<1>5. k[2] \in Versions /\ 0 \notin Versions
  BY DEF Keys, Versions
<1>6. ASSUME NEW step \in {"none", "shutdown"}, update' = Goes(n, k, step),
             exec' \in [Nodes -> Versions \cup {0}], old' \in [Nodes -> Versions \cup {0}],
             \A v \in Nodes \ {n} : old'[v] = old[v] /\ exec'[v] = exec[v],
             overlapped[n] \/ exec'[n] # 0
      PROVE  UpdatesTypes' /\ CopiesKept'
  <2>1. step \in Steps
    BY <1>6 DEF Steps
  <2>2. /\ update' \in [Nodes -> [Keys -> Steps]]
        /\ update'[n] = [update[n] EXCEPT ![k] = step]
        /\ \A v \in Nodes \ {n} : update'[v] = update[v]
    BY <1>6, <2>1, GoesIs
  <2>3. /\ update'[n][k] # "install"
        /\ \A l \in Keys : l # k => update'[n][l] = update[n][l]
    BY <1>2, <2>2
  <2>4. Sound(TRUE, update'[n], seen[n], exec'[n], old'[n], overlapped[n])
    BY <1>2, <1>3, <1>6, <2>3 DEF Sound
  <2>5. UpdatesTypes' /\ SoundAt(n)'
    BY <1>1, <1>4, <1>6, <2>2, <2>4 DEF UpdatesTypes, SoundAt
  <2>. QED
    BY <1>1, <1>6, <2>2, <2>5, OneNode DEF Same
<1>7. CASE exec' = [exec EXCEPT ![n] = k[2]] /\ update' = Goes(n, k, "shutdown") /\ UNCHANGED old
  BY <1>5, <1>6, <1>7 DEF UpdatesTypes
<1>8. CASE /\ Fails(n, k)
           /\ exec' = [exec EXCEPT ![n] = IF old[n] # 0 THEN old[n] ELSE exec[n]]
           /\ old' = [old EXCEPT ![n] = 0]
  <2>1. update' = Goes(n, k, "none") /\ (overlapped[n] \/ old[n] # 0)
    BY <1>2, <1>3, <1>8 DEF Fails, Sound
  <2>2. /\ exec' \in [Nodes -> Versions \cup {0}] /\ old' \in [Nodes -> Versions \cup {0}]
        /\ \A v \in Nodes \ {n} : old'[v] = old[v] /\ exec'[v] = exec[v]
        /\ overlapped[n] \/ exec'[n] # 0
    BY <1>8, <2>1 DEF UpdatesTypes
  <2>. QED
    BY <1>6, <2>1, <2>2
<1>. QED
  BY <1>7, <1>8 DEF Install

\* A process that ends, and one that begins with a program.
LEMMA ProcessKeeps ==
  ASSUME UpdatesTypes, CopiesKept, NEW n \in Nodes,
         NEW how \in {"up", "panicked", "down"}, how = "up" => exec[n] # 0,
         process' = [process EXCEPT ![n] = how],
         update' = [update EXCEPT ![n] = NoUpdates],
         seen' = seen \/ seen' = [seen EXCEPT ![n] = {}],
         UNCHANGED <<exec, old, overlapped>>
  PROVE  UpdatesTypes' /\ CopiesKept'
<1>1. UpdatesTypes'
  BY NoUpdatesType DEF UpdatesTypes
<1>2. /\ process'[n] = how /\ update'[n] = NoUpdates
      /\ \A v \in Nodes \ {n} : Same(v)
  BY DEF UpdatesTypes, Same
<1>3. IsUp(n)' => exec[n] # 0
  BY <1>2 DEF IsUp
<1>4. Sound(IsUp(n)', NoUpdates, seen'[n], exec[n], old[n], overlapped[n])
  <2>1. Sound(IsUp(n), update[n], seen[n], exec[n], old[n], overlapped[n])
    BY DEF CopiesKept, SoundAt
  <2>. QED
    BY <1>3, <2>1, SoundNone
<1>5. SoundAt(n)'
  BY <1>2, <1>4 DEF SoundAt
<1>. QED
  BY <1>1, <1>2, <1>5, OneNode

\* The process stops in order, or starts again.
LEMMA ShutdownKeeps ==
  ASSUME UpdatesTypes, CopiesKept, NEW n \in Nodes,
         \/ \E k \in Keys : ShutdownFn(n, k) \/ Exec(n, k)
         \/ WaitForShutdown(n) \/ Exit(n) \/ Crash(n) \/ Restart(n)
  PROVE  UpdatesTypes' /\ CopiesKept'
<1>. USE DEF fileVars
<1>1. ASSUME NEW how \in {"panicked", "down"}, Ends(n, how),
             UNCHANGED <<exec, old, seen, overlapped>>
      PROVE  UpdatesTypes' /\ CopiesKept'
  BY <1>1, ProcessKeeps DEF Ends
<1>2. ASSUME process[n] = "up",
             NEW how \in {"stopping", "terminating"}, process' = [process EXCEPT ![n] = how],
             UNCHANGED <<exec, old, seen, overlapped>>,
             \/ UNCHANGED update
             \/ \E k \in Keys : update[n][k] = "shutdown" /\ update' = Goes(n, k, "exec")
      PROVE  UpdatesTypes' /\ CopiesKept'
  <2>1. /\ process' \in [Nodes -> {"up", "stopping", "terminating", "panicked", "down"}]
        /\ process'[n] = how /\ \A v \in Nodes \ {n} : process'[v] = process[v]
    BY <1>2 DEF UpdatesTypes
  <2>2. /\ Sound(TRUE, update[n], seen[n], exec[n], old[n], overlapped[n])
        /\ update[n] \in [Keys -> Steps]
    BY <1>2 DEF CopiesKept, SoundAt, UpdatesTypes, IsUp
  <2>3. IsUp(n)' = TRUE
    BY <2>1 DEF IsUp
  <2>4. CASE UNCHANGED update
    <3>1. UpdatesTypes' /\ SoundAt(n)'
      BY <1>2, <2>1, <2>2, <2>3, <2>4 DEF UpdatesTypes, SoundAt
    <3>. QED
      BY <1>2, <2>1, <2>4, <3>1, OneNode DEF Same
  <2>5. ASSUME NEW k \in Keys, update[n][k] = "shutdown", update' = Goes(n, k, "exec")
        PROVE  UpdatesTypes' /\ CopiesKept'
    <3>1. /\ update' \in [Nodes -> [Keys -> Steps]]
          /\ update'[n] = [update[n] EXCEPT ![k] = "exec"]
          /\ \A v \in Nodes \ {n} : update'[v] = update[v]
      BY <2>5, GoesIs DEF Steps
    <3>2. k \in seen[n]
      BY <2>2, <2>5 DEF Sound
    <3>3. Sound(TRUE, update'[n], seen[n], exec[n], old[n], overlapped[n])
      BY <2>2, <2>5, <3>1, <3>2, NodeGoes
    <3>4. UpdatesTypes' /\ SoundAt(n)'
      BY <1>2, <2>1, <2>3, <3>1, <3>3 DEF UpdatesTypes, SoundAt
    <3>. QED
      BY <1>2, <2>1, <3>1, <3>4, OneNode DEF Same
  <2>. QED
    BY <1>2, <2>4, <2>5
<1>3. ASSUME NEW k \in Keys, ShutdownFn(n, k) PROVE UpdatesTypes' /\ CopiesKept'
  BY <1>1, <1>2, <1>3 DEF ShutdownFn, At
<1>4. ASSUME NEW k \in Keys, Exec(n, k) PROVE UpdatesTypes' /\ CopiesKept'
  <2>1. CASE /\ exec[n] # 0 /\ Boots(n)
             /\ update' = [update EXCEPT ![n] = NoUpdates]
    BY <1>4, <2>1, ProcessKeeps DEF Boots, Exec
  <2>2. CASE Ends(n, "down") /\ UNCHANGED seen
    BY <1>1, <1>4, <2>2 DEF Exec
  <2>. QED
    BY <1>4, <2>1, <2>2 DEF Exec
<1>5. CASE WaitForShutdown(n)
  BY <1>1, <1>2, <1>5 DEF WaitForShutdown
<1>6. CASE Exit(n) \/ Crash(n)
  BY <1>1, <1>6 DEF Exit, Crash
<1>7. CASE Restart(n)
  <2>1. /\ process[n] \in {"down", "panicked"} /\ exec[n] # 0 /\ Boots(n)
        /\ UNCHANGED <<exec, old, update, overlapped>>
    BY <1>7 DEF Restart
  <2>2. update[n] = NoUpdates
    <3>1. update[n] \in [Keys -> Steps] /\ \A k \in Keys : update[n][k] = "none"
      BY <2>1 DEF UpdatesTypes, CopiesKept, SoundAt, Sound, IsUp
    <3>. QED
      BY <3>1 DEF NoUpdates
  <2>3. update' = [update EXCEPT ![n] = NoUpdates]
    BY <2>1, <2>2 DEF UpdatesTypes
  <2>. QED
    BY <2>1, <2>3, ProcessKeeps DEF Boots
<1>. QED
  BY <1>3, <1>4, <1>5, <1>6, <1>7

\* Whatever fails or crashes in performUpdate, and however many updates of a node
\* are under way, there is a program or the copy of one, unless one update removed
\* the copy that another had just made; for any nodes, seeds and versions.
THEOREM RecoverableCorrect == UpdatesSpec => []Recoverable
<1>1. Seeds \subseteq Nodes /\ MaxVersion \in Nat
  BY UpdatesAssumption
<1>2. UpdatesInit => UpdatesTypes /\ CopiesKept
  <2>. SUFFICES ASSUME UpdatesInit PROVE UpdatesTypes /\ CopiesKept
    OBVIOUS
  <2>1. /\ FirstVersion \in [Nodes -> Versions] /\ 0 \notin Versions
        /\ exec = FirstVersion /\ update = [n \in Nodes |-> NoUpdates]
        /\ process = [n \in Nodes |-> "up"] /\ old = [n \in Nodes |-> 0]
        /\ seen = [n \in Nodes |-> {}] /\ overlapped = [n \in Nodes |-> FALSE]
    BY UpdatesAssumption DEF UpdatesInit, Versions
  <2>2. UpdatesTypes
    BY <2>1, NoUpdatesType DEF UpdatesTypes
  <2>3. ASSUME NEW n \in Nodes PROVE SoundAt(n)
    BY <2>1 DEF SoundAt, Sound, NoUpdates
  <2>. QED
    BY <2>2, <2>3 DEF CopiesKept
<1>3. UpdatesTypes /\ CopiesKept /\ [UpdatesNext]_updateVars => UpdatesTypes' /\ CopiesKept'
  <2>. SUFFICES ASSUME UpdatesTypes, CopiesKept, [UpdatesNext]_updateVars
                PROVE  UpdatesTypes' /\ CopiesKept'
    OBVIOUS
  <2>1. CASE UpdatesNext
    BY <1>1, <2>1, GossipKeeps, DownloadKeeps, BackUpKeeps, InstallKeeps, ShutdownKeeps
       DEF UpdatesNext, PerformUpdate
  <2>2. CASE UNCHANGED updateVars
    BY <2>2 DEF updateVars, fileVars, gossipVars, UpdatesTypes, CopiesKept, SoundAt, Sound,
       IsUp
  <2>. QED
    BY <2>1, <2>2
<1>4. CopiesKept => Recoverable
  BY DEF CopiesKept, SoundAt, Sound, Recoverable
<1>. QED
  BY <1>2, <1>3, <1>4, PTL DEF UpdatesSpec
-----------------------------------------------------------------------------
(* The census: what nodes know of each other by announcements              *)

CensusTypes ==
    /\ clock \in 0..MaxTime
    /\ announcements \in [Nodes -> SUBSET C!NodeAnnounceMsg]
    /\ \A n \in Nodes : IsFiniteSet(announcements[n])
    /\ censusLink \in [C!Links -> Seq(C!NodeAnnounceMsg)]
    /\ newest \in [Nodes -> [Nodes -> Int]]

\* What a node took last of another it still has, unless it is too old to be taken
\* now: it is enough to look at what is kept to know what came before.
NewestKept ==
    \A n, m \in Nodes :
        m # n /\ newest[n][m] # -1 /\ newest[n][m] >= clock - 1 =>
            \E ann \in announcements[n] : ann.node = m /\ ann.time = newest[n][m]

CensusInv == CensusTypes /\ NewestKept

LEMMA AnnouncementFields ==
  ASSUME NEW msg \in C!NodeAnnounceMsg
  PROVE  /\ msg.node \in Nodes /\ msg.time \in Nat /\ msg.ttl \in 1..CensusTTL
         /\ msg.time \in C!Times
BY CensusAssumption DEF C!Constants, C!NodeAnnounceMsg, C!Times

LEMMA AppendedType ==
  ASSUME NEW S, NEW q \in Seq(S), NEW x \in S
  PROVE  Append(q, x) \in Seq(S)
OBVIOUS

LEMMA SentType ==
  ASSUME NEW links \in [C!Links -> Seq(C!NodeAnnounceMsg)], NEW msg \in C!NodeAnnounceMsg,
         NEW n, NEW peers
  PROVE  C!SendTo(n, peers, msg, links) \in [C!Links -> Seq(C!NodeAnnounceMsg)]
<1>1. \A l \in C!Links : Append(links[l], msg) \in Seq(C!NodeAnnounceMsg)
  BY AppendedType
<1>. QED
  BY <1>1 DEF C!SendTo

LEMMA EmitKeeps ==
  ASSUME CensusInv, NEW n \in Nodes, C!EmitAnnouncement(n)
  PROVE  CensusInv'
<1>. DEFINE msg == [node |-> n, time |-> clock, ttl |-> CensusTTL]
<1>1. msg \in C!NodeAnnounceMsg
  BY CensusAssumption DEF C!Constants, C!NodeAnnounceMsg, C!Times, CensusInv, CensusTypes
<1>2. censusLink' = C!SendTo(n, Neighbours[n], msg, censusLink) /\ UNCHANGED <<clock, announcements>>
  BY DEF C!EmitAnnouncement
<1>3. censusLink' \in [C!Links -> Seq(C!NodeAnnounceMsg)]
  <2>. HIDE DEF msg
  <2>. QED
    BY <1>1, <1>2, SentType DEF CensusInv, CensusTypes
<1>4. newest' = [newest EXCEPT ![n][n] = clock]
  BY DEF C!EmitAnnouncement
<1>5. /\ newest' \in [Nodes -> [Nodes -> Int]]
      /\ \A v, m \in Nodes : m # v => newest'[v][m] = newest[v][m]
  BY <1>4 DEF CensusInv, CensusTypes
<1>6. CensusTypes'
  BY <1>2, <1>3, <1>5 DEF CensusInv, CensusTypes
<1>7. NewestKept'
  BY <1>2, <1>5 DEF CensusInv, NewestKept
<1>. QED
  BY <1>6, <1>7 DEF CensusInv

\* An announcement that is accepted is later than the last, and takes the place of
\* what is kept of its node.
LEMMA AcceptKeeps ==
  ASSUME CensusInv, NEW n \in Nodes, NEW msg \in C!NodeAnnounceMsg,
         C!Accepts(n, msg),
         announcements' = [announcements EXCEPT
             ![n] = (announcements[n] \ C!KeptOf(n, msg.node)) \cup {msg}],
         newest' = [newest EXCEPT ![n][msg.node] = msg.time], UNCHANGED clock,
         censusLink' \in [C!Links -> Seq(C!NodeAnnounceMsg)]
  PROVE  CensusInv' /\ \A ann \in announcements'[n] \ announcements[n] :
                           ann.time > newest[n][ann.node]
<1>1. /\ msg.node \in Nodes /\ msg.time \in Nat /\ msg.node # n /\ msg.time >= clock - 1
      /\ \A ann \in C!KeptOf(n, msg.node) : ann.time < msg.time
  BY AnnouncementFields DEF C!Accepts, C!TooOld, CensusInv, CensusTypes
<1>2. /\ announcements'[n] = (announcements[n] \ C!KeptOf(n, msg.node)) \cup {msg}
      /\ \A v \in Nodes \ {n} : announcements'[v] = announcements[v]
      /\ announcements' \in [Nodes -> SUBSET C!NodeAnnounceMsg]
  BY DEF CensusInv, CensusTypes
<1>3. /\ newest'[n][msg.node] = msg.time
      /\ \A v, m \in Nodes : v # n \/ m # msg.node => newest'[v][m] = newest[v][m]
      /\ newest' \in [Nodes -> [Nodes -> Int]]
  BY <1>1 DEF CensusInv, CensusTypes
<1>4. \A ann \in announcements[n] :
          ann \in C!KeptOf(n, msg.node) <=> ann.node = msg.node
  BY DEF C!KeptOf
<1>5. CensusTypes'
  <2>1. IsFiniteSet(announcements'[n])
    <3>1. IsFiniteSet(announcements[n] \ C!KeptOf(n, msg.node))
      BY FS_Subset DEF CensusInv, CensusTypes
    <3>. QED
      BY <1>2, <3>1, FS_AddElement
  <2>2. \A v \in Nodes : IsFiniteSet(announcements'[v])
    BY <1>2, <2>1 DEF CensusInv, CensusTypes
  <2>. QED
    BY <1>2, <1>3, <2>2 DEF CensusInv, CensusTypes
<1>6. NewestKept'
  <2>. SUFFICES ASSUME NEW v \in Nodes, NEW m \in Nodes, m # v, newest'[v][m] # -1,
                       newest'[v][m] >= clock - 1
                PROVE  \E ann \in announcements'[v] : ann.node = m /\ ann.time = newest'[v][m]
    BY DEF NewestKept
  <2>1. CASE v = n /\ m = msg.node
    BY <1>2, <1>3, <2>1
  <2>2. CASE v # n \/ m # msg.node
    <3>1. newest'[v][m] = newest[v][m]
      BY <1>3, <2>2
    <3>2. PICK ann \in announcements[v] : ann.node = m /\ ann.time = newest[v][m]
      BY <3>1 DEF CensusInv, NewestKept
    <3>3. ann \in announcements'[v]
      BY <1>2, <1>4, <2>2, <3>2
    <3>. QED
      BY <3>1, <3>2, <3>3
  <2>. QED
    BY <2>1, <2>2
<1>7. msg.time > newest[n][msg.node]
  <2>1. newest[n][msg.node] \in Int /\ clock \in Nat
    BY <1>1 DEF CensusInv, CensusTypes
  <2>2. CASE newest[n][msg.node] = -1 \/ newest[n][msg.node] < clock - 1
    BY <1>1, <2>1, <2>2
  <2>3. CASE newest[n][msg.node] # -1 /\ newest[n][msg.node] >= clock - 1
    <3>1. PICK ann \in announcements[n] : ann.node = msg.node /\ ann.time = newest[n][msg.node]
      BY <1>1, <2>3 DEF CensusInv, NewestKept
    <3>2. newest[n][msg.node] < msg.time
      BY <1>1, <1>4, <3>1
    <3>. QED
      BY <1>1, <2>1, <3>2
  <2>. QED
    BY <2>1, <2>2, <2>3
<1>. QED
  BY <1>2, <1>5, <1>6, <1>7 DEF CensusInv

LEMMA HandleKeeps ==
  ASSUME CensusInv, NEW n \in Nodes, NEW p \in Nodes,
         C!HandleNodeAnnounce(n, p)
  PROVE  CensusInv' /\ \A v \in Nodes : \A ann \in announcements'[v] \ announcements[v] :
                           ann.time > newest[v][ann.node]
<1>. DEFINE msg  == Head(censusLink[<<p, n>>])
            rest == [censusLink EXCEPT ![<<p, n>>] = Tail(censusLink[<<p, n>>])]
<1>1. /\ <<p, n>> \in C!Links /\ censusLink[<<p, n>>] # <<>> /\ clock' = clock
      /\ censusLink[<<p, n>>] \in Seq(C!NodeAnnounceMsg)
  BY DEF C!HandleNodeAnnounce, CensusInv, CensusTypes
<1>2. msg \in C!NodeAnnounceMsg /\ rest \in [C!Links -> Seq(C!NodeAnnounceMsg)]
  BY <1>1 DEF CensusInv, CensusTypes
<1>3. \/ /\ censusLink' = rest
         /\ UNCHANGED <<announcements, newest>>
      \/ /\ C!Accepts(n, msg)
         /\ announcements' = [announcements EXCEPT
                ![n] = (announcements[n] \ C!KeptOf(n, msg.node)) \cup {msg}]
         /\ newest' = [newest EXCEPT ![n][msg.node] = msg.time]
         /\ IF msg.ttl > 1
            THEN \E peers \in C!ForwardTo(n, p) :
                     censusLink' = C!SendTo(n, peers, [msg EXCEPT !.ttl = msg.ttl - 1], rest)
            ELSE censusLink' = rest
  BY DEF C!HandleNodeAnnounce
<1>. HIDE DEF msg, rest
<1>4. CASE censusLink' = rest /\ UNCHANGED <<announcements, newest>>
  BY <1>1, <1>2, <1>4 DEF CensusInv, CensusTypes, NewestKept
<1>5. CASE /\ C!Accepts(n, msg)
           /\ announcements' = [announcements EXCEPT
                  ![n] = (announcements[n] \ C!KeptOf(n, msg.node)) \cup {msg}]
           /\ newest' = [newest EXCEPT ![n][msg.node] = msg.time]
           /\ IF msg.ttl > 1
              THEN \E peers \in C!ForwardTo(n, p) :
                       censusLink' = C!SendTo(n, peers, [msg EXCEPT !.ttl = msg.ttl - 1], rest)
              ELSE censusLink' = rest
  <2>1. censusLink' \in [C!Links -> Seq(C!NodeAnnounceMsg)]
    <3>1. CASE msg.ttl > 1
      <4>. DEFINE passed == [msg EXCEPT !.ttl = msg.ttl - 1]
      <4>1. passed \in C!NodeAnnounceMsg
        BY <1>2, <3>1, AnnouncementFields, CensusAssumption DEF C!NodeAnnounceMsg, C!Constants
      <4>2. PICK peers \in C!ForwardTo(n, p) : censusLink' = C!SendTo(n, peers, passed, rest)
        BY <1>5, <3>1
      <4>. HIDE DEF passed
      <4>. QED
        BY <1>2, <4>1, <4>2, SentType
    <3>2. CASE ~(msg.ttl > 1)
      BY <1>2, <1>5, <3>2
    <3>. QED
      BY <3>1, <3>2
  <2>2. CensusInv' /\ \A ann \in announcements'[n] \ announcements[n] :
                          ann.time > newest[n][ann.node]
    BY <1>1, <1>2, <1>5, <2>1, AcceptKeeps
  <2>3. \A v \in Nodes \ {n} : announcements'[v] = announcements[v]
    BY <1>5 DEF CensusInv, CensusTypes
  <2>. QED
    BY <2>2, <2>3
<1>. QED
  BY <1>3, <1>4, <1>5

LEMMA PruneKeeps ==
  ASSUME CensusInv, NEW n \in Nodes, C!PruneStale(n)
  PROVE  CensusInv' /\ \A v \in Nodes : announcements'[v] \subseteq announcements[v]
<1>1. /\ announcements' = [announcements EXCEPT
             ![n] = {ann \in announcements[n] : ann.time >= clock - 1}]
      /\ UNCHANGED <<clock, censusLink, newest>>
  BY DEF C!PruneStale
<1>2. /\ announcements'[n] = {ann \in announcements[n] : ann.time >= clock - 1}
      /\ \A v \in Nodes \ {n} : announcements'[v] = announcements[v]
      /\ announcements' \in [Nodes -> SUBSET C!NodeAnnounceMsg]
  BY <1>1 DEF CensusInv, CensusTypes
<1>3. \A v \in Nodes : announcements'[v] \subseteq announcements[v]
  BY <1>2
<1>4. \A v \in Nodes : IsFiniteSet(announcements'[v])
  BY <1>3, FS_Subset DEF CensusInv, CensusTypes
<1>5. CensusTypes'
  BY <1>1, <1>2, <1>4 DEF CensusInv, CensusTypes
<1>6. NewestKept'
  BY <1>1, <1>2 DEF CensusInv, NewestKept
<1>. QED
  BY <1>3, <1>5, <1>6 DEF CensusInv

LEMMA MeetKeeps ==
  ASSUME CensusInv, NEW n \in Nodes, NEW p \in Nodes, C!Meet(n, p)
  PROVE  CensusInv' /\ UNCHANGED announcements
<1>1. ASSUME NEW S \in SUBSET C!NodeAnnounceMsg, IsFiniteSet(S), NEW order \in C!SetToSeqs(S)
      PROVE  order \in Seq(C!NodeAnnounceMsg)
  <2>1. C!Cardinality(S) = Cardinality(S)
    BY DEF C!Cardinality, Cardinality
  <2>2. C!Cardinality(S) \in Nat
    BY <1>1, <2>1, FS_CardinalityType
  <2>3. order \in [1..C!Cardinality(S) -> S]
    BY DEF C!SetToSeqs
  <2>. QED
    BY <2>2, <2>3
<1>2. PICK mine \in C!SetToSeqs(announcements[n]), theirs \in C!SetToSeqs(announcements[p]) :
          censusLink' = [censusLink EXCEPT ![<<n, p>>] = mine, ![<<p, n>>] = theirs]
  BY DEF C!Meet
<1>3. mine \in Seq(C!NodeAnnounceMsg) /\ theirs \in Seq(C!NodeAnnounceMsg)
  BY <1>1, <1>2 DEF CensusInv, CensusTypes
<1>4. censusLink' \in [C!Links -> Seq(C!NodeAnnounceMsg)]
  BY <1>2, <1>3 DEF CensusInv, CensusTypes
<1>5. UNCHANGED <<clock, announcements, newest>>
  BY DEF C!Meet
<1>6. CensusTypes'
  BY <1>4, <1>5 DEF CensusInv, CensusTypes
<1>7. NewestKept'
  BY <1>5 DEF CensusInv, NewestKept
<1>. QED
  BY <1>5, <1>6, <1>7 DEF CensusInv

\* What a node knows of another never goes back, for any nodes, connections and
\* limits.  That what was known is remembered is not needed for it: the age limit
\* and what is kept suffice.
THEOREM NeverRevivedCorrect == C!Spec => NeverRevived
<1>. DEFINE Later ==
         \A n \in Nodes : \A ann \in announcements'[n] \ announcements[n] :
             ann.time > newest[n][ann.node]
<1>1. C!Init => CensusInv
  BY FS_EmptySet, CensusAssumption DEF C!Constants, C!Init, CensusInv, CensusTypes, NewestKept
<1>2. CensusInv /\ [C!Next]_(C!vars) => CensusInv' /\ Later
  <2>. SUFFICES ASSUME CensusInv, [C!Next]_(C!vars) PROVE CensusInv' /\ Later
    OBVIOUS
  <2>1. ASSUME C!Tick PROVE CensusInv' /\ UNCHANGED announcements
    <3>1. /\ clock < MaxTime /\ clock' = clock + 1
          /\ UNCHANGED <<announcements, censusLink, newest>>
      BY <2>1 DEF C!Tick
    <3>2. MaxTime \in Nat /\ clock' \in 0..MaxTime
      BY <3>1, CensusAssumption DEF C!Constants, CensusInv, CensusTypes
    <3>3. CensusTypes'
      BY <3>1, <3>2 DEF CensusInv, CensusTypes
    <3>4. NewestKept'
      <4>1. clock \in Nat /\ \A n, m \in Nodes : newest[n][m] \in Int
        BY DEF CensusInv, CensusTypes
      <4>2. \A n, m \in Nodes : newest[n][m] >= clock' - 1 => newest[n][m] >= clock - 1
        BY <3>1, <4>1
      <4>. QED
        BY <3>1, <4>2 DEF CensusInv, NewestKept
    <3>. QED
      BY <3>1, <3>3, <3>4 DEF CensusInv
  <2>2. ASSUME NEW n \in Nodes, C!EmitAnnouncement(n)
        PROVE  CensusInv' /\ UNCHANGED <<clock, announcements>>
    BY <2>2, EmitKeeps DEF C!EmitAnnouncement
  <2>3. ASSUME NEW n \in Nodes, C!PruneStale(n)
        PROVE  /\ CensusInv' /\ UNCHANGED clock
               /\ \A v \in Nodes : announcements'[v] \subseteq announcements[v]
    BY <2>3, PruneKeeps DEF C!PruneStale
  <2>4. ASSUME NEW n \in Nodes, NEW p \in Nodes, C!HandleNodeAnnounce(n, p)
        PROVE  /\ CensusInv' /\ UNCHANGED clock
               /\ \A v \in Nodes : \A ann \in announcements'[v] \ announcements[v] :
                      ann.time > newest[v][ann.node]
    BY <2>4, HandleKeeps DEF C!HandleNodeAnnounce
  <2>5. ASSUME NEW n \in Nodes, NEW p \in Nodes, C!Meet(n, p)
        PROVE  CensusInv' /\ UNCHANGED <<clock, announcements>>
    BY <2>5, MeetKeeps DEF C!Meet
  <2>6. CASE UNCHANGED C!vars
    BY <2>6 DEF C!vars, CensusInv, CensusTypes, NewestKept
  <2>. QED
    BY <2>1, <2>2, <2>3, <2>4, <2>5, <2>6 DEF C!Next
<1>. QED
  BY <1>1, <1>2, PTL DEF C!Spec, NeverRevived, C!NeverRevived
=============================================================================
