---------------------------- MODULE MiningProofs ----------------------------
(***************************************************************************)
(* Proofs about Mining and MinerPool, for every set of transactions,       *)
(* blocks, rounds, threads, clients and shares: the types, why a round     *)
(* that mines a stale block has a cause, that what the stand-alone miner   *)
(* submits on the tip was not mined before, that the miner's own pool      *)
(* credits no more than its blocks pay, and that its clients mine the      *)
(* current job.                                                            *)
(***************************************************************************)
EXTENDS Mining, MinerPool, SumsProofs


\* The chain after the steps that change it.
LEMMA Extended ==
  ASSUME TypeOK, NEW s \in SUBSET Txs, Append1(s)
  PROVE  /\ made < MaxBlocks /\ made' = made + 1
         /\ chain' \in Seq(Block) /\ Tip' = made + 1
         /\ TxsOf(chain') = TxsOf(chain) \cup s
         /\ pending' = pending \ s
         /\ Len(chain) \in Nat /\ Len(chain') = Len(chain) + 1
<1>. DEFINE b == [id |-> made + 1, txs |-> s]
            n == Len(chain)
<1>1. /\ made < MaxBlocks /\ made' = made + 1 /\ chain' = Append(chain, b)
      /\ pending' = pending \ s
  BY DEF Append1
<1>2. made \in 0..MaxBlocks /\ MaxBlocks \in Nat /\ chain \in Seq(Block)
  BY BoundsAssumption DEF TypeOK
<1>3. b \in Block /\ b.txs = s /\ b.id = made + 1
  BY <1>1, <1>2 DEF Block
<1>. HIDE DEF b
<1>4. /\ n \in Nat /\ DOMAIN chain = 1..n
      /\ chain' \in Seq(Block) /\ Len(chain') = n + 1 /\ DOMAIN chain' = 1..(n + 1)
      /\ \A i \in 1..n : chain'[i] = chain[i]
      /\ chain'[n + 1] = b
  BY <1>1, <1>2, <1>3, LenProperties, AppendProperties
<1>. HIDE DEF n
<1>5. Tip' = made + 1
  <2>1. chain' # <<>>
    BY <1>4, EmptySeq
  <2>. QED
    BY <1>3, <1>4, <2>1 DEF Tip
<1>6. TxsOf(chain') = TxsOf(chain) \cup s
  <2>1. ASSUME NEW t \in TxsOf(chain') PROVE t \in TxsOf(chain) \cup s
    <3>1. PICK i \in 1..(n + 1) : t \in chain'[i].txs
      BY <1>4 DEF TxsOf
    <3>2. CASE i \in 1..n
      BY <1>4, <3>1, <3>2 DEF TxsOf
    <3>3. CASE i = n + 1
      BY <1>3, <1>4, <3>1, <3>3
    <3>. QED
      BY <1>4, <3>2, <3>3
  <2>2. ASSUME NEW t \in TxsOf(chain) PROVE t \in TxsOf(chain')
    <3>1. PICK i \in 1..n : t \in chain[i].txs
      BY <1>4 DEF TxsOf
    <3>2. i \in DOMAIN chain' /\ chain'[i] = chain[i]
      BY <1>4
    <3>. QED
      BY <3>1, <3>2 DEF TxsOf
  <2>3. s \subseteq TxsOf(chain')
    <3>1. n + 1 \in DOMAIN chain' /\ chain'[n + 1].txs = s
      BY <1>3, <1>4
    <3>. QED
      BY <3>1 DEF TxsOf
  <2>. QED
    BY <2>1, <2>2, <2>3
<1>. QED
  BY <1>1, <1>4, <1>5, <1>6 DEF n

LEMMA Reorganised ==
  ASSUME TypeOK, NEW s \in SUBSET Txs, AttemptReorg(s)
  PROVE  /\ made < MaxBlocks /\ made' = made + 1
         /\ chain' \in Seq(Block) /\ Tip' = made + 1
         /\ TxsOf(chain') \subseteq TxsOf(chain) \cup s
         /\ pending' = pending \ s
         /\ Len(chain) \in Nat /\ Len(chain') = Len(chain)
<1>. DEFINE kept == SubSeq(chain, 1, Len(chain) - 1)
            b == [id |-> made + 1, txs |-> s]
            n == Len(kept)
<1>1. /\ made < MaxBlocks /\ made' = made + 1 /\ chain' = Append(kept, b)
      /\ pending' = pending \ s /\ chain # <<>>
  BY DEF AttemptReorg
<1>2. made \in 0..MaxBlocks /\ MaxBlocks \in Nat /\ chain \in Seq(Block)
  BY BoundsAssumption DEF TypeOK
<1>3. b \in Block /\ b.txs = s /\ b.id = made + 1
  BY <1>1, <1>2 DEF Block
<1>4. Len(chain) \in Nat /\ Len(chain) > 0 /\ DOMAIN chain = 1..Len(chain)
  BY <1>1, <1>2, LenProperties, EmptySeq
<1>5. /\ kept \in Seq(Block) /\ n = Len(chain) - 1
      /\ \A i \in 1..n : kept[i] = chain[i]
  <2>1. 1 \in 1..(Len(chain) + 1) /\ Len(chain) - 1 \in (1 - 1)..Len(chain)
    BY <1>4
  <2>. QED
    BY <1>2, <1>4, <2>1, SubSeqProperties
<1>. HIDE DEF b, kept
<1>6. /\ n \in Nat
      /\ chain' \in Seq(Block) /\ Len(chain') = n + 1 /\ DOMAIN chain' = 1..(n + 1)
      /\ \A i \in 1..n : chain'[i] = kept[i]
      /\ chain'[n + 1] = b
  BY <1>1, <1>3, <1>5, LenProperties, AppendProperties
<1>. HIDE DEF n
<1>7. Tip' = made + 1
  <2>1. chain' # <<>>
    BY <1>6, EmptySeq
  <2>. QED
    BY <1>3, <1>6, <2>1 DEF Tip
<1>8. ASSUME NEW t \in TxsOf(chain') PROVE t \in TxsOf(chain) \cup s
  <2>1. PICK i \in 1..(n + 1) : t \in chain'[i].txs
    BY <1>6 DEF TxsOf
  <2>2. CASE i \in 1..n
    <3>1. i \in DOMAIN chain /\ chain'[i] = chain[i]
      BY <1>4, <1>5, <1>6, <2>2
    <3>. QED
      BY <2>1, <3>1 DEF TxsOf
  <2>3. CASE i = n + 1
    BY <1>3, <1>6, <2>1, <2>3
  <2>. QED
    BY <1>6, <2>2, <2>3
<1>9. TxsOf(chain') \subseteq TxsOf(chain) \cup s
  BY <1>8
<1>10. Len(chain') = Len(chain)
  BY <1>4, <1>5, <1>6
<1>. QED
  BY <1>1, <1>4, <1>6, <1>7, <1>9, <1>10

LEMMA SpawnType ==
  ASSUME TypeOK, SpawnRound
  PROVE  /\ round' \in [Rounds -> {"idle", "ready", "started", "mining", "over"}]
         /\ \A w \in Rounds : round'[w] # round[w] => round[w] = "idle" /\ round'[w] = "ready"
BY DEF TypeOK, SpawnRound, Rounds

LEMMA CancelType ==
  ASSUME TypeOK, CancelMining
  PROVE  cancel' \in Rounds \cup {"nil"} /\ closed' \in [Rounds -> BOOLEAN]
BY DEF TypeOK, CancelMining

\* The height of the chain stays within the blocks that were made.
TypeInv == TypeOK /\ Len(chain) <= made

LEMMA TipType ==
  ASSUME TypeOK
  PROVE  Tip \in 0..MaxBlocks
<1>1. MaxBlocks \in Nat /\ chain \in Seq(Block)
  BY BoundsAssumption DEF TypeOK
<1>2. CASE chain = <<>>
  BY <1>1, <1>2 DEF Tip
<1>3. CASE chain # <<>>
  <2>1. Len(chain) \in 1..Len(chain)
    BY <1>1, <1>3, LenProperties, EmptySeq
  <2>2. chain[Len(chain)] \in Block
    BY <1>1, <2>1, ElementOfSeq
  <2>. QED
    BY <1>1, <1>3, <2>2 DEF Tip, Block
<1>. QED
  BY <1>2, <1>3

LEMMA TypeInit == Init => TypeInv
<1>. SUFFICES ASSUME Init PROVE TypeInv
  OBVIOUS
<1>1. /\ MaxBlocks \in Nat /\ MaxReorgs \in Nat /\ 0 \in 0..MaxBlocks /\ 0 \in 0..MaxReorgs
      /\ <<>> \in Seq(Block) /\ NoWork \in Work
  <2>1. <<>> \in Seq(Block)
    BY EmptySeq, Zenon
  <2>. QED
    BY <2>1, BoundsAssumption DEF NoWork, Work
<1>2. /\ round \in [Rounds -> {"idle", "ready", "started", "mining", "over"}]
      /\ work \in [Rounds -> Work] /\ closed \in [Rounds -> BOOLEAN]
      /\ searcher \in [Searchers -> {"off", "search", "found", "sent", "closed", "gone"}]
  BY <1>1 DEF Init
<1>3. template \in [height : 0..MaxBlocks, prev : 0..MaxBlocks]
  BY <1>1 DEF Init
<1>4. TypeOK
  BY <1>1, <1>2, <1>3 DEF Init, TypeOK
<1>. QED
  BY <1>1, <1>4, EmptySeq DEF Init, TypeInv

\* The steps of the node.
LEMMA TypeNode ==
  ASSUME TypeInv,
         \/ \E t \in Txs : SubmitTx(t)
         \/ \E s \in SUBSET Txs : AddBlock(s) \/ HandleBlocks(s) \/ AttemptReorg(s)
         \/ AddBlockFails \/ StopAutoMining \/ AutoMining
         \/ \E w \in Rounds : Cancelled(w) \/ FindsNonce(w)
  PROVE  TypeInv'
<1>. USE DEF minerVars
<1>0. /\ made \in 0..MaxBlocks /\ MaxBlocks \in Nat /\ reorgs \in 0..MaxReorgs /\ MaxReorgs \in Nat
      /\ pending \subseteq Txs /\ unseen \subseteq Rounds
      /\ round \in [Rounds -> {"idle", "ready", "started", "mining", "over"}]
      /\ work \in [Rounds -> Work] /\ closed \in [Rounds -> BOOLEAN]
      /\ "loop" \in Rounds /\ Searching \subseteq Rounds
      /\ TypeOK /\ Len(chain) \in Nat /\ Len(chain) <= made
  BY BoundsAssumption, LenProperties DEF TypeInv, TypeOK, Rounds, Searching
<1>1. ASSUME NEW t \in Txs, SubmitTx(t) PROVE TypeInv'
  BY <1>0, <1>1 DEF SubmitTx, TypeInv, TypeOK
<1>2. ASSUME NEW s \in SUBSET Txs, AddBlock(s) PROVE TypeInv'
  <2>1. /\ Append1(s) /\ CancelMining /\ SpawnRound
        /\ UNCHANGED <<reorgs, enabled, isMining, work, unseen, minerVars>>
    BY <1>2 DEF AddBlock
  <2>2. /\ chain' \in Seq(Block) /\ made' \in 0..MaxBlocks /\ pending' \subseteq Txs
        /\ Len(chain') <= made'
    BY <1>0, <2>1, Extended
  <2>. QED
    BY <1>0, <2>1, <2>2, SpawnType, CancelType DEF TypeInv, TypeOK
<1>3. ASSUME NEW s \in SUBSET Txs, HandleBlocks(s) PROVE TypeInv'
  <2>1. /\ Append1(s) /\ unseen' \subseteq Rounds
        /\ UNCHANGED <<reorgs, enabled, isMining, cancel, round, work, closed, minerVars>>
    BY <1>0, <1>3 DEF HandleBlocks
  <2>2. /\ chain' \in Seq(Block) /\ made' \in 0..MaxBlocks /\ pending' \subseteq Txs
        /\ Len(chain') <= made'
    BY <1>0, <2>1, Extended
  <2>. QED
    BY <1>0, <2>1, <2>2 DEF TypeInv, TypeOK
<1>4. ASSUME NEW s \in SUBSET Txs, AttemptReorg(s) PROVE TypeInv'
  <2>1. /\ unseen' \subseteq Rounds /\ reorgs' \in 0..MaxReorgs
        /\ UNCHANGED <<enabled, isMining, cancel, round, work, closed, minerVars>>
    BY <1>0, <1>4 DEF AttemptReorg
  <2>2. /\ chain' \in Seq(Block) /\ made' \in 0..MaxBlocks /\ pending' \subseteq Txs
        /\ Len(chain') <= made'
    BY <1>0, <1>4, Reorganised
  <2>. QED
    BY <1>0, <2>1, <2>2 DEF TypeInv, TypeOK
<1>5. CASE AddBlockFails
  <2>1. made' \in 0..MaxBlocks /\ made' >= made /\ chain' = chain
    BY <1>0, <1>5 DEF AddBlockFails
  <2>2. CancelMining
    BY <1>5 DEF AddBlockFails
  <2>. QED
    BY <1>0, <1>5, <2>1, <2>2, CancelType DEF AddBlockFails, TypeInv, TypeOK
<1>6. CASE StopAutoMining
  <2>1. CancelMining
    BY <1>6 DEF StopAutoMining
  <2>. QED
    BY <1>0, <1>6, <2>1, CancelType DEF StopAutoMining, TypeInv, TypeOK
<1>7. CASE LoopWakes
  BY <1>0, <1>7 DEF LoopWakes, TypeInv, TypeOK
<1>8. ASSUME NEW w \in Rounds, StartMiningRound(w) PROVE TypeInv'
  BY <1>0, <1>8 DEF StartMiningRound, TypeInv, TypeOK
<1>9. ASSUME NEW w \in Rounds, TakeWork(w) PROVE TypeInv'
  <2>1. [prev |-> Tip, txs |-> pending] \in Work
    BY <1>0, TipType DEF Work
  <2>. QED
    BY <1>0, <1>9, <2>1 DEF TakeWork, TypeInv, TypeOK
<1>10. ASSUME NEW w \in Rounds, Cancelled(w) PROVE TypeInv'
  <2>1. NoWork \in Work
    BY <1>0 DEF NoWork, Work
  <2>. QED
    BY <1>0, <1>10, <2>1 DEF Cancelled, TypeInv, TypeOK
<1>11. ASSUME NEW w \in Rounds, FindsNonce(w) PROVE TypeInv'
  <2>1. NoWork \in Work /\ work[w].txs \in SUBSET Txs
    BY <1>0 DEF NoWork, Work
  <2>2. /\ chain' \in Seq(Block) /\ made' \in 0..MaxBlocks /\ pending' \subseteq Txs
        /\ Len(chain') <= made'
    <3>1. CASE Append1(work[w].txs)
      BY <1>0, <2>1, <3>1, Extended
    <3>2. CASE UNCHANGED <<chain, made, pending>>
      BY <1>0, <3>2 DEF TypeOK
    <3>. QED
      BY <1>11, <3>1, <3>2 DEF FindsNonce
  <2>3. /\ round' \in [Rounds -> {"idle", "ready", "started", "mining", "over"}]
        /\ work' \in [Rounds -> Work] /\ unseen' \subseteq Rounds
    BY <1>0, <1>11, <2>1 DEF FindsNonce
  <2>. QED
    BY <1>0, <1>11, <2>2, <2>3 DEF FindsNonce, TypeInv, TypeOK
<1>12. ASSUME NEW w \in Rounds, RoundOver(w) PROVE TypeInv'
  BY <1>0, <1>12 DEF RoundOver, TypeInv, TypeOK
<1>. QED
  BY <1>1, <1>2, <1>3, <1>4, <1>5, <1>6, <1>7, <1>8, <1>9, <1>10, <1>11, <1>12 DEF AutoMining

\* The steps of the stand-alone miner.
LEMMA TypeMiner ==
  ASSUME TypeInv,
         \/ Stop \/ MainLoop \/ ChainAdvanced
         \/ \E s \in Searchers : SearcherEnds(s)
         \/ \E t \in Threads : Finds(t)
  PROVE  TypeInv'
<1>. USE DEF nodeVars
<1>0. /\ made \in 0..MaxBlocks /\ MaxBlocks \in Nat /\ pending \subseteq Txs /\ txs \subseteq Txs
      /\ template \in [height : 0..MaxBlocks, prev : 0..MaxBlocks]
      /\ searcher \in [Searchers -> {"off", "search", "found", "sent", "closed", "gone"}]
      /\ "checker" \in Searchers /\ Threads \subseteq Searchers
      /\ \A s \in Searchers : s = "checker" \/ s \in Threads
      /\ unseen \subseteq Rounds /\ Searching \subseteq Rounds
      /\ TypeOK /\ Len(chain) \in Nat /\ Len(chain) <= made
  BY BoundsAssumption, LenProperties DEF TypeInv, TypeOK, Searchers, Searching
<1>1. CASE Stop
  BY <1>0, <1>1 DEF Stop, TypeInv, TypeOK
<1>2. CASE StopSeen
  BY <1>0, <1>2 DEF StopSeen, TypeInv, TypeOK
<1>3. CASE GetHeight
  <2>1. Len(chain) \in 0..MaxBlocks
    BY <1>0
  <2>2. template' \in [height : 0..MaxBlocks, prev : 0..MaxBlocks]
    BY <1>0, <1>3, <2>1 DEF GetHeight
  <2>. QED
    BY <1>0, <1>3, <2>2 DEF GetHeight, TypeInv, TypeOK
<1>4. CASE GetHash
  <2>1. template' \in [height : 0..MaxBlocks, prev : 0..MaxBlocks]
    BY <1>0, <1>4, TipType DEF GetHash
  <2>. QED
    BY <1>0, <1>4, <2>1 DEF GetHash, TypeInv, TypeOK
<1>5. CASE GetPendingTransactions
  <2>1. txs' \subseteq Txs
    BY <1>0, <1>5 DEF GetPendingTransactions
  <2>. QED
    BY <1>0, <1>5, <2>1 DEF GetPendingTransactions, TypeInv, TypeOK
<1>6. CASE TakeResult
  BY <1>0, <1>6 DEF TakeResult, TypeInv, TypeOK
<1>7. CASE StopMining
  BY <1>0, <1>7 DEF StopMining, CloseCancel, TypeInv, TypeOK
<1>8. CASE AllReturned
  BY <1>0, <1>8 DEF AllReturned, TypeInv, TypeOK
<1>9. CASE HandleBlockSubmit
  <2>1. /\ chain' \in Seq(Block) /\ made' \in 0..MaxBlocks /\ pending' \subseteq Txs
        /\ Len(chain') <= made'
    <3>1. CASE Append1(txs)
      BY <1>0, <3>1, Extended
    <3>2. CASE UNCHANGED <<chain, made, pending>>
      BY <1>0, <3>2 DEF TypeOK
    <3>. QED
      BY <1>9, <3>1, <3>2 DEF HandleBlockSubmit
  <2>2. /\ unseen' \subseteq Rounds /\ txs' \subseteq Txs
        /\ template' \in [height : 0..MaxBlocks, prev : 0..MaxBlocks]
    BY <1>0, <1>9 DEF HandleBlockSubmit
  <2>. QED
    BY <1>0, <1>9, <2>1, <2>2 DEF HandleBlockSubmit, TypeInv, TypeOK
<1>10. ASSUME NEW s \in Searchers, Returns(s) PROVE TypeInv'
  BY <1>0, <1>10 DEF Returns, TypeInv, TypeOK
<1>11. ASSUME NEW s \in Searchers, Sends(s) PROVE TypeInv'
  BY <1>0, <1>11 DEF Sends, TypeInv, TypeOK
<1>12. ASSUME NEW s \in Searchers, Closes(s) PROVE TypeInv'
  BY <1>0, <1>12 DEF Closes, CloseCancel, TypeInv, TypeOK
<1>13. ASSUME NEW t \in Threads, Finds(t) PROVE TypeInv'
  BY <1>0, <1>13 DEF Finds, TypeInv, TypeOK
<1>14. CASE ChainAdvanced
  BY <1>0, <1>14 DEF ChainAdvanced, TypeInv, TypeOK
<1>. QED
  BY <1>1, <1>2, <1>3, <1>4, <1>5, <1>6, <1>7, <1>8, <1>9, <1>10, <1>11, <1>12, <1>13, <1>14
     DEF MainLoop, SearcherEnds

LEMMA TypeNext == TypeInv /\ [Next]_vars => TypeInv'
<1>1. ASSUME TypeInv, UNCHANGED vars PROVE TypeInv'
  BY <1>1 DEF vars, nodeVars, minerVars, TypeInv, TypeOK
<1>. QED
  BY <1>1, TypeNode, TypeMiner DEF Next

LEMMA TypeAlways == Spec => []TypeInv
BY TypeInit, TypeNext, PTL DEF Spec
-----------------------------------------------------------------------------
(* The rounds of the node                                                  *)

\* The rounds between startMiningRound's two uses of miningMutex.
Busy == {w \in Rounds : round[w] \in {"started", "mining", "over"}}

\* isMining lets at most one round in, and miningCancel reaches it unless its
\* channel is closed already.
OneRound ==
    /\ \A v, w \in Busy : v = w
    /\ isMining <=> Busy # {}
    /\ \A w \in Busy : closed[w] \/ cancel = w

StaleInv == TypeOK /\ OneRound /\ StaleRoundHasCause

LEMMA CancelReaches ==
  ASSUME TypeOK, OneRound, CancelMining
  PROVE  \A w \in Busy : closed'[w]
<1>. SUFFICES ASSUME NEW w \in Busy PROVE closed'[w]
  OBVIOUS
<1>1. isMining /\ w \in Rounds /\ closed \in [Rounds -> BOOLEAN] /\ (closed[w] \/ cancel = w)
  BY DEF OneRound, TypeOK, Busy
<1>2. w # "nil"
  BY <1>1, NamesAssumption DEF Rounds
<1>3. CASE closed[w]
  BY <1>1, <1>3 DEF CancelMining
<1>4. CASE cancel = w
  BY <1>1, <1>2, <1>4 DEF CancelMining
<1>. QED
  BY <1>1, <1>3, <1>4

LEMMA SameBusy ==
  ASSUME \A w \in Rounds : round'[w] \in {"started", "mining", "over"}
                             <=> round[w] \in {"started", "mining", "over"}
  PROVE  Busy' = Busy
BY DEF Busy, Rounds

LEMMA StaleInit == Init => StaleInv
<1>. SUFFICES ASSUME Init PROVE StaleInv
  OBVIOUS
<1>1. Busy = {} /\ \A w \in Rounds : round[w] = "idle"
  BY DEF Init, Busy
<1>2. OneRound
  BY <1>1 DEF Init, OneRound
<1>3. StaleRoundHasCause
  BY <1>1 DEF StaleRoundHasCause
<1>. QED
  BY <1>2, <1>3, TypeInit DEF TypeInv, StaleInv

\* A block that arrives while cancelMining has, or has not, been called.
LEMMA StaleArrival ==
  ASSUME StaleInv,
         \/ \E s \in SUBSET Txs : AddBlock(s) \/ HandleBlocks(s) \/ AttemptReorg(s)
         \/ AddBlockFails \/ HandleBlockSubmit
  PROVE  OneRound' /\ StaleRoundHasCause'
<1>0. TypeOK /\ OneRound /\ StaleRoundHasCause
  BY DEF StaleInv
<1>1. ASSUME UNCHANGED <<round, isMining, cancel, closed, work>>,
             unseen' = unseen \cup Searching
      PROVE  OneRound' /\ StaleRoundHasCause'
  <2>1. Busy' = Busy
    BY <1>1, SameBusy
  <2>2. OneRound'
    BY <1>0, <1>1, <2>1 DEF OneRound
  <2>3. StaleRoundHasCause'
    BY <1>1 DEF StaleRoundHasCause, Searching, Rounds
  <2>. QED
    BY <2>2, <2>3
<1>2. ASSUME CancelMining, UNCHANGED <<work, isMining>>, SpawnRound \/ UNCHANGED round
      PROVE  OneRound' /\ StaleRoundHasCause'
  <2>1. \A w \in Rounds : round'[w] # round[w] => round[w] = "idle" /\ round'[w] = "ready"
    BY <1>0, <1>2, SpawnType
  <2>2. Busy' = Busy
    BY <2>1, SameBusy
  <2>3. \A w \in Busy : closed'[w]
    BY <1>0, <1>2, CancelReaches
  <2>4. OneRound'
    BY <1>0, <1>2, <2>2, <2>3 DEF OneRound
  <2>5. \A w \in Rounds' : round'[w] = "mining" => closed'[w]
    BY <2>2, <2>3 DEF Busy, Rounds
  <2>. QED
    BY <2>4, <2>5 DEF StaleRoundHasCause
<1>3. ASSUME NEW s \in SUBSET Txs, AddBlock(s) PROVE OneRound' /\ StaleRoundHasCause'
  BY <1>2, <1>3 DEF AddBlock
<1>4. ASSUME NEW s \in SUBSET Txs, HandleBlocks(s) PROVE OneRound' /\ StaleRoundHasCause'
  BY <1>1, <1>4 DEF HandleBlocks
<1>5. ASSUME NEW s \in SUBSET Txs, AttemptReorg(s) PROVE OneRound' /\ StaleRoundHasCause'
  BY <1>1, <1>5 DEF AttemptReorg
<1>6. CASE AddBlockFails
  BY <1>2, <1>6 DEF AddBlockFails
<1>7. CASE HandleBlockSubmit
  <2>1. UNCHANGED <<round, isMining, cancel, closed, work>>
    BY <1>7 DEF HandleBlockSubmit
  <2>2. CASE unseen' = unseen \cup Searching
    BY <1>1, <2>1, <2>2
  <2>3. CASE UNCHANGED <<chain, unseen>>
    <3>1. Busy' = Busy /\ Tip' = Tip
      BY <2>1, <2>3, SameBusy DEF Tip
    <3>. QED
      BY <1>0, <2>1, <2>3, <3>1 DEF OneRound, StaleRoundHasCause
  <2>. QED
    BY <1>7, <2>2, <2>3 DEF HandleBlockSubmit
<1>. QED
  BY <1>3, <1>4, <1>5, <1>6, <1>7

\* What a round does itself.  No other round is busy then.
LEMMA StaleRound ==
  ASSUME StaleInv, NEW w \in Rounds,
         StartMiningRound(w) \/ TakeWork(w) \/ Cancelled(w) \/ FindsNonce(w) \/ RoundOver(w)
  PROVE  OneRound' /\ StaleRoundHasCause'
<1>0. /\ TypeOK /\ OneRound /\ StaleRoundHasCause
      /\ round \in [Rounds -> {"idle", "ready", "started", "mining", "over"}]
      /\ work \in [Rounds -> Work] /\ closed \in [Rounds -> BOOLEAN]
  BY DEF StaleInv, TypeOK
<1>1. ASSUME NEW v \in Rounds, v # w, round[w] \in {"started", "mining", "over"}
      PROVE  round[v] \notin {"started", "mining", "over"}
  BY <1>0, <1>1 DEF OneRound, Busy
<1>2. CASE StartMiningRound(w) /\ round'[w] = "started"
  <2>1. /\ ~isMining /\ isMining' /\ cancel' = w /\ round' = [round EXCEPT ![w] = "started"]
        /\ UNCHANGED <<work, unseen>>
    BY <1>0, <1>2 DEF StartMiningRound
  <2>2. Busy = {}
    BY <1>0, <2>1 DEF OneRound
  <2>3. \A v \in Rounds : v # w => round'[v] = round[v]
    BY <1>0, <2>1
  <2>4. \A v \in Rounds : v # w => round'[v] \notin {"started", "mining", "over"}
    BY <2>2, <2>3 DEF Busy
  <2>5. Busy' = {w}
    BY <1>2, <2>4 DEF Busy, Rounds
  <2>6. OneRound'
    BY <2>1, <2>5 DEF OneRound
  <2>7. \A v \in Rounds' : round'[v] # "mining"
    BY <1>2, <2>4 DEF Rounds
  <2>. QED
    BY <2>6, <2>7 DEF StaleRoundHasCause
<1>3. CASE StartMiningRound(w) /\ round'[w] # "started"
  <2>1. round[w] = "ready" /\ round' = [round EXCEPT ![w] = "idle"]
        /\ UNCHANGED <<isMining, cancel, closed, chain, work, unseen>>
    BY <1>0, <1>3 DEF StartMiningRound
  <2>2. Busy' = Busy /\ Tip' = Tip
    BY <1>0, <2>1, SameBusy DEF Tip
  <2>3. OneRound'
    BY <1>0, <2>1, <2>2 DEF OneRound
  <2>4. StaleRoundHasCause'
    BY <1>0, <2>1, <2>2 DEF StaleRoundHasCause, Rounds
  <2>. QED
    BY <2>3, <2>4
<1>4. CASE TakeWork(w)
  <2>1. /\ round[w] = "started" /\ round' = [round EXCEPT ![w] = "mining"]
        /\ work' = [work EXCEPT ![w] = [prev |-> Tip, txs |-> pending]]
        /\ UNCHANGED <<isMining, cancel, closed, chain, unseen>>
    BY <1>4 DEF TakeWork
  <2>2. Busy' = Busy /\ Tip' = Tip
    BY <1>0, <2>1, SameBusy DEF Tip
  <2>3. OneRound'
    BY <1>0, <2>1, <2>2 DEF OneRound
  <2>4. work'[w].prev = Tip
    BY <1>0, <2>1
  <2>5. \A v \in Rounds : v # w => round'[v] # "mining"
    BY <1>0, <1>1, <2>1
  <2>6. StaleRoundHasCause'
    BY <2>2, <2>4, <2>5 DEF StaleRoundHasCause, Rounds
  <2>. QED
    BY <2>3, <2>6
<1>5. CASE Cancelled(w) \/ FindsNonce(w)
  <2>1. /\ round[w] = "mining" /\ round' = [round EXCEPT ![w] = "over"]
        /\ UNCHANGED <<isMining, cancel, closed>>
    BY <1>5 DEF Cancelled, FindsNonce
  <2>2. Busy' = Busy
    BY <1>0, <2>1, SameBusy
  <2>3. OneRound'
    BY <1>0, <2>1, <2>2 DEF OneRound
  <2>4. \A v \in Rounds' : round'[v] # "mining"
    BY <1>0, <1>1, <2>1 DEF Rounds
  <2>. QED
    BY <2>3, <2>4 DEF StaleRoundHasCause
<1>6. CASE RoundOver(w)
  <2>1. round[w] = "over" /\ round' = [round EXCEPT ![w] = "idle"] /\ ~isMining'
    BY <1>6 DEF RoundOver
  <2>2. \A v \in Rounds : round'[v] \notin {"started", "mining", "over"}
    BY <1>0, <1>1, <2>1
  <2>3. Busy' = {}
    BY <2>2 DEF Busy, Rounds
  <2>4. OneRound'
    BY <2>1, <2>3 DEF OneRound
  <2>5. \A v \in Rounds' : round'[v] # "mining"
    BY <2>2 DEF Rounds
  <2>. QED
    BY <2>4, <2>5 DEF StaleRoundHasCause
<1>. QED
  BY <1>2, <1>3, <1>4, <1>5, <1>6

LEMMA StaleNext == TypeInv /\ StaleInv /\ [Next]_vars => StaleInv'
<1>. SUFFICES ASSUME TypeInv, StaleInv, [Next]_vars PROVE StaleInv'
  OBVIOUS
<1>0. TypeOK /\ OneRound /\ StaleRoundHasCause
  BY DEF StaleInv
<1>1. TypeOK'
  BY TypeNext DEF TypeInv
<1>2. ASSUME UNCHANGED <<chain, isMining, cancel, round, work, closed, unseen>>
      PROVE  OneRound' /\ StaleRoundHasCause'
  <2>1. Busy' = Busy /\ Tip' = Tip
    BY <1>2, SameBusy DEF Tip
  <2>. QED
    BY <1>0, <1>2, <2>1 DEF OneRound, StaleRoundHasCause
<1>3. ASSUME NEW t \in Txs, SubmitTx(t) PROVE OneRound' /\ StaleRoundHasCause'
  BY <1>2, <1>3 DEF SubmitTx
<1>4. ASSUME StopAutoMining PROVE OneRound' /\ StaleRoundHasCause'
  <2>1. CancelMining /\ UNCHANGED <<isMining, round, work>>
    BY <1>4 DEF StopAutoMining
  <2>2. Busy' = Busy /\ \A w \in Busy : closed'[w]
    BY <1>0, <2>1, SameBusy, CancelReaches
  <2>3. OneRound'
    BY <1>0, <2>1, <2>2 DEF OneRound
  <2>4. \A w \in Rounds' : round'[w] = "mining" => closed'[w]
    BY <2>1, <2>2 DEF Busy, Rounds
  <2>. QED
    BY <2>3, <2>4 DEF StaleRoundHasCause
<1>5. ASSUME LoopWakes PROVE OneRound' /\ StaleRoundHasCause'
  <2>1. /\ round["loop"] = "idle" /\ round' = [round EXCEPT !["loop"] = "ready"]
        /\ UNCHANGED <<chain, isMining, cancel, work, closed, unseen>>
    BY <1>5 DEF LoopWakes
  <2>2. round \in [Rounds -> {"idle", "ready", "started", "mining", "over"}]
    BY <1>0 DEF TypeOK
  <2>3. Busy' = Busy /\ Tip' = Tip
    BY <2>1, <2>2, SameBusy DEF Tip
  <2>4. OneRound'
    BY <1>0, <2>1, <2>3 DEF OneRound
  <2>5. StaleRoundHasCause'
    BY <1>0, <2>1, <2>2, <2>3 DEF StaleRoundHasCause, Rounds
  <2>. QED
    BY <2>4, <2>5
<1>6. ASSUME \/ Stop \/ StopSeen \/ GetHeight \/ GetHash \/ GetPendingTransactions
             \/ TakeResult \/ StopMining \/ AllReturned \/ ChainAdvanced
             \/ \E s \in Searchers : SearcherEnds(s)
             \/ \E t \in Threads : Finds(t)
      PROVE  OneRound' /\ StaleRoundHasCause'
  <2>1. UNCHANGED nodeVars
    BY <1>6 DEF Stop, StopSeen, GetHeight, GetHash, GetPendingTransactions, TakeResult,
                StopMining, AllReturned, ChainAdvanced, SearcherEnds, Returns, Sends, Closes, Finds
  <2>. QED
    BY <1>2, <2>1 DEF nodeVars
<1>7. ASSUME UNCHANGED vars PROVE OneRound' /\ StaleRoundHasCause'
  BY <1>2, <1>7 DEF vars, nodeVars
<1>8. OneRound' /\ StaleRoundHasCause'
  BY <1>3, <1>4, <1>5, <1>6, <1>7, StaleArrival, StaleRound DEF Next, AutoMining, MainLoop
<1>. QED
  BY <1>1, <1>8 DEF StaleInv

\* A round of auto-mining that searches a nonce for a block which no longer
\* connects to the tip was cancelled, or the tip moved by one of the ways that
\* do not call cancelMining, for any number of rounds at once.
THEOREM StaleRoundCorrect == Spec => []StaleRoundHasCause
<1>1. TypeInv /\ StaleInv /\ [Next]_vars => (TypeInv /\ StaleInv)'
  BY TypeNext, StaleNext
<1>2. Spec => [](TypeInv /\ StaleInv)
  BY <1>1, TypeInit, StaleInit, PTL DEF Spec
<1>3. StaleInv => StaleRoundHasCause
  BY DEF StaleInv
<1>. QED
  BY <1>2, <1>3, PTL
-----------------------------------------------------------------------------
(* What the stand-alone miner submits                                      *)

\* Every tip has a greater number than the ones before it, so a template on the
\* tip was taken after the last change of the chain, and the transactions later.
Fresh ==
    /\ Tip <= made
    /\ pending \cap TxsOf(chain) = {}
    /\ miner \in {"txs", "mine", "wait", "submit"} => template.prev <= Tip
    /\ miner \in {"mine", "wait", "submit"} /\ template.prev = Tip => txs \cap TxsOf(chain) = {}

LEMMA FreshInit == Init => Fresh
<1>. SUFFICES ASSUME Init PROVE Fresh
  OBVIOUS
<1>1. Tip = 0 /\ pending = {} /\ made = 0 /\ miner = "height"
  BY DEF Init, Tip
<1>. QED
  BY <1>1 DEF Fresh

\* The tip moves,
LEMMA FreshMoved ==
  ASSUME TypeInv, Fresh, NEW s \in SUBSET Txs, made' = made + 1, Tip' = made + 1,
         TxsOf(chain') \subseteq TxsOf(chain) \cup s, pending' = pending \ s,
         UNCHANGED <<miner, template>> \/ miner' = "height"
  PROVE  Fresh'
<1>1. /\ made \in Nat /\ Tip \in Nat /\ template.prev \in Nat
  BY TipType, BoundsAssumption DEF TypeInv, TypeOK
<1>2. Tip < Tip' /\ Tip' <= made' /\ pending' \cap TxsOf(chain') = {}
  BY <1>1 DEF Fresh
<1>3. CASE miner' = "height"
  BY <1>2, <1>3 DEF Fresh
<1>4. CASE UNCHANGED <<miner, template>>
  <2>1. miner' \in {"txs", "mine", "wait", "submit"} => template'.prev < Tip'
    BY <1>1, <1>2, <1>4 DEF Fresh
  <2>2. miner' \in {"mine", "wait", "submit"} => ~(template'.prev = Tip')
    BY <1>1, <1>2, <1>4, <2>1
  <2>3. miner' \in {"txs", "mine", "wait", "submit"} => template'.prev <= Tip'
    BY <1>1, <1>2, <1>4, <2>1
  <2>. QED
    BY <1>2, <2>2, <2>3 DEF Fresh
<1>. QED
  BY <1>3, <1>4

\* or stays.
LEMMA FreshSame ==
  ASSUME TypeInv, Fresh, chain' = chain, made' \in {made, made + 1},
         pending' \cap TxsOf(chain) = {}, UNCHANGED <<miner, template, txs>>
  PROVE  Fresh'
<1>1. made \in Nat /\ Tip \in Nat /\ Tip' = Tip
  BY TipType, BoundsAssumption DEF TypeInv, TypeOK, Tip
<1>2. Tip' <= made'
  BY <1>1 DEF Fresh
<1>. QED
  BY <1>1, <1>2 DEF Fresh

LEMMA FreshNode ==
  ASSUME TypeInv, Fresh,
         \/ \E t \in Txs : SubmitTx(t)
         \/ \E s \in SUBSET Txs : AddBlock(s) \/ HandleBlocks(s) \/ AttemptReorg(s)
         \/ AddBlockFails \/ StopAutoMining \/ AutoMining
         \/ \E w \in Rounds : Cancelled(w) \/ FindsNonce(w)
  PROVE  Fresh'
<1>. USE DEF minerVars
<1>0. TypeOK /\ pending \cap TxsOf(chain) = {}
  BY DEF TypeInv, Fresh
<1>1. ASSUME NEW s \in SUBSET Txs, Append1(s), UNCHANGED <<miner, template>> PROVE Fresh'
  <2>1. made' = made + 1 /\ Tip' = made + 1 /\ TxsOf(chain') = TxsOf(chain) \cup s
        /\ pending' = pending \ s
    BY <1>0, <1>1, Extended
  <2>. QED
    BY <1>1, <2>1, FreshMoved
<1>2. ASSUME UNCHANGED <<chain, made, pending, miner, template, txs>> PROVE Fresh'
  BY <1>0, <1>2, FreshSame
<1>3. ASSUME NEW t \in Txs, SubmitTx(t) PROVE Fresh'
  <2>1. pending' \cap TxsOf(chain) = {}
    BY <1>0, <1>3 DEF SubmitTx
  <2>. QED
    BY <1>3, <2>1, FreshSame DEF SubmitTx
<1>4. ASSUME NEW s \in SUBSET Txs, AddBlock(s) \/ HandleBlocks(s) PROVE Fresh'
  BY <1>1, <1>4 DEF AddBlock, HandleBlocks
<1>5. ASSUME NEW s \in SUBSET Txs, AttemptReorg(s) PROVE Fresh'
  <2>1. made' = made + 1 /\ Tip' = made + 1 /\ TxsOf(chain') \subseteq TxsOf(chain) \cup s
        /\ pending' = pending \ s
    BY <1>0, <1>5, Reorganised
  <2>. QED
    BY <1>5, <2>1, FreshMoved DEF AttemptReorg
<1>6. CASE AddBlockFails
  BY <1>0, <1>6, FreshSame DEF AddBlockFails
<1>7. CASE StopAutoMining \/ AutoMining
  BY <1>2, <1>7
     DEF StopAutoMining, AutoMining, LoopWakes, StartMiningRound, TakeWork, RoundOver
<1>8. ASSUME NEW w \in Rounds, Cancelled(w) PROVE Fresh'
  BY <1>2, <1>8 DEF Cancelled
<1>9. ASSUME NEW w \in Rounds, FindsNonce(w) PROVE Fresh'
  <2>1. work[w].txs \in SUBSET Txs
    BY <1>0 DEF TypeOK, Work
  <2>. QED
    BY <1>1, <1>2, <1>9, <2>1 DEF FindsNonce
<1>. QED
  BY <1>3, <1>4, <1>5, <1>6, <1>7, <1>8, <1>9

LEMMA FreshMiner ==
  ASSUME TypeInv, Fresh,
         \/ Stop \/ MainLoop \/ ChainAdvanced
         \/ \E s \in Searchers : SearcherEnds(s)
         \/ \E t \in Threads : Finds(t)
  PROVE  Fresh'
<1>. USE DEF nodeVars
<1>0. TypeOK /\ txs \in SUBSET Txs /\ pending \cap TxsOf(chain) = {} /\ Tip <= made
  BY DEF TypeInv, TypeOK, Fresh
<1>1. ASSUME chain' = chain, made' = made, pending' = pending,
             miner' \in {"height", "hash", "stopped", "panicked"}
      PROVE  Fresh'
  BY <1>0, <1>1 DEF Fresh, Tip
<1>2. ASSUME chain' = chain, made' = made, pending' = pending, UNCHANGED <<template, txs>>,
             miner \in {"mine", "wait", "submit"}
      PROVE  Fresh'
  BY <1>0, <1>2 DEF Fresh, Tip
<1>3. ASSUME UNCHANGED <<chain, made, pending, miner, template, txs>> PROVE Fresh'
  BY <1>0, <1>3, FreshSame
<1>4. CASE Stop \/ ChainAdvanced
  BY <1>3, <1>4 DEF Stop, ChainAdvanced
<1>5. CASE StopSeen \/ GetHeight
  BY <1>1, <1>5 DEF StopSeen, GetHeight
<1>6. CASE GetHash
  <2>1. /\ UNCHANGED <<chain, made, pending>> /\ miner' = "txs"
        /\ template' = [template EXCEPT !.prev = Tip]
    BY <1>6 DEF GetHash
  <2>2. template'.prev = Tip /\ Tip' = Tip /\ Tip \in Nat
    BY <1>0, <2>1, TipType DEF TypeOK, Tip
  <2>. QED
    BY <1>0, <2>1, <2>2 DEF Fresh
<1>7. CASE GetPendingTransactions
  <2>1. /\ UNCHANGED <<chain, made, pending, template>> /\ miner = "txs"
        /\ txs' \in {pending, {}}
    BY <1>7 DEF GetPendingTransactions
  <2>2. txs' \cap TxsOf(chain) = {}
    BY <1>0, <2>1
  <2>. QED
    BY <1>0, <2>1, <2>2 DEF Fresh, Tip
<1>8. CASE TakeResult \/ StopMining
  BY <1>2, <1>8 DEF TakeResult, StopMining
<1>9. CASE AllReturned
  <2>1. miner = "wait" /\ UNCHANGED <<chain, made, pending, template, txs>>
    BY <1>9 DEF AllReturned
  <2>. QED
    BY <1>2, <2>1
<1>10. CASE HandleBlockSubmit
  <2>1. CASE Append1(txs)
    <3>1. made' = made + 1 /\ Tip' = made + 1 /\ TxsOf(chain') = TxsOf(chain) \cup txs
          /\ pending' = pending \ txs
      BY <1>0, <2>1, Extended
    <3>. QED
      BY <1>0, <1>10, <3>1, FreshMoved DEF HandleBlockSubmit
  <2>. QED
    BY <1>1, <1>10, <2>1 DEF HandleBlockSubmit
<1>11. ASSUME NEW s \in Searchers, Returns(s) \/ Sends(s) PROVE Fresh'
  BY <1>3, <1>11 DEF Returns, Sends
<1>12. ASSUME NEW s \in Searchers, Closes(s) PROVE Fresh'
  <2>1. UNCHANGED <<chain, made, pending, template, txs>> /\ miner \in {"mine", "wait"}
    BY <1>12 DEF Closes, Alive
  <2>. QED
    BY <1>2, <2>1
<1>13. ASSUME NEW t \in Threads, Finds(t) PROVE Fresh'
  BY <1>3, <1>13 DEF Finds
<1>. QED
  BY <1>4, <1>5, <1>6, <1>7, <1>8, <1>9, <1>10, <1>11, <1>12, <1>13 DEF MainLoop, SearcherEnds

LEMMA FreshNext == TypeInv /\ Fresh /\ [Next]_vars => Fresh'
<1>1. ASSUME TypeInv, Fresh, UNCHANGED vars PROVE Fresh'
  BY <1>1 DEF vars, nodeVars, minerVars, Fresh, Tip
<1>. QED
  BY <1>1, FreshNode, FreshMiner DEF Next

\* When the stand-alone miner submits a block that connects to the tip, nothing
\* in it was mined before, however the chain moved between getWork's request and
\* the one for the pending transactions.
THEOREM ConnectedIsUnminedCorrect == Spec => []ConnectedIsUnmined
<1>1. Fresh => ConnectedIsUnmined
  BY DEF Fresh, ConnectedIsUnmined
<1>. QED
  BY <1>1, TypeAlways, FreshInit, FreshNext, PTL DEF Spec
-----------------------------------------------------------------------------
(* The miner's own pool: types                                             *)

\* The work that handleAuthorize has read is a job, and a reward is not divided
\* by zero.
Prepared ==
    \A s \in Sessions : /\ handler[s].does = "work" => handler[s].n \in Jobs
                        /\ handler[s].does = "pay" => handler[s].n > 0

PoolTypeInv == MinerPoolTypeOK /\ Prepared

LEMMA PoolLines ==
  /\ \A what \in {"subscribe", "authorize"} : Ask(what) \in Asks
  /\ \A share \in Share : Submit(share) \in Asks
  /\ \A what \in {"ok", "error", "stats"} : <<Answer(what)>> \in Seq(Answers)
  /\ \A n \in Jobs \cup {0} : MiningWork(n) \in Seq(Answers)
<1>1. \A what \in {"ok", "error", "difficulty", "stats"} : Answer(what) \in Answers
  BY DEF Answer, Answers
<1>2. \A n \in Jobs \cup {0} : [is |-> "notify", job |-> n] \in Answers
  BY DEF Answers
<1>3. NoShare \in Share \cup {NoShare}
  OBVIOUS
<1>4. \A what \in {"subscribe", "authorize"} : Ask(what) \in Asks
  BY <1>3 DEF Ask, Asks
<1>5. \A share \in Share : Submit(share) \in Asks
  BY DEF Submit, Asks
<1>. QED
  BY <1>1, <1>2, <1>4, <1>5 DEF MiningWork

LEMMA SaysType ==
  ASSUME MinerPoolTypeOK, NEW s \in Sessions, NEW lines \in Seq(Answers), Says(s, lines)
  PROVE  toClient' \in [Sessions -> Seq(Answers)]
<1>1. toClient \in [Sessions -> Seq(Answers)]
  BY DEF MinerPoolTypeOK
<1>2. toClient[s] \o lines \in Seq(Answers)
  BY <1>1, ConcatProperties
<1>. QED
  BY <1>1, <1>2 DEF Says

LEMMA ToWorkersType ==
  ASSUME MinerPoolTypeOK, NEW lines \in Seq(Answers), ToWorkers(lines)
  PROVE  toClient' \in [Sessions -> Seq(Answers)]
<1>1. toClient \in [Sessions -> Seq(Answers)]
  BY DEF MinerPoolTypeOK
<1>2. \A s \in Sessions : toClient[s] \o lines \in Seq(Answers)
  BY <1>1, ConcatProperties
<1>. QED
  BY <1>1, <1>2 DEF ToWorkers

LEMMA TakesType ==
  ASSUME MinerPoolTypeOK, NEW s \in Sessions, Takes(s)
  PROVE  /\ toPool' \in [Sessions -> Seq(Asks)]
         /\ Head(toPool[s]) \in Asks
<1>1. toPool \in [Sessions -> Seq(Asks)] /\ toPool[s] # <<>>
  BY DEF MinerPoolTypeOK, Takes
<1>2. Tail(toPool[s]) \in Seq(Asks) /\ Head(toPool[s]) \in Asks
  BY <1>1, HeadTailProperties
<1>. QED
  BY <1>1, <1>2 DEF Takes

LEMMA DoesType ==
  ASSUME MinerPoolTypeOK, NEW s \in Sessions, NEW n \in Nat,
         NEW what \in {"none", "work", "check", "total", "submit", "refused", "pay",
                       "resetShares", "resetTotal"},
         Does(s, what, n)
  PROVE  handler' \in [Sessions -> Handler]
BY DEF MinerPoolTypeOK, Does, Handler

LEMMA NotBusyType == NotBusy \in Handler
BY DEF NotBusy, Handler

LEMMA PoolTypeInit ==
  ASSUME MinerPoolInit
  PROVE  MinerPoolTypeOK
<1>1. /\ MaxTip \in Nat \ {0} /\ 1 \in Jobs /\ MaxShares \in Nat /\ 0 \in 0..MaxShares
  BY ConnectionsAssumption DEF Jobs
<1>2. <<>> \in Seq(Asks) /\ <<>> \in Seq(Answers)
  BY EmptySeq, Zenon
<1>3. toPool \in [Sessions -> Seq(Asks)] /\ toClient \in [Sessions -> Seq(Answers)]
  BY <1>2 DEF MinerPoolInit
<1>4. handler \in [Sessions -> Handler]
  BY NotBusyType DEF MinerPoolInit
<1>5. /\ session \in [Sessions -> {"unused", "in", "authorized", "gone"}]
      /\ shares \in [Sessions -> Nat] /\ earnings \in [Sessions -> Nat]
      /\ client \in [Clients -> {"down", "subscribing", "authorizing", "working"}]
      /\ conn \in [Clients -> Sessions \cup {0}]
      /\ job \in [Clients -> Share \cup {NoShare}]
  BY DEF MinerPoolInit
<1>. QED
  BY <1>1, <1>3, <1>4, <1>5 DEF MinerPoolInit, MinerPoolTypeOK

LEMMA PoolTypeServer ==
  ASSUME MinerPoolTypeOK, Prepared,
         \/ NodeAdvances \/ WorkFetcher \/ SendMiningWork \/ StatsPrinter
         \/ \E s \in Sessions : HandleWorker(s)
  PROVE  MinerPoolTypeOK'
<1>. USE DEF poolVars, lineVars, clientVars
<1>0. /\ tip \in Jobs /\ MaxTip \in Nat \ {0} /\ Jobs = 1..MaxTip /\ Distributable \in Nat
      /\ current \in Jobs \cup {0} /\ current \in Nat
      /\ session \in [Sessions -> {"unused", "in", "authorized", "gone"}]
      /\ handler \in [Sessions -> Handler]
      /\ shares \in [Sessions -> Nat] /\ earnings \in [Sessions -> Nat]
      /\ total \in Nat /\ found \in Nat /\ NotBusy \in Handler
  BY NotBusyType, ConnectionsAssumption DEF MinerPoolTypeOK, Jobs
<1>1. CASE NodeAdvances
  <2>1. tip' \in Jobs
    BY <1>0, <1>1 DEF NodeAdvances
  <2>. QED
    BY <1>1, <2>1 DEF NodeAdvances, MinerPoolTypeOK
<1>2. CASE WorkFetcher
  BY <1>0, <1>2 DEF WorkFetcher, MinerPoolTypeOK
<1>3. CASE SendMiningWork
  <2>1. toClient' \in [Sessions -> Seq(Answers)]
    BY <1>0, <1>3, PoolLines, ToWorkersType DEF SendMiningWork
  <2>. QED
    BY <1>3, <2>1 DEF SendMiningWork, MinerPoolTypeOK
<1>4. CASE StatsPrinter
  <2>1. toClient' \in [Sessions -> Seq(Answers)]
    BY <1>4, PoolLines, ToWorkersType DEF StatsPrinter
  <2>. QED
    BY <1>4, <2>1 DEF StatsPrinter, MinerPoolTypeOK
<1>5. ASSUME NEW s \in Sessions, HandleSubscribe(s) PROVE MinerPoolTypeOK'
  <2>1. /\ toClient' \in [Sessions -> Seq(Answers)]
        /\ toPool' \in [Sessions -> Seq(Asks)]
    BY <1>5, PoolLines, SaysType, TakesType DEF HandleSubscribe
  <2>. QED
    BY <1>5, <2>1 DEF HandleSubscribe, MinerPoolTypeOK
<1>6. ASSUME NEW s \in Sessions, HandleAuthorize(s) PROVE MinerPoolTypeOK'
  <2>1. /\ toClient' \in [Sessions -> Seq(Answers)]
        /\ toPool' \in [Sessions -> Seq(Asks)]
    BY <1>6, PoolLines, SaysType, TakesType DEF HandleAuthorize
  <2>2. [NotBusy EXCEPT !.does = "work", !.n = current] \in Handler
    BY <1>0 DEF NotBusy, Handler
  <2>3. handler' \in [Sessions -> Handler]
    BY <1>0, <1>6, <2>2 DEF HandleAuthorize
  <2>4. session' \in [Sessions -> {"unused", "in", "authorized", "gone"}]
    BY <1>0, <1>6 DEF HandleAuthorize
  <2>. QED
    BY <1>6, <2>1, <2>3, <2>4 DEF HandleAuthorize, MinerPoolTypeOK
<1>7. ASSUME NEW s \in Sessions, HandleSubmit(s) PROVE MinerPoolTypeOK'
  <2>1. /\ toPool' \in [Sessions -> Seq(Asks)]
        /\ Head(toPool[s]).share \in Share \cup {NoShare}
    BY <1>7, TakesType DEF HandleSubmit, Asks
  <2>2. toClient' \in [Sessions -> Seq(Answers)]
    <3>1. Says(s, <<Answer("error")>>) \/ toClient' = toClient
      BY <1>7 DEF HandleSubmit
    <3>. QED
      BY <3>1, PoolLines, SaysType DEF MinerPoolTypeOK
  <2>3. [NotBusy EXCEPT !.does = "check", !.share = Head(toPool[s]).share] \in Handler
    BY <2>1 DEF NotBusy, Handler
  <2>4. handler' \in [Sessions -> Handler]
    BY <1>0, <1>7, <2>3 DEF HandleSubmit
  <2>. QED
    BY <1>7, <2>1, <2>2, <2>4 DEF HandleSubmit, MinerPoolTypeOK
<1>8. ASSUME NEW s \in Sessions, SendAuthorizedWork(s) PROVE MinerPoolTypeOK'
  <2>1. handler[s].n \in Jobs /\ Says(s, MiningWork(handler[s].n))
    BY <1>8 DEF SendAuthorizedWork, Prepared
  <2>2. toClient' \in [Sessions -> Seq(Answers)]
    BY <2>1, PoolLines, SaysType
  <2>3. handler' \in [Sessions -> Handler] /\ overtaken' \in SUBSET Sessions
    BY <1>0, <1>8 DEF SendAuthorizedWork, MinerPoolTypeOK
  <2>. QED
    BY <1>8, <2>2, <2>3 DEF SendAuthorizedWork, MinerPoolTypeOK
<1>9. ASSUME NEW s \in Sessions, CountShare(s) PROVE MinerPoolTypeOK'
  <2>1. handler' \in [Sessions -> Handler]
    BY <1>9, DoesType DEF CountShare
  <2>2. shares' \in [Sessions -> Nat] /\ raced' \in BOOLEAN
    BY <1>0, <1>9 DEF CountShare, MinerPoolTypeOK, SharingOut
  <2>. QED
    BY <1>9, <2>1, <2>2 DEF CountShare, MinerPoolTypeOK
<1>10. ASSUME NEW s \in Sessions, CountTotal(s) PROVE MinerPoolTypeOK'
  <2>1. handler' \in [Sessions -> Handler]
    <3>1. CASE Does(s, "submit", 0)
      BY <3>1, DoesType
    <3>2. CASE handler' = [handler EXCEPT ![s] = NotBusy]
      BY <1>0, <3>2
    <3>. QED
      BY <1>10, <3>1, <3>2 DEF CountTotal
  <2>2. toClient' \in [Sessions -> Seq(Answers)]
    BY <1>10, PoolLines, SaysType DEF CountTotal
  <2>3. total' \in Nat /\ raced' \in BOOLEAN
    BY <1>0, <1>10 DEF CountTotal, MinerPoolTypeOK, SharingOut
  <2>. QED
    BY <1>10, <2>1, <2>2, <2>3 DEF CountTotal, MinerPoolTypeOK
<1>11. ASSUME NEW s \in Sessions, NEW same \in BOOLEAN, HandleBlockSolution(s, same)
       PROVE  MinerPoolTypeOK'
  <2>1. \E what \in {"refused", "pay", "resetShares"} : Does(s, what, total)
    BY <1>0, <1>11 DEF HandleBlockSolution
  <2>2. handler' \in [Sessions -> Handler]
    BY <1>0, <2>1, DoesType
  <2>3. tip' \in Jobs /\ found' \in Nat
    BY <1>0, <1>11 DEF HandleBlockSolution
  <2>4. raced' \in BOOLEAN
    BY <1>11 DEF HandleBlockSolution, MinerPoolTypeOK
  <2>. QED
    BY <1>11, <2>2, <2>3, <2>4 DEF HandleBlockSolution, MinerPoolTypeOK
<1>12. ASSUME NEW s \in Sessions, BlockRefused(s) PROVE MinerPoolTypeOK'
  BY <1>0, <1>12 DEF BlockRefused, MinerPoolTypeOK
<1>13. ASSUME NEW s \in Sessions, DistributeRewards(s) PROVE MinerPoolTypeOK'
  <2>1. handler' \in [Sessions -> Handler]
    BY <1>13, DoesType DEF DistributeRewards
  <2>2. earnings' \in [Sessions -> Nat]
    <3>. SUFFICES ASSUME NEW w \in Sessions
                  PROVE  earnings[w] + (Distributable * shares[w]) \div handler[s].n \in Nat
      BY <1>0, <1>13 DEF DistributeRewards
    <3>1. Distributable * shares[w] \in Nat /\ handler[s].n \in Nat /\ handler[s].n > 0
      BY <1>0, <1>13 DEF DistributeRewards, Prepared, Handler
    <3>2. PICK x \in Nat : x = Distributable * shares[w]
      BY <3>1
    <3>3. PICK n \in Nat \ {0} : n = handler[s].n
      BY <3>1
    <3>4. earnings[w] \in Nat
      BY <1>0
    <3>5. x \div n \in Nat
      OBVIOUS
    <3>. QED
      BY <3>2, <3>3, <3>4, <3>5
  <2>. QED
    BY <1>13, <2>1, <2>2 DEF DistributeRewards, MinerPoolTypeOK
<1>14. ASSUME NEW s \in Sessions, ResetShares(s) PROVE MinerPoolTypeOK'
  <2>1. handler' \in [Sessions -> Handler]
    BY <1>14, DoesType DEF ResetShares
  <2>2. shares' \in [Sessions -> Nat]
    BY <1>0, <1>14 DEF ResetShares
  <2>. QED
    BY <1>14, <2>1, <2>2 DEF ResetShares, MinerPoolTypeOK
<1>15. ASSUME NEW s \in Sessions, ResetTotal(s) PROVE MinerPoolTypeOK'
  BY <1>0, <1>15 DEF ResetTotal, MinerPoolTypeOK
<1>16. ASSUME NEW s \in Sessions, WorkerLeaves(s) PROVE MinerPoolTypeOK'
  BY <1>0, <1>16 DEF WorkerLeaves, MinerPoolTypeOK
<1>. QED
  BY <1>1, <1>2, <1>3, <1>4, <1>5, <1>6, <1>7, <1>8, <1>9, <1>10, <1>11, <1>12, <1>13, <1>14,
     <1>15, <1>16 DEF HandleWorker

LEMMA PoolTypeClient ==
  ASSUME MinerPoolTypeOK, NEW c \in Clients,
         \/ \E s \in Sessions : ConnectAndWork(c, s)
         \/ Subscribed(c) \/ Authorized(c) \/ HandleNotify(c)
         \/ \E b \in BOOLEAN : SubmitWork(c, b)
         \/ ConnectionLost(c)
  PROVE  MinerPoolTypeOK'
<1>. USE DEF poolVars, lineVars, clientVars
<1>0. /\ session \in [Sessions -> {"unused", "in", "authorized", "gone"}]
      /\ client \in [Clients -> {"down", "subscribing", "authorizing", "working"}]
      /\ conn \in [Clients -> Sessions \cup {0}]
      /\ job \in [Clients -> Share \cup {NoShare}]
      /\ toPool \in [Sessions -> Seq(Asks)] /\ toClient \in [Sessions -> Seq(Answers)]
      /\ sent \in 0..MaxShares /\ MaxShares \in Nat
  BY ConnectionsAssumption DEF MinerPoolTypeOK
<1>1. ASSUME HangUp(c), conn[c] # 0
      PROVE  /\ client' \in [Clients -> {"down", "subscribing", "authorizing", "working"}]
             /\ conn' \in [Clients -> Sessions \cup {0}]
             /\ toClient' \in [Sessions -> Seq(Answers)]
  <2>1. <<>> \in Seq(Answers)
    BY EmptySeq, Zenon
  <2>2. toClient' \in [Sessions -> Seq(Answers)]
    BY <1>0, <1>1, <2>1 DEF HangUp
  <2>. QED
    BY <1>0, <1>1, <2>2 DEF HangUp
<1>2. ASSUME Reads(c)
      PROVE  /\ conn[c] \in Sessions
             /\ Line(c) \in Answers
             /\ Tail(toClient[conn[c]]) \in Seq(Answers)
             /\ [toClient EXCEPT ![conn[c]] = Tail(@)] \in [Sessions -> Seq(Answers)]
  <2>1. conn[c] \in Sessions /\ toClient[conn[c]] \in Seq(Answers) /\ toClient[conn[c]] # <<>>
    BY <1>0, <1>2 DEF Reads
  <2>2. Tail(toClient[conn[c]]) \in Seq(Answers) /\ Line(c) \in Answers
    BY <2>1, HeadTailProperties DEF Line
  <2>. QED
    BY <1>0, <2>1, <2>2
<1>3. ASSUME NEW s \in Sessions, ConnectAndWork(c, s) PROVE MinerPoolTypeOK'
  <2>1. <<Ask("subscribe")>> \in Seq(Asks)
    BY PoolLines
  <2>2. toPool' \in [Sessions -> Seq(Asks)]
    BY <1>0, <1>3, <2>1 DEF ConnectAndWork
  <2>. QED
    BY <1>0, <1>3, <2>2 DEF ConnectAndWork, MinerPoolTypeOK
<1>4. CASE Subscribed(c)
  <2>1. Reads(c) /\ UNCHANGED <<tip, poolVars, job, sent, raced, overtaken>>
    BY <1>4 DEF Subscribed
  <2>2. CASE HangUp(c) /\ UNCHANGED toPool
    BY <1>1, <2>1, <2>2 DEF Reads, MinerPoolTypeOK
  <2>3. CASE /\ client' = [client EXCEPT ![c] = "authorizing"]
             /\ toPool' = [toPool EXCEPT ![conn[c]] = Append(@, Ask("authorize"))]
             /\ toClient' = [toClient EXCEPT ![conn[c]] = Tail(@)]
             /\ UNCHANGED conn
    <3>1. Append(toPool[conn[c]], Ask("authorize")) \in Seq(Asks)
      BY <1>0, <1>2, <2>1, PoolLines, AppendProperties
    <3>2. toPool' \in [Sessions -> Seq(Asks)] /\ toClient' \in [Sessions -> Seq(Answers)]
      BY <1>0, <1>2, <2>1, <2>3, <3>1
    <3>. QED
      BY <1>0, <2>1, <2>3, <3>2 DEF MinerPoolTypeOK
  <2>. QED
    BY <1>4, <2>2, <2>3 DEF Subscribed
<1>5. CASE Authorized(c)
  <2>1. Reads(c) /\ UNCHANGED <<tip, poolVars, toPool, job, sent, raced, overtaken>>
    BY <1>5 DEF Authorized
  <2>2. CASE HangUp(c)
    BY <1>1, <2>1, <2>2 DEF Reads, MinerPoolTypeOK
  <2>3. CASE /\ client' = [client EXCEPT ![c] = "working"]
             /\ toClient' = [toClient EXCEPT ![conn[c]] = Tail(@)]
             /\ UNCHANGED conn
    BY <1>0, <1>2, <2>1, <2>3 DEF MinerPoolTypeOK
  <2>. QED
    BY <1>5, <2>2, <2>3 DEF Authorized
<1>6. CASE HandleNotify(c)
  <2>1. Reads(c) /\ UNCHANGED <<tip, poolVars, toPool, client, conn, sent, raced, overtaken>>
    BY <1>6 DEF HandleNotify
  <2>2. [job |-> Line(c).job, block |-> FALSE] \in Share \cup {NoShare}
    BY <1>2, <2>1 DEF Answers, Share, NoShare
  <2>3. job' \in [Clients -> Share \cup {NoShare}]
    BY <1>0, <1>6, <2>2 DEF HandleNotify
  <2>4. toClient' \in [Sessions -> Seq(Answers)]
    BY <1>2, <1>6, <2>1 DEF HandleNotify
  <2>. QED
    BY <2>1, <2>3, <2>4 DEF MinerPoolTypeOK
<1>7. ASSUME NEW b \in BOOLEAN, SubmitWork(c, b) PROVE MinerPoolTypeOK'
  <2>1. job[c] \in Share /\ conn[c] \in Sessions
    BY <1>0, <1>7 DEF SubmitWork
  <2>2. job' \in [Clients -> Share \cup {NoShare}] /\ job'[c] \in Share
    BY <1>0, <1>7, <2>1 DEF SubmitWork, Share
  <2>3. Append(toPool[conn[c]], Submit(job'[c])) \in Seq(Asks)
    BY <1>0, <2>1, <2>2, PoolLines, AppendProperties
  <2>4. toPool' \in [Sessions -> Seq(Asks)] /\ sent' \in 0..MaxShares
    BY <1>0, <1>7, <2>1, <2>3 DEF SubmitWork
  <2>. QED
    BY <1>7, <2>2, <2>4 DEF SubmitWork, MinerPoolTypeOK
<1>8. CASE ConnectionLost(c)
  BY <1>1, <1>8 DEF ConnectionLost, MinerPoolTypeOK
<1>. QED
  BY <1>3, <1>4, <1>5, <1>6, <1>7, <1>8

LEMMA PreparedNext ==
  ASSUME PoolTypeInv, MinerPoolNext
  PROVE  Prepared'
<1>0. /\ handler \in [Sessions -> Handler] /\ current \in Jobs \cup {0} /\ total \in Nat
      /\ Prepared
  BY DEF PoolTypeInv, MinerPoolTypeOK
<1>1. ASSUME UNCHANGED handler PROVE Prepared'
  BY <1>0, <1>1 DEF Prepared
<1>2. ASSUME NEW s \in Sessions, NEW h, handler' = [handler EXCEPT ![s] = h],
             h.does = "work" => h.n \in Jobs, h.does = "pay" => h.n > 0
      PROVE  Prepared'
  BY <1>0, <1>2 DEF Prepared, Jobs
<1>3. ASSUME NEW s \in Sessions, NEW what, NEW n, Does(s, what, n),
             what # "work", what = "pay" => n > 0
      PROVE  Prepared'
  <2>1. /\ handler' = [handler EXCEPT ![s] = [handler[s] EXCEPT !.does = what, !.n = n]]
        /\ [handler[s] EXCEPT !.does = what, !.n = n].does = what
        /\ [handler[s] EXCEPT !.does = what, !.n = n].n = n
    BY <1>0, <1>3 DEF Does, Handler
  <2>. QED
    BY <1>2, <1>3, <2>1
<1>4. ASSUME NEW s \in Sessions, handler' = [handler EXCEPT ![s] = NotBusy] PROVE Prepared'
  BY <1>2, <1>4 DEF NotBusy
<1>5. ASSUME NEW s \in Sessions, HandleWorker(s) PROVE Prepared'
  <2>1. CASE HandleSubscribe(s) \/ WorkerLeaves(s)
    BY <1>1, <2>1 DEF HandleSubscribe, WorkerLeaves, poolVars
  <2>2. CASE HandleAuthorize(s)
    <3>. DEFINE h == [NotBusy EXCEPT !.does = "work", !.n = current]
    <3>1. h.does = "work" /\ h.n = current
      BY DEF NotBusy
    <3>. HIDE DEF h
    <3>2. CASE current = 0
      BY <1>1, <2>2, <3>2 DEF HandleAuthorize
    <3>3. CASE current # 0
      BY <1>0, <1>2, <2>2, <3>1, <3>3 DEF HandleAuthorize, h
    <3>. QED
      BY <3>2, <3>3
  <2>3. CASE HandleSubmit(s)
    <3>. DEFINE h == [NotBusy EXCEPT !.does = "check", !.share = Head(toPool[s]).share]
    <3>1. h.does = "check"
      BY DEF NotBusy
    <3>2. handler' = [handler EXCEPT ![s] = h] \/ UNCHANGED handler
      BY <2>3 DEF HandleSubmit
    <3>. HIDE DEF h
    <3>. QED
      BY <1>1, <1>2, <3>1, <3>2
  <2>4. CASE SendAuthorizedWork(s) \/ BlockRefused(s) \/ ResetTotal(s)
    BY <1>4, <2>4 DEF SendAuthorizedWork, BlockRefused, ResetTotal
  <2>5. CASE CountShare(s) \/ CountTotal(s)
    <3>1. Does(s, "total", 0) \/ Does(s, "submit", 0)
            \/ handler' = [handler EXCEPT ![s] = NotBusy]
      BY <2>5 DEF CountShare, CountTotal
    <3>. QED
      BY <1>3, <1>4, <3>1
  <2>6. ASSUME NEW same \in BOOLEAN, HandleBlockSolution(s, same) PROVE Prepared'
    <3>1. \/ Does(s, "refused", total) \/ Does(s, "resetShares", total)
          \/ Does(s, "pay", total) /\ total > 0
      BY <1>0, <2>6 DEF HandleBlockSolution
    <3>. QED
      BY <1>3, <3>1
  <2>7. CASE DistributeRewards(s) \/ ResetShares(s)
    BY <1>3, <2>7 DEF DistributeRewards, ResetShares
  <2>. QED
    BY <1>5, <2>1, <2>2, <2>3, <2>4, <2>5, <2>6, <2>7 DEF HandleWorker
<1>6. ASSUME NEW c \in Clients,
             \/ \E s \in Sessions : ConnectAndWork(c, s)
             \/ Subscribed(c) \/ Authorized(c) \/ HandleNotify(c)
             \/ \E b \in BOOLEAN : SubmitWork(c, b)
             \/ ConnectionLost(c)
      PROVE  Prepared'
  <2>1. UNCHANGED handler
    BY <1>6 DEF ConnectAndWork, Subscribed, Authorized, HandleNotify, SubmitWork,
                ConnectionLost, poolVars
  <2>. QED
    BY <1>1, <2>1
<1>7. ASSUME NodeAdvances \/ WorkFetcher \/ SendMiningWork \/ StatsPrinter
      PROVE  Prepared'
  BY <1>1, <1>7 DEF NodeAdvances, WorkFetcher, SendMiningWork, StatsPrinter, poolVars
<1>. QED
  BY <1>5, <1>6, <1>7 DEF MinerPoolNext

LEMMA PoolTypeAlways ==
  MinerPoolSpec => []PoolTypeInv
<1>1. MinerPoolInit => PoolTypeInv
  <2>. SUFFICES ASSUME MinerPoolInit PROVE PoolTypeInv
    OBVIOUS
  <2>1. \A s \in Sessions : handler[s].does = "none"
    BY DEF MinerPoolInit, NotBusy
  <2>. QED
    BY <2>1, PoolTypeInit DEF PoolTypeInv, Prepared
<1>2. PoolTypeInv /\ [MinerPoolNext]_minerPoolVars => PoolTypeInv'
  <2>. SUFFICES ASSUME PoolTypeInv, [MinerPoolNext]_minerPoolVars PROVE PoolTypeInv'
    OBVIOUS
  <2>1. CASE MinerPoolNext
    BY <2>1, PoolTypeServer, PoolTypeClient, PreparedNext DEF PoolTypeInv, MinerPoolNext
  <2>2. CASE UNCHANGED minerPoolVars
    BY <2>2 DEF minerPoolVars, poolVars, lineVars, clientVars, PoolTypeInv, MinerPoolTypeOK, Prepared
  <2>. QED
    BY <2>1, <2>2
<1>. QED
  BY <1>1, <1>2, PTL DEF MinerPoolSpec
-----------------------------------------------------------------------------
(* What the miner's own pool credits                                       *)

LEMMA PoolSum ==
  ASSUME NEW f
  PROVE  SumFunction(f) = SumFunction(f)
BY DEF SumFunction, SumFunctionOnSet, FoldFunctionOnSet, MapThenFoldSet,
       SumFunction, SumFunctionOnSet, FoldFunctionOnSet, MapThenFoldSet

LEMMA SessionsPlus ==
  ASSUME IsFiniteSet(Sessions), NEW f \in [Sessions -> Int], NEW g \in [Sessions -> Int],
         NEW h \in [Sessions -> Int], \A v \in Sessions : h[v] = f[v] + g[v]
  PROVE  SumFunction(h) = SumFunction(f) + SumFunction(g)
BY SumFunctionPlus

LEMMA OneChanges ==
  ASSUME IsFiniteSet(Sessions), NEW s \in Sessions, NEW f \in [Sessions -> Int],
         NEW g \in [Sessions -> Int], \A v \in Sessions \ {s} : g[v] = f[v]
  PROVE  SumFunction(g) = SumFunction(f) + g[s] - f[s]
BY SumFunctionChange

\* The workers' shares that are in the total.
Counted ==
    [s \in Sessions |-> IF s \notin Workers THEN 0
                        ELSE IF handler[s].does = "total" THEN shares[s] - 1 ELSE shares[s]]

\* Sessions whose goroutine is inside distributeRewards.
Sharing == {s \in Sessions : handler[s].does \in {"pay", "resetShares", "resetTotal"}}

\* Who has something to do is a worker, and what it holds was found on a tip.
Held ==
    /\ current <= tip
    /\ \A s \in Sessions : handler[s].does # "none" => s \in Workers
    /\ \A s \in Sessions :
          handler[s].does \in {"check", "total", "submit"} => handler[s].share.job <= tip
    /\ \A s \in Sessions : session[s] = "unused" => shares[s] = 0

\* One reward is shared out at a time, and no share is half counted then.
OneSharing ==
    /\ \A s, v \in Sharing : s = v
    /\ \A s \in Sharing : \A v \in Sessions :
          /\ handler[v].does # "total"
          /\ handler[v].does = "submit" => handler[v].share.job < tip

Books ==
    /\ SumFunction(Counted) <= total
    /\ \A s \in Sessions : handler[s].does = "total" => shares[s] > 0
    /\ SumFunction(earnings) <= Distributable * found
    /\ \A s \in Sharing :
          /\ handler[s].does = "pay" =>
                /\ handler[s].n = total /\ total > 0
                /\ SumFunction(earnings) + Distributable <= Distributable * found
          /\ handler[s].does = "resetTotal" => \A w \in Workers : shares[w] = 0

Credit == Held /\ (~raced => OneSharing /\ Books)

\* A goroutine goes on to h.
LEMMA GoesOn ==
  ASSUME MinerPoolTypeOK, NEW s \in Sessions, NEW h, handler' = [handler EXCEPT ![s] = h]
  PROVE  /\ handler'[s] = h
         /\ \A v \in Sessions : v # s => handler'[v] = handler[v]
BY DEF MinerPoolTypeOK

LEMMA DoesGoesOn ==
  ASSUME MinerPoolTypeOK, NEW s \in Sessions, NEW what, NEW n, Does(s, what, n)
  PROVE  /\ handler'[s].does = what /\ handler'[s].n = n
         /\ handler'[s].share = handler[s].share
         /\ \A v \in Sessions : v # s => handler'[v] = handler[v]
BY DEF MinerPoolTypeOK, Does, Handler

LEMMA SharingSame ==
  ASSUME \A s \in Sessions : handler'[s].does \in {"pay", "resetShares", "resetTotal"}
                               <=> handler[s].does \in {"pay", "resetShares", "resetTotal"}
  PROVE  Sharing' = Sharing
BY DEF Sharing

\* Neither shares nor rewards.
LEMMA CreditCalm ==
  ASSUME PoolTypeInv, Credit, tip' >= tip, current' <= tip', tip' \in Nat,
         UNCHANGED <<session, handler, shares, earnings, total, found, raced>>
  PROVE  Credit'
<1>1. tip \in Nat /\ \A s \in Sessions : handler[s].share.job \in Nat
  BY DEF PoolTypeInv, MinerPoolTypeOK, Jobs, Handler, Share, NoShare
<1>2. Workers' = Workers /\ Sharing' = Sharing
  BY DEF Workers, Sharing
<1>3. Held'
  BY <1>1, <1>2 DEF Credit, Held
<1>4. Counted' = Counted
  BY <1>2 DEF Counted
<1>5. ASSUME ~raced' PROVE OneSharing' /\ Books'
  <2>1. OneSharing /\ Books
    BY <1>5 DEF Credit
  <2>2. OneSharing'
    BY <1>1, <1>2, <2>1 DEF OneSharing
  <2>3. Books'
    BY <1>2, <1>4, <2>1 DEF Books
  <2>. QED
    BY <2>2, <2>3
<1>. QED
  BY <1>3, <1>5 DEF Credit

\* A line that is no share, or a share before it is counted.
LEMMA CreditAside ==
  ASSUME PoolTypeInv, Credit, NEW s \in Workers, NEW h, handler' = [handler EXCEPT ![s] = h],
         handler[s].does \in {"none", "work", "refused"}, h.does \in {"none", "work", "check"},
         h.does = "check" => h.share.job <= tip,
         Workers' = Workers, \A v \in Sessions : session'[v] = "unused" => session[v] = "unused",
         UNCHANGED <<tip, current, shares, earnings, total, found, raced>>
  PROVE  Credit'
<1>1. s \in Sessions
  BY DEF Workers
<1>2. handler'[s] = h /\ \A v \in Sessions : v # s => handler'[v] = handler[v]
  BY <1>1, GoesOn DEF PoolTypeInv
<1>3. Held'
  BY <1>1, <1>2 DEF Credit, Held
<1>4. Sharing' = Sharing
  BY <1>1, <1>2, SharingSame
<1>5. Counted' = Counted
  BY <1>1, <1>2 DEF Counted
<1>6. ASSUME ~raced' PROVE OneSharing' /\ Books'
  <2>1. OneSharing /\ Books
    BY <1>6 DEF Credit
  <2>2. OneSharing'
    BY <1>1, <1>2, <1>4, <2>1 DEF OneSharing
  <2>3. Books'
    <3>1. \A v \in Sessions : handler'[v].does = "total" => handler[v].does = "total"
      BY <1>1, <1>2
    <3>2. \A v \in Sharing : handler'[v] = handler[v]
      BY <1>1, <1>2 DEF Sharing
    <3>. QED
      BY <1>4, <1>5, <2>1, <3>1, <3>2 DEF Books
  <2>. QED
    BY <2>2, <2>3
<1>. QED
  BY <1>3, <1>6 DEF Credit

\* A worker leaves, and what it has not been paid is lost.
LEMMA CreditLeaves ==
  ASSUME PoolTypeInv, Credit, NEW s \in Sessions, WorkerLeaves(s)
  PROVE  Credit'
<1>1. /\ s \in Workers /\ handler[s].does = "none" /\ session' = [session EXCEPT ![s] = "gone"]
      /\ UNCHANGED <<tip, current, handler, shares, earnings, total, found, raced>>
  BY DEF WorkerLeaves, Workers, NotBusy
<1>2. /\ session \in [Sessions -> {"unused", "in", "authorized", "gone"}]
      /\ total \in Nat /\ shares \in [Sessions -> Nat] /\ IsFiniteSet(Sessions)
  BY ConnectionsAssumption DEF PoolTypeInv, MinerPoolTypeOK
<1>3. Workers' = Workers \ {s}
  BY <1>1, <1>2 DEF Workers
<1>4. Held'
  BY <1>1, <1>2, <1>3 DEF Credit, Held
<1>5. Sharing' = Sharing
  BY <1>1, SharingSame
<1>6. Counted \in [Sessions -> Int] /\ Counted' \in [Sessions -> Int]
  BY <1>1, <1>2 DEF Counted
<1>7. SumFunction(Counted') <= SumFunction(Counted)
  <2>1. \A v \in Sessions : Counted'[v] <= Counted[v]
    BY <1>1, <1>2, <1>3 DEF Counted
  <2>. QED
    BY <1>2, <1>6, <2>1, SumFunctionLE
<1>8. ASSUME ~raced' PROVE OneSharing' /\ Books'
  <2>1. OneSharing /\ Books
    BY <1>1, <1>8 DEF Credit
  <2>2. OneSharing'
    BY <1>1, <1>5, <2>1 DEF OneSharing
  <2>3. SumFunction(Counted') <= total
    <3>1. SumFunction(Counted) \in Int /\ SumFunction(Counted') \in Int
      BY <1>2, <1>6, SumFunctionInt
    <3>. QED
      BY <1>2, <1>7, <2>1, <3>1 DEF Books
  <2>4. Books'
    BY <1>1, <1>3, <1>5, <2>1, <2>3 DEF Books
  <2>. QED
    BY <2>2, <2>4
<1>. QED
  BY <1>4, <1>8 DEF Credit

LEMMA CreditConnects ==
  ASSUME PoolTypeInv, Credit, NEW c \in Clients, NEW s \in Sessions,
         ConnectAndWork(c, s)
  PROVE  Credit'
<1>1. /\ session[s] = "unused" /\ session' = [session EXCEPT ![s] = "in"]
      /\ UNCHANGED <<tip, current, handler, shares, earnings, total, found, raced>>
  BY ConnectionsAssumption DEF ConnectAndWork
<1>2. /\ session \in [Sessions -> {"unused", "in", "authorized", "gone"}]
      /\ shares[s] = 0 /\ handler[s].does = "none"
  BY <1>1 DEF PoolTypeInv, MinerPoolTypeOK, Credit, Held, Workers
<1>3. Workers' = Workers \cup {s} /\ s \notin Workers
  BY <1>1, <1>2 DEF Workers
<1>4. Held'
  BY <1>1, <1>2, <1>3 DEF Credit, Held
<1>5. Sharing' = Sharing
  BY <1>1, SharingSame
<1>6. Counted' = Counted
  BY <1>1, <1>2, <1>3 DEF Counted
<1>7. ASSUME ~raced' PROVE OneSharing' /\ Books'
  <2>1. OneSharing /\ Books
    BY <1>1, <1>7 DEF Credit
  <2>2. OneSharing'
    BY <1>1, <1>5, <2>1 DEF OneSharing
  <2>3. Books'
    BY <1>1, <1>2, <1>3, <1>5, <1>6, <2>1 DEF Books
  <2>. QED
    BY <2>2, <2>3
<1>. QED
  BY <1>4, <1>7 DEF Credit

\* The share is added to the worker's,
LEMMA CreditCountShare ==
  ASSUME PoolTypeInv, Credit, NEW s \in Sessions, CountShare(s)
  PROVE  Credit'
<1>1. /\ handler[s].does = "check" /\ shares' = [shares EXCEPT ![s] = shares[s] + 1]
      /\ raced' = (raced \/ SharingOut) /\ Workers' = Workers
      /\ UNCHANGED <<tip, current, session, earnings, total, found>>
  BY DEF CountShare, Workers
<1>2. /\ handler'[s].does = "total" /\ handler'[s].share = handler[s].share
      /\ \A v \in Sessions : v # s => handler'[v] = handler[v]
  BY DoesGoesOn DEF CountShare, PoolTypeInv
<1>3. s \in Workers /\ shares \in [Sessions -> Nat]
  BY <1>1 DEF Credit, Held, PoolTypeInv, MinerPoolTypeOK
<1>4. Held'
  BY <1>1, <1>2, <1>3 DEF Credit, Held, Workers
<1>5. Counted' = Counted
  BY <1>1, <1>2, <1>3 DEF Counted
<1>6. Sharing' = Sharing
  BY <1>1, <1>2, SharingSame
<1>7. ASSUME ~raced' PROVE OneSharing' /\ Books'
  <2>1. Sharing = {} /\ Books
    BY <1>1, <1>7 DEF Credit, SharingOut, Sharing
  <2>2. OneSharing'
    BY <1>6, <2>1 DEF OneSharing
  <2>3. Books'
    BY <1>1, <1>2, <1>3, <1>5, <1>6, <2>1 DEF Books
  <2>. QED
    BY <2>2, <2>3
<1>. QED
  BY <1>4, <1>7 DEF Credit

\* and to the total.
LEMMA CreditCountTotal ==
  ASSUME PoolTypeInv, Credit, NEW s \in Sessions, CountTotal(s)
  PROVE  Credit'
<1>1. /\ handler[s].does = "total" /\ total' = total + 1
      /\ raced' = (raced \/ SharingOut) /\ Workers' = Workers
      /\ UNCHANGED <<tip, current, session, shares, earnings, found>>
  BY DEF CountTotal, Workers
<1>2. /\ \/ handler'[s].does = "submit" /\ handler'[s].share = handler[s].share
         \/ handler'[s].does = "none"
      /\ \A v \in Sessions : v # s => handler'[v] = handler[v]
  <2>1. CASE Does(s, "submit", 0)
    BY <2>1, DoesGoesOn DEF PoolTypeInv
  <2>2. CASE handler' = [handler EXCEPT ![s] = NotBusy]
    <3>1. handler'[s] = NotBusy /\ \A v \in Sessions : v # s => handler'[v] = handler[v]
      BY <2>2, GoesOn DEF PoolTypeInv
    <3>. QED
      BY <3>1 DEF NotBusy
  <2>. QED
    BY <2>1, <2>2 DEF CountTotal
<1>3. s \in Workers /\ shares \in [Sessions -> Nat] /\ total \in Nat /\ IsFiniteSet(Sessions)
  BY <1>1, ConnectionsAssumption DEF Credit, Held, PoolTypeInv, MinerPoolTypeOK
<1>4. Held'
  BY <1>1, <1>2, <1>3 DEF Credit, Held
<1>5. /\ Counted \in [Sessions -> Int] /\ Counted' \in [Sessions -> Int]
      /\ Counted'[s] = Counted[s] + 1 /\ \A v \in Sessions \ {s} : Counted'[v] = Counted[v]
  <2>1. Counted \in [Sessions -> Int] /\ Counted' \in [Sessions -> Int]
    BY <1>1, <1>3 DEF Counted
  <2>2. Counted[s] = shares[s] - 1 /\ Counted'[s] = shares[s]
    BY <1>1, <1>2, <1>3 DEF Counted
  <2>3. \A v \in Sessions \ {s} : Counted'[v] = Counted[v]
    BY <1>1, <1>2 DEF Counted
  <2>. QED
    BY <1>3, <2>1, <2>2, <2>3
<1>6. SumFunction(Counted') = SumFunction(Counted) + 1
  <2>1. SumFunction(Counted') = SumFunction(Counted) + Counted'[s] - Counted[s]
    BY <1>3, <1>5, OneChanges
  <2>2. SumFunction(Counted) \in Int /\ Counted[s] \in Int
    BY <1>3, <1>5, SumFunctionInt
  <2>. QED
    BY <1>5, <2>1, <2>2
<1>7. Sharing' = Sharing
  BY <1>1, <1>2, SharingSame
<1>8. ASSUME ~raced' PROVE OneSharing' /\ Books'
  <2>1. Sharing = {} /\ Books
    BY <1>1, <1>8 DEF Credit, SharingOut, Sharing
  <2>2. OneSharing'
    BY <1>7, <2>1 DEF OneSharing
  <2>3. SumFunction(Counted') <= total'
    <3>1. SumFunction(Counted) \in Int
      BY <1>3, <1>5, SumFunctionInt
    <3>. QED
      BY <1>1, <1>3, <1>6, <2>1, <3>1 DEF Books
  <2>4. \A v \in Sessions : handler'[v].does = "total" => handler[v].does = "total"
    BY <1>1, <1>2
  <2>5. Books'
    BY <1>1, <1>7, <2>1, <2>3, <2>4 DEF Books
  <2>. QED
    BY <2>2, <2>5
<1>. QED
  BY <1>4, <1>8 DEF Credit

\* The node takes the block or refuses it.
LEMMA CreditSolution ==
  ASSUME PoolTypeInv, Credit, NEW s \in Sessions, NEW same \in BOOLEAN,
         HandleBlockSolution(s, same)
  PROVE  Credit'
<1>. DEFINE accepted == handler[s].share.job = tip /\ same
<1>0. /\ tip \in Nat /\ total \in Nat /\ found \in Nat /\ Distributable \in Nat
      /\ current \in Nat /\ earnings \in [Sessions -> Nat] /\ SumFunction(earnings) \in Nat
      /\ \A v \in Sessions : handler[v].share.job \in Nat
  <2>1. IsFiniteSet(Sessions) /\ Distributable \in Nat
    BY ConnectionsAssumption
  <2>2. /\ tip \in Nat /\ total \in Nat /\ found \in Nat /\ current \in Nat
        /\ earnings \in [Sessions -> Nat] /\ \A v \in Sessions : handler[v].share.job \in Nat
    BY DEF PoolTypeInv, MinerPoolTypeOK, Jobs, Handler, Share, NoShare
  <2>. QED
    BY <2>1, <2>2, SumFunctionNat
<1>1. /\ handler[s].does = "submit" /\ Workers' = Workers
      /\ UNCHANGED <<current, session, shares, earnings, total>>
      /\ tip' = IF accepted THEN tip + 1 ELSE tip
      /\ found' = IF accepted THEN found + 1 ELSE found
      /\ raced' = (raced \/ (accepted /\ \E v \in Sessions : handler[v].does = "total"))
  BY DEF HandleBlockSolution, Workers
<1>2. /\ \/ ~accepted /\ handler'[s].does = "refused"
         \/ accepted /\ handler'[s].does = "pay" /\ handler'[s].n = total /\ total > 0
         \/ accepted /\ handler'[s].does = "resetShares"
      /\ \A v \in Sessions : v # s => handler'[v] = handler[v]
  <2>1. \/ ~accepted /\ Does(s, "refused", total)
        \/ accepted /\ Does(s, "pay", total) /\ total > 0
        \/ accepted /\ Does(s, "resetShares", total)
    BY <1>0 DEF HandleBlockSolution
  <2>. QED
    BY <2>1, DoesGoesOn DEF PoolTypeInv
<1>. HIDE DEF accepted
<1>3. Held'
  BY <1>0, <1>1, <1>2 DEF Credit, Held
<1>4. Counted' = Counted
  BY <1>1, <1>2 DEF Counted
<1>5. CASE ~accepted
  <2>1. Sharing' = Sharing
    BY <1>1, <1>2, <1>5, SharingSame
  <2>2. ASSUME ~raced' PROVE OneSharing' /\ Books'
    <3>1. OneSharing /\ Books
      BY <1>1, <2>2 DEF Credit
    <3>2. OneSharing'
      BY <1>1, <1>2, <1>5, <2>1, <3>1 DEF OneSharing
    <3>3. \A v \in Sessions : handler'[v].does = "total" => handler[v].does = "total"
      BY <1>1, <1>2, <1>5
    <3>4. \A v \in Sharing : handler'[v] = handler[v]
      BY <1>1, <1>2 DEF Sharing
    <3>5. Books'
      BY <1>1, <1>4, <1>5, <2>1, <3>1, <3>3, <3>4 DEF Books
    <3>. QED
      BY <3>2, <3>5
  <2>. QED
    BY <1>3, <2>2 DEF Credit
<1>6. CASE accepted
  <2>1. ASSUME ~raced' PROVE OneSharing' /\ Books'
    <3>1. OneSharing /\ Books /\ \A v \in Sessions : handler[v].does # "total"
      BY <1>1, <1>6, <2>1 DEF Credit
    <3>2. Sharing = {}
      <4>1. handler[s].share.job = tip
        BY <1>6 DEF accepted
      <4>. QED
        BY <1>0, <1>1, <3>1, <4>1 DEF OneSharing
    <3>3. Sharing' = {s}
      BY <1>2, <1>6, <3>2 DEF Sharing
    <3>4. OneSharing'
      <4>1. \A v \in Sessions :
              /\ handler'[v].does # "total"
              /\ handler'[v].does = "submit" => handler'[v].share.job < tip'
        BY <1>0, <1>1, <1>2, <1>6, <3>1 DEF Credit, Held
      <4>. QED
        BY <3>3, <4>1 DEF OneSharing
    <3>5. Distributable * found' = Distributable * found + Distributable
      BY <1>0, <1>1, <1>6
    <3>6. PICK x \in Nat : x = Distributable * found
      BY <1>0
    <3>7. /\ SumFunction(earnings) <= Distributable * found'
          /\ SumFunction(earnings) + Distributable <= Distributable * found'
      BY <1>0, <3>1, <3>5, <3>6 DEF Books
    <3>8. \A v \in Sessions : handler'[v].does # "total"
      BY <1>2, <1>6, <3>1
    <3>9. Books'
      BY <1>1, <1>2, <1>4, <1>6, <3>1, <3>3, <3>7, <3>8 DEF Books
    <3>. QED
      BY <3>4, <3>9
  <2>. QED
    BY <1>3, <2>1 DEF Credit
<1>. QED
  BY <1>5, <1>6

\* Who gets a part of D for at most n shares.
LEMMA WithinReward ==
  ASSUME NEW D \in Nat, NEW n \in Nat, n > 0, NEW m \in Nat, m <= n, NEW c \in Nat,
         n * c <= D * m
  PROVE  c <= D
<1>. SUFFICES ASSUME c > D PROVE FALSE
  OBVIOUS
<1>1. PICK d \in Nat : c = D + 1 + d
  <2>1. c - D - 1 \in Nat /\ c = D + 1 + (c - D - 1)
    OBVIOUS
  <2>. QED
    BY <2>1
<1>2. PICK k \in Nat : n = m + k
  <2>1. n - m \in Nat /\ n = m + (n - m)
    OBVIOUS
  <2>. QED
    BY <2>1
<1>3. n * c = n * D + n + n * d /\ D * n = D * m + D * k
  BY <1>1, <1>2, SMT
<1>4. n * D \in Nat /\ D * m \in Nat /\ n * d \in Nat /\ D * k \in Nat /\ n * D = D * n
  BY SMT
<1>. QED
  BY <1>3, <1>4

LEMMA RewardShared ==
  ASSUME NEW k \in [Sessions -> Nat], NEW n \in Nat, n > 0,
         SumFunction(k) <= n, NEW e \in [Sessions -> Nat], NEW g \in [Sessions -> Nat],
         \A w \in Sessions : g[w] = e[w] + (Distributable * k[w]) \div n
  PROVE  SumFunction(g) <= SumFunction(e) + Distributable
<1>0. IsFiniteSet(Sessions) /\ Distributable \in Nat
  BY ConnectionsAssumption
<1>. DEFINE f == [w \in Sessions |-> (Distributable * k[w]) \div n]
<1>1. f \in [Sessions -> Nat]
  <2>. SUFFICES ASSUME NEW w \in Sessions PROVE (Distributable * k[w]) \div n \in Nat
    OBVIOUS
  <2>1. PICK x \in Nat : x = Distributable * k[w]
    BY <1>0
  <2>2. x \div n \in Nat
    OBVIOUS
  <2>. QED
    BY <2>1, <2>2
<1>2. \A w \in Sessions : f[w] = (Distributable * k[w]) \div n /\ g[w] = e[w] + f[w]
  OBVIOUS
<1>. HIDE DEF f
<1>3. n * SumFunction(f) <= Distributable * SumFunction(k)
  BY <1>0, <1>1, <1>2, SharesRounded
<1>4. SumFunction(f) \in Nat /\ SumFunction(k) \in Nat /\ SumFunction(e) \in Nat
  BY <1>0, <1>1, SumFunctionNat
<1>5. SumFunction(f) <= Distributable
  BY <1>0, <1>3, <1>4, WithinReward
<1>6. SumFunction(g) = SumFunction(e) + SumFunction(f)
  <2>1. /\ g \in [Sessions -> Int] /\ e \in [Sessions -> Int] /\ f \in [Sessions -> Int]
    BY <1>1
  <2>. QED
    BY <1>0, <1>2, <2>1, SessionsPlus
<1>. QED
  BY <1>0, <1>4, <1>5, <1>6

LEMMA CreditDistribute ==
  ASSUME PoolTypeInv, PoolTypeInv', Credit, NEW s \in Sessions,
         DistributeRewards(s)
  PROVE  Credit'
<1>0. /\ shares \in [Sessions -> Nat] /\ total \in Nat /\ found \in Nat
      /\ earnings \in [Sessions -> Nat] /\ earnings' \in [Sessions -> Nat]
      /\ IsFiniteSet(Sessions) /\ Distributable \in Nat
      /\ SumFunction(earnings) \in Nat /\ SumFunction(earnings') \in Nat
  <2>1. IsFiniteSet(Sessions) /\ Distributable \in Nat
    BY ConnectionsAssumption
  <2>2. /\ shares \in [Sessions -> Nat] /\ total \in Nat /\ found \in Nat
        /\ earnings \in [Sessions -> Nat] /\ earnings' \in [Sessions -> Nat]
    BY DEF PoolTypeInv, MinerPoolTypeOK
  <2>. QED
    BY <2>1, <2>2, SumFunctionNat
<1>1. /\ handler[s].does = "pay" /\ Workers' = Workers
      /\ earnings' = [w \in Sessions |->
           IF w \in Workers THEN earnings[w] + (Distributable * shares[w]) \div handler[s].n
           ELSE earnings[w]]
      /\ UNCHANGED <<tip, current, session, shares, total, found, raced>>
  BY DEF DistributeRewards, Workers
<1>2. /\ handler'[s].does = "resetShares"
      /\ \A v \in Sessions : v # s => handler'[v] = handler[v]
  BY DoesGoesOn DEF DistributeRewards, PoolTypeInv
<1>3. Held'
  BY <1>1, <1>2 DEF Credit, Held
<1>4. Counted' = Counted
  BY <1>1, <1>2 DEF Counted
<1>5. Sharing' = Sharing /\ s \in Sharing
  BY <1>1, <1>2, SharingSame DEF Sharing
<1>6. ASSUME ~raced' PROVE OneSharing' /\ Books'
  <2>1. OneSharing /\ Books
    BY <1>1, <1>6 DEF Credit
  <2>2. handler[s].n = total /\ total > 0
        /\ SumFunction(earnings) + Distributable <= Distributable * found
    BY <1>1, <1>5, <2>1 DEF Books
  <2>3. \A v \in Sessions : handler[v].does # "total" /\ handler'[v].does # "total"
    BY <1>2, <1>5, <2>1 DEF OneSharing
  <2>4. Counted \in [Sessions -> Nat]
    BY <1>0, <2>3 DEF Counted
  <2>5. ASSUME NEW w \in Sessions
        PROVE  earnings'[w] = earnings[w] + (Distributable * Counted[w]) \div total
    <3>1. CASE w \in Workers
      <4>1. Counted[w] = shares[w]
        BY <2>3, <3>1 DEF Counted
      <4>. QED
        BY <1>1, <2>2, <3>1, <4>1
    <3>2. CASE w \notin Workers
      <4>1. Counted[w] = 0
        BY <3>2 DEF Counted
      <4>2. Distributable * 0 = 0 /\ 0 \div total = 0 /\ earnings[w] \in Nat
        BY <1>0, <2>2
      <4>. QED
        BY <1>1, <3>2, <4>1, <4>2
    <3>. QED
      BY <3>1, <3>2
  <2>6. SumFunction(earnings') <= SumFunction(earnings) + Distributable
    BY <1>0, <2>1, <2>2, <2>4, <2>5, RewardShared DEF Books
  <2>7. SumFunction(earnings') <= Distributable * found'
    <3>1. PICK x \in Nat : x = Distributable * found
      BY <1>0
    <3>. QED
      BY <1>0, <1>1, <2>2, <2>6, <3>1
  <2>8. OneSharing'
    BY <1>1, <1>2, <1>5, <2>1, <2>3 DEF OneSharing
  <2>9. \A v \in Sharing : v = s
    BY <1>5, <2>1 DEF OneSharing
  <2>10. Books'
    BY <1>1, <1>2, <1>4, <1>5, <2>1, <2>3, <2>7, <2>9 DEF Books
  <2>. QED
    BY <2>8, <2>10
<1>. QED
  BY <1>3, <1>6 DEF Credit

LEMMA CreditResetShares ==
  ASSUME PoolTypeInv, Credit, NEW s \in Sessions, ResetShares(s)
  PROVE  Credit'
<1>0. /\ shares \in [Sessions -> Nat] /\ total \in Nat /\ IsFiniteSet(Sessions)
  BY ConnectionsAssumption DEF PoolTypeInv, MinerPoolTypeOK
<1>1. /\ handler[s].does = "resetShares" /\ Workers' = Workers
      /\ shares' = [w \in Sessions |-> IF w \in Workers THEN 0 ELSE shares[w]]
      /\ UNCHANGED <<tip, current, session, earnings, total, found, raced>>
  BY DEF ResetShares, Workers
<1>2. /\ handler'[s].does = "resetTotal"
      /\ \A v \in Sessions : v # s => handler'[v] = handler[v]
  BY DoesGoesOn DEF ResetShares, PoolTypeInv
<1>3. Held'
  BY <1>0, <1>1, <1>2 DEF Credit, Held
<1>4. Sharing' = Sharing /\ s \in Sharing
  BY <1>1, <1>2, SharingSame DEF Sharing
<1>5. ASSUME ~raced' PROVE OneSharing' /\ Books'
  <2>1. OneSharing /\ Books
    BY <1>1, <1>5 DEF Credit
  <2>2. \A v \in Sessions : handler'[v].does # "total"
    BY <1>2, <1>4, <2>1 DEF OneSharing
  <2>3. Counted' = [w \in Sessions |-> 0]
    BY <1>1, <2>2 DEF Counted
  <2>4. SumFunction(Counted') <= total'
    <3>1. SumFunction([w \in Sessions |-> 0]) = 0
      BY <1>0, SumFunctionZero
    <3>2. SumFunction(Counted') = 0
      BY <2>3, <3>1, Zenon
    <3>. QED
      BY <1>0, <1>1, <3>2
  <2>5. OneSharing'
    BY <1>1, <1>2, <1>4, <2>1, <2>2 DEF OneSharing
  <2>6. \A v \in Sharing : v = s
    BY <1>4, <2>1 DEF OneSharing
  <2>7. \A w \in Workers : shares'[w] = 0
    BY <1>1 DEF Workers
  <2>8. Books'
    BY <1>1, <1>2, <1>4, <2>1, <2>2, <2>4, <2>6, <2>7 DEF Books
  <2>. QED
    BY <2>5, <2>8
<1>. QED
  BY <1>3, <1>5 DEF Credit

LEMMA CreditResetTotal ==
  ASSUME PoolTypeInv, Credit, NEW s \in Sessions, ResetTotal(s)
  PROVE  Credit'
<1>1. /\ handler[s].does = "resetTotal" /\ Workers' = Workers /\ total' = 0
      /\ handler' = [handler EXCEPT ![s] = NotBusy]
      /\ UNCHANGED <<tip, current, session, shares, earnings, found, raced>>
  BY DEF ResetTotal, Workers
<1>2. handler'[s] = NotBusy /\ \A v \in Sessions : v # s => handler'[v] = handler[v]
  BY <1>1, GoesOn DEF PoolTypeInv
<1>3. handler'[s].does = "none" /\ s \in Sharing
  BY <1>1, <1>2 DEF NotBusy, Sharing
<1>4. Held'
  BY <1>1, <1>2, <1>3 DEF Credit, Held
<1>5. ASSUME ~raced' PROVE OneSharing' /\ Books'
  <2>1. OneSharing /\ Books
    BY <1>1, <1>5 DEF Credit
  <2>2. Sharing' = {}
    BY <1>2, <1>3, <2>1 DEF OneSharing, Sharing
  <2>3. \A v \in Sessions : handler'[v].does # "total"
    BY <1>2, <1>3, <2>1 DEF OneSharing
  <2>4. Counted' = [w \in Sessions |-> 0]
    <3>1. \A w \in Workers : shares[w] = 0
      BY <1>1, <1>3, <2>1 DEF Books
    <3>. QED
      BY <1>1, <2>3, <3>1 DEF Counted
  <2>5. SumFunction(Counted') <= total'
    <3>1. SumFunction([w \in Sessions |-> 0]) = 0
      BY ConnectionsAssumption, SumFunctionZero
    <3>2. SumFunction(Counted') = 0
      BY <2>4, <3>1, Zenon
    <3>. QED
      BY <1>1, <3>2
  <2>6. OneSharing'
    BY <2>2 DEF OneSharing
  <2>7. Books'
    BY <1>1, <2>1, <2>2, <2>3, <2>5 DEF Books
  <2>. QED
    BY <2>6, <2>7
<1>. QED
  BY <1>4, <1>5 DEF Credit

LEMMA CreditNext ==
  ASSUME PoolTypeInv, PoolTypeInv', Credit, MinerPoolNext
  PROVE  Credit'
<1>. USE DEF poolVars, lineVars, clientVars
<1>0. /\ tip \in Nat /\ tip' \in Nat /\ current \in Nat /\ current <= tip
      /\ \A s \in Sessions : handler[s].does # "none" => s \in Workers
  BY DEF PoolTypeInv, MinerPoolTypeOK, Jobs, Credit, Held
<1>1. ASSUME UNCHANGED <<tip, current, session, handler, shares, earnings, total, found, raced>>
      PROVE  Credit'
  BY <1>0, <1>1, CreditCalm
<1>2. ASSUME NodeAdvances \/ WorkFetcher \/ SendMiningWork \/ StatsPrinter PROVE Credit'
  <2>1. /\ tip' >= tip /\ current' <= tip'
        /\ UNCHANGED <<session, handler, shares, earnings, total, found, raced>>
    BY <1>0, <1>2 DEF NodeAdvances, WorkFetcher, SendMiningWork, StatsPrinter
  <2>. QED
    BY <1>0, <2>1, CreditCalm
<1>3. ASSUME NEW s \in Sessions, HandleSubscribe(s) PROVE Credit'
  BY <1>1, <1>3 DEF HandleSubscribe
<1>4. ASSUME NEW s \in Sessions, HandleAuthorize(s) PROVE Credit'
  <2>. DEFINE h == IF current = 0 THEN handler[s]
                   ELSE [NotBusy EXCEPT !.does = "work", !.n = current]
  <2>1. /\ session[s] \in {"in", "authorized"} /\ handler[s] = NotBusy
        /\ session' = [session EXCEPT ![s] = "authorized"]
        /\ UNCHANGED <<tip, current, shares, earnings, total, found, raced>>
    BY <1>4 DEF HandleAuthorize, Takes
  <2>2. handler' = [handler EXCEPT ![s] = h]
    <3>1. handler \in [Sessions -> Handler]
      BY DEF PoolTypeInv, MinerPoolTypeOK
    <3>. QED
      BY <1>4, <3>1 DEF HandleAuthorize
  <2>3. h.does \in {"none", "work"} /\ handler[s].does = "none"
    BY <2>1 DEF NotBusy
  <2>. HIDE DEF h
  <2>4. session \in [Sessions -> {"unused", "in", "authorized", "gone"}]
    BY DEF PoolTypeInv, MinerPoolTypeOK
  <2>5. s \in Workers /\ Workers' = Workers
        /\ \A v \in Sessions : session'[v] = "unused" => session[v] = "unused"
    BY <2>1, <2>4 DEF Workers
  <2>. QED
    BY <2>1, <2>2, <2>3, <2>5, CreditAside
<1>5. ASSUME NEW s \in Sessions, HandleSubmit(s) PROVE Credit'
  <2>. DEFINE h == [NotBusy EXCEPT !.does = "check", !.share = Head(toPool[s]).share]
  <2>1. /\ session[s] \in {"in", "authorized"} /\ handler[s] = NotBusy
        /\ \/ UNCHANGED handler
           \/ current = Head(toPool[s]).share.job /\ handler' = [handler EXCEPT ![s] = h]
        /\ UNCHANGED <<tip, current, session, shares, earnings, total, found, raced>>
    BY <1>5 DEF HandleSubmit, Takes
  <2>2. /\ h.does = "check" /\ h.share = Head(toPool[s]).share /\ handler[s].does = "none"
    BY <2>1 DEF NotBusy
  <2>. HIDE DEF h
  <2>3. s \in Workers /\ Workers' = Workers
    BY <2>1 DEF Workers
  <2>4. CASE UNCHANGED handler
    BY <1>1, <2>1, <2>4
  <2>5. CASE current = Head(toPool[s]).share.job /\ handler' = [handler EXCEPT ![s] = h]
    BY <1>0, <2>1, <2>2, <2>3, <2>5, CreditAside
  <2>. QED
    BY <2>1, <2>4, <2>5
<1>6. ASSUME NEW s \in Sessions, SendAuthorizedWork(s) \/ BlockRefused(s) PROVE Credit'
  <2>1. /\ handler[s].does \in {"work", "refused"} /\ handler' = [handler EXCEPT ![s] = NotBusy]
        /\ UNCHANGED <<tip, current, session, shares, earnings, total, found, raced>>
    BY <1>6 DEF SendAuthorizedWork, BlockRefused
  <2>2. s \in Workers /\ Workers' = Workers /\ NotBusy.does = "none"
    BY <1>0, <2>1 DEF Workers, NotBusy
  <2>. QED
    BY <2>1, <2>2, CreditAside
<1>7. ASSUME NEW c \in Clients,
             \/ Subscribed(c) \/ Authorized(c) \/ HandleNotify(c)
             \/ \E b \in BOOLEAN : SubmitWork(c, b)
             \/ ConnectionLost(c)
      PROVE  Credit'
  <2>1. UNCHANGED <<tip, current, session, handler, shares, earnings, total, found, raced>>
    BY <1>7 DEF Subscribed, Authorized, HandleNotify, SubmitWork, ConnectionLost
  <2>. QED
    BY <1>1, <2>1
<1>. QED
  BY <1>2, <1>3, <1>4, <1>5, <1>6, <1>7, CreditLeaves, CreditConnects, CreditCountShare,
     CreditCountTotal, CreditSolution, CreditDistribute, CreditResetShares, CreditResetTotal
     DEF MinerPoolNext, HandleWorker

\* The workers of the miner's own pool are credited no more than its blocks paid,
\* unless a share was counted while a reward was being shared out, for any
\* number of sessions, whoever leaves and connects again.
THEOREM CreditsBoundedCorrect ==
  MinerPoolSpec => []CreditsBounded
<1>1. MinerPoolInit => Credit
  <2>. SUFFICES ASSUME MinerPoolInit PROVE Credit
    OBVIOUS
  <2>1. /\ \A s \in Sessions : handler[s].does = "none"
        /\ current <= tip /\ \A s \in Sessions : shares[s] = 0
        /\ earnings = [s \in Sessions |-> 0] /\ total = 0 /\ found = 0
    BY DEF MinerPoolInit, NotBusy
  <2>2. Held
    BY <2>1 DEF Held
  <2>3. Sharing = {} /\ Counted = [s \in Sessions |-> 0]
    BY <2>1 DEF Sharing, Counted
  <2>4. SumFunction([s \in Sessions |-> 0]) = 0
    BY ConnectionsAssumption, SumFunctionZero
  <2>5. SumFunction(Counted) = 0 /\ SumFunction(earnings) = 0
    BY <2>1, <2>3, <2>4, Zenon
  <2>6. Distributable * 0 = 0
    BY ConnectionsAssumption
  <2>7. OneSharing /\ Books
    BY <2>1, <2>3, <2>5, <2>6 DEF OneSharing, Books
  <2>. QED
    BY <2>2, <2>7 DEF Credit
<1>2. PoolTypeInv /\ PoolTypeInv' /\ Credit /\ [MinerPoolNext]_minerPoolVars => Credit'
  <2>. SUFFICES ASSUME PoolTypeInv, PoolTypeInv', Credit, [MinerPoolNext]_minerPoolVars PROVE Credit'
    OBVIOUS
  <2>1. CASE MinerPoolNext
    BY <2>1, CreditNext
  <2>2. CASE UNCHANGED minerPoolVars
    <3>1. /\ tip' = tip /\ current' = current
          /\ UNCHANGED <<session, handler, shares, earnings, total, found, raced>>
      BY <2>2 DEF minerPoolVars, poolVars
    <3>2. tip \in Nat /\ current <= tip
      BY DEF PoolTypeInv, MinerPoolTypeOK, Jobs, Credit, Held
    <3>. QED
      BY <3>1, <3>2, CreditCalm
  <2>. QED
    BY <2>1, <2>2
<1>3. Credit => CreditsBounded
  <2>. SUFFICES ASSUME Credit, ~raced PROVE SumFunction(earnings) <= Distributable * found
    BY DEF CreditsBounded
  <2>. QED
    BY PoolSum DEF Credit, Books
<1>. QED
  BY <1>1, <1>2, <1>3, PoolTypeAlways, PTL DEF MinerPoolSpec
-----------------------------------------------------------------------------
(* The job that a client is given                                          *)

\* The last job among the lines of q, which is not before line from, is n.
Newest(q, n, from) ==
    \E i \in from..Len(q) : /\ q[i].is = "notify" /\ q[i].job = n
                            /\ \A k \in (i + 1)..Len(q) : q[k].is # "notify"

Silent(q) == \A i \in 1..Len(q) : q[i].is # "notify"

AsksIn(q) == \E i \in 1..Len(q) : q[i].is = "authorize"

\* A client that reads the lines q will mine n in the end, although it takes the
\* first of them for an answer while it authorizes.
Told(q, n, does, j) ==
    \/ Newest(q, n, IF does = "authorizing" THEN 2 ELSE 1)
    \/ does = "working" /\ Silent(q) /\ j = n
    \/ does = "authorizing" /\ n = 0

LEMMA NewestMore ==
  ASSUME NEW q \in Seq(Answers), NEW lines \in Seq(Answers), Silent(lines),
         NEW n, NEW from \in {1, 2}, Newest(q, n, from)
  PROVE  Newest(q \o lines, n, from)
<1>1. /\ Len(q \o lines) = Len(q) + Len(lines) /\ Len(q) \in Nat /\ Len(lines) \in Nat
      /\ \A k \in 1..Len(q) : (q \o lines)[k] = q[k]
      /\ \A k \in (Len(q) + 1)..(Len(q) + Len(lines)) : (q \o lines)[k] = lines[k - Len(q)]
  BY ConcatProperties, LenProperties
<1>2. PICK i \in from..Len(q) : /\ q[i].is = "notify" /\ q[i].job = n
                                /\ \A k \in (i + 1)..Len(q) : q[k].is # "notify"
  BY DEF Newest
<1>3. i \in from..Len(q \o lines) /\ (q \o lines)[i] = q[i]
  BY <1>1, <1>2
<1>4. ASSUME NEW k \in (i + 1)..Len(q \o lines) PROVE (q \o lines)[k].is # "notify"
  <2>1. CASE k <= Len(q)
    BY <1>1, <1>2, <1>4, <2>1
  <2>2. CASE k > Len(q)
    <3>1. k - Len(q) \in 1..Len(lines) /\ (q \o lines)[k] = lines[k - Len(q)]
      BY <1>1, <1>4, <2>2
    <3>. QED
      BY <3>1 DEF Silent
  <2>. QED
    BY <1>1, <1>2, <2>1, <2>2
<1>. QED
  BY <1>2, <1>3, <1>4 DEF Newest

LEMMA SilentMore ==
  ASSUME NEW q \in Seq(Answers), NEW lines \in Seq(Answers), Silent(lines), Silent(q)
  PROVE  Silent(q \o lines)
<1>1. /\ Len(q \o lines) = Len(q) + Len(lines) /\ Len(q) \in Nat /\ Len(lines) \in Nat
      /\ \A k \in 1..Len(q) : (q \o lines)[k] = q[k]
      /\ \A k \in (Len(q) + 1)..(Len(q) + Len(lines)) : (q \o lines)[k] = lines[k - Len(q)]
  BY ConcatProperties, LenProperties
<1>2. ASSUME NEW k \in 1..Len(q \o lines) PROVE (q \o lines)[k].is # "notify"
  <2>1. CASE k <= Len(q)
    BY <1>1, <1>2, <2>1 DEF Silent
  <2>2. CASE k > Len(q)
    <3>1. k - Len(q) \in 1..Len(lines) /\ (q \o lines)[k] = lines[k - Len(q)]
      BY <1>1, <1>2, <2>2
    <3>. QED
      BY <3>1 DEF Silent
  <2>. QED
    BY <1>1, <2>1, <2>2
<1>. QED
  BY <1>2 DEF Silent

LEMMA ToldMore ==
  ASSUME NEW q \in Seq(Answers), NEW lines \in Seq(Answers), Silent(lines),
         NEW n, NEW does, NEW j, Told(q, n, does, j)
  PROVE  Told(q \o lines, n, does, j)
<1>1. PICK from \in {1, 2} : from = IF does = "authorizing" THEN 2 ELSE 1
  OBVIOUS
<1>2. Newest(q, n, from) => Newest(q \o lines, n, from)
  BY NewestMore
<1>3. Silent(q) => Silent(q \o lines)
  BY SilentMore
<1>. QED
  BY <1>1, <1>2, <1>3 DEF Told

\* After "difficulty" and "notify", whoever reads.
LEMMA ToldWork ==
  ASSUME NEW q \in Seq(Answers), NEW n \in Jobs, NEW does, NEW j
  PROVE  Told(q \o MiningWork(n), n, does, j)
<1>. DEFINE work2 == MiningWork(n)
<1>1. work2 \in Seq(Answers)
  BY PoolLines
<1>2. Len(work2) = 2 /\ work2[2].is = "notify" /\ work2[2].job = n
  BY DEF MiningWork
<1>. HIDE DEF work2
<1>3. /\ Len(q) \in Nat /\ Len(q \o work2) = Len(q) + 2
      /\ (q \o work2)[Len(q) + 2] = work2[2]
  <2>1. /\ Len(q) \in Nat /\ Len(q \o work2) = Len(q) + Len(work2)
        /\ \A k \in (Len(q) + 1)..(Len(q) + Len(work2)) : (q \o work2)[k] = work2[k - Len(q)]
    BY <1>1, ConcatProperties, LenProperties
  <2>2. Len(q) + 2 \in (Len(q) + 1)..(Len(q) + Len(work2)) /\ (Len(q) + 2) - Len(q) = 2
    BY <1>2, <2>1
  <2>. QED
    BY <1>2, <2>1, <2>2
<1>4. PICK i \in Nat : i = Len(q) + 2
  BY <1>3
<1>5. ASSUME NEW from \in {1, 2} PROVE Newest(q \o work2, n, from)
  BY <1>2, <1>3, <1>4 DEF Newest
<1>. QED
  BY <1>5 DEF Told, work2

LEMMA TailLines ==
  ASSUME NEW S, NEW q \in Seq(S), q # <<>>
  PROVE  /\ Len(q) \in Nat /\ Len(q) > 0 /\ Head(q) = q[1]
         /\ Tail(q) \in Seq(S) /\ Len(Tail(q)) = Len(q) - 1
         /\ \A i \in 1..Len(Tail(q)) : Tail(q)[i] = q[i + 1]
BY HeadTailProperties, LenProperties, EmptySeq

\* The client reads a line for the answer to its authorization,
LEMMA ToldAuthorized ==
  ASSUME NEW q \in Seq(Answers), q # <<>>, NEW n, NEW j,
         Told(q, n, "authorizing", j), n = 0 => Silent(q) /\ j = 0
  PROVE  Told(Tail(q), n, "working", j)
<1>1. /\ Len(q) \in Nat /\ Len(Tail(q)) = Len(q) - 1
      /\ \A i \in 1..Len(Tail(q)) : Tail(q)[i] = q[i + 1]
  BY TailLines
<1>2. CASE Newest(q, n, 2)
  <2>1. PICK i \in 2..Len(q) : /\ q[i].is = "notify" /\ q[i].job = n
                               /\ \A k \in (i + 1)..Len(q) : q[k].is # "notify"
    BY <1>2 DEF Newest
  <2>2. PICK m \in 1..Len(Tail(q)) : m = i - 1
    BY <1>1, <2>1
  <2>3. Tail(q)[m] = q[i]
    BY <1>1, <2>2
  <2>4. \A k \in (m + 1)..Len(Tail(q)) : Tail(q)[k].is # "notify"
    BY <1>1, <2>1, <2>2
  <2>. QED
    BY <2>1, <2>3, <2>4 DEF Told, Newest
<1>3. CASE n = 0
  <2>1. Silent(Tail(q))
    BY <1>1, <1>3 DEF Silent
  <2>. QED
    BY <1>3, <2>1 DEF Told
<1>. QED
  BY <1>2, <1>3 DEF Told

\* and as a worker.
LEMMA ToldRead ==
  ASSUME NEW q \in Seq(Answers), q # <<>>, NEW n, NEW j, Told(q, n, "working", j)
  PROVE  Told(Tail(q), n, "working", IF Head(q).is = "notify" THEN Head(q).job ELSE j)
<1>1. /\ Len(q) \in Nat /\ Len(q) > 0 /\ Head(q) = q[1] /\ Len(Tail(q)) = Len(q) - 1
      /\ \A i \in 1..Len(Tail(q)) : Tail(q)[i] = q[i + 1]
  BY TailLines
<1>2. CASE Newest(q, n, 1)
  <2>1. PICK i \in 1..Len(q) : /\ q[i].is = "notify" /\ q[i].job = n
                               /\ \A k \in (i + 1)..Len(q) : q[k].is # "notify"
    BY <1>2 DEF Newest
  <2>2. CASE i = 1
    <3>1. Silent(Tail(q))
      BY <1>1, <2>1, <2>2 DEF Silent
    <3>. QED
      BY <1>1, <2>1, <2>2, <3>1 DEF Told
  <2>3. CASE i # 1
    <3>1. PICK m \in 1..Len(Tail(q)) : m = i - 1
      BY <1>1, <2>1, <2>3
    <3>2. Tail(q)[m] = q[i]
      BY <1>1, <3>1
    <3>3. \A k \in (m + 1)..Len(Tail(q)) : Tail(q)[k].is # "notify"
      BY <1>1, <2>1, <3>1
    <3>. QED
      BY <2>1, <3>2, <3>3 DEF Told, Newest
  <2>. QED
    BY <2>2, <2>3
<1>3. CASE Silent(q) /\ j = n
  <2>1. Silent(Tail(q)) /\ Head(q).is # "notify"
    BY <1>1, <1>3 DEF Silent
  <2>. QED
    BY <1>3, <2>1 DEF Told
<1>. QED
  BY <1>2, <1>3 DEF Told

\* Lines to the pool.
LEMMA AsksTail ==
  ASSUME NEW q \in Seq(Asks), q # <<>>
  PROVE  /\ AsksIn(Tail(q)) => AsksIn(q)
         /\ AsksIn(q) /\ Head(q).is # "authorize" => AsksIn(Tail(q))
         /\ Head(q).is = "authorize" => AsksIn(q)
<1>1. /\ Len(q) \in Nat /\ Len(q) > 0 /\ Head(q) = q[1] /\ Len(Tail(q)) = Len(q) - 1
      /\ \A i \in 1..Len(Tail(q)) : Tail(q)[i] = q[i + 1]
  BY TailLines
<1>2. ASSUME AsksIn(Tail(q)) PROVE AsksIn(q)
  <2>1. PICK i \in 1..Len(Tail(q)) : Tail(q)[i].is = "authorize"
    BY <1>2 DEF AsksIn
  <2>2. i + 1 \in 1..Len(q) /\ q[i + 1].is = "authorize"
    BY <1>1, <2>1
  <2>. QED
    BY <2>2 DEF AsksIn
<1>3. ASSUME AsksIn(q), Head(q).is # "authorize" PROVE AsksIn(Tail(q))
  <2>1. PICK i \in 1..Len(q) : q[i].is = "authorize"
    BY <1>3 DEF AsksIn
  <2>2. PICK m \in 1..Len(Tail(q)) : m = i - 1
    BY <1>1, <1>3, <2>1
  <2>3. Tail(q)[m].is = "authorize"
    BY <1>1, <2>1, <2>2
  <2>. QED
    BY <2>3 DEF AsksIn
<1>4. ASSUME Head(q).is = "authorize" PROVE AsksIn(q)
  <2>1. 1 \in 1..Len(q) /\ q[1].is = "authorize"
    BY <1>1, <1>4
  <2>. QED
    BY <2>1 DEF AsksIn
<1>. QED
  BY <1>2, <1>3, <1>4

LEMMA AsksAppend ==
  ASSUME NEW q \in Seq(Asks), NEW a \in Asks
  PROVE  AsksIn(Append(q, a)) <=> AsksIn(q) \/ a.is = "authorize"
<1>1. /\ Len(q) \in Nat /\ Len(Append(q, a)) = Len(q) + 1
      /\ \A i \in 1..Len(q) : Append(q, a)[i] = q[i]
      /\ Append(q, a)[Len(q) + 1] = a
  BY AppendProperties, LenProperties
<1>2. PICK l \in Nat : l = Len(q)
  BY <1>1
<1>3. ASSUME AsksIn(Append(q, a)) PROVE AsksIn(q) \/ a.is = "authorize"
  <2>1. PICK i \in 1..(l + 1) : Append(q, a)[i].is = "authorize"
    BY <1>1, <1>2, <1>3 DEF AsksIn
  <2>2. CASE i = l + 1
    BY <1>1, <1>2, <2>1, <2>2
  <2>3. CASE i # l + 1
    <3>1. i \in 1..Len(q)
      BY <1>2, <2>3
    <3>. QED
      BY <1>1, <2>1, <3>1 DEF AsksIn
  <2>. QED
    BY <2>2, <2>3
<1>4. ASSUME AsksIn(q) PROVE AsksIn(Append(q, a))
  BY <1>1, <1>2, <1>4 DEF AsksIn
<1>5. ASSUME a.is = "authorize" PROVE AsksIn(Append(q, a))
  <2>1. l + 1 \in 1..Len(Append(q, a)) /\ Append(q, a)[l + 1].is = "authorize"
    BY <1>1, <1>2, <1>5
  <2>. QED
    BY <2>1 DEF AsksIn
<1>. QED
  BY <1>3, <1>4, <1>5

LEMMA SilentLine ==
  ASSUME NEW what \in {"ok", "error", "stats"}
  PROVE  Silent(<<Answer(what)>>) /\ <<Answer(what)>> \in Seq(Answers)
BY PoolLines DEF Silent, Answer

\* Who is connected.  A client that awaits the answer to its authorization, or
\* got it, has been authorized or will be by a line that is under way.
Connected ==
    /\ \A c, d \in Clients : conn[c] = conn[d] /\ conn[c] # 0 => c = d
    /\ \A c \in Clients : client[c] = "down" <=> conn[c] = 0
    /\ \A c \in Clients : conn[c] # 0 => conn[c] \in Workers
    /\ \A c \in Clients : client[c] = "subscribing" =>
          session[conn[c]] = "in" /\ ~AsksIn(toPool[conn[c]])
    /\ \A c \in Clients : client[c] \in {"authorizing", "working"} =>
          session[conn[c]] = "authorized" \/ AsksIn(toPool[conn[c]])

NoWorkYet ==
    current = 0 => /\ ~announce
                   /\ \A s \in Sessions : Silent(toClient[s]) /\ handler[s].does # "work"
                   /\ \A c \in Clients : job[c].job = 0

\* What handleAuthorize and sendMiningWork owe session s has been sent.
Served(s) ==
    session[s] = "authorized" /\ ~announce /\ handler[s].does # "work" /\ s \notin overtaken

AllTold ==
    \A c \in Clients : conn[c] # 0 /\ Served(conn[c]) =>
        Told(toClient[conn[c]], current, client[c], job[c].job)

Lines == Connected /\ NoWorkYet /\ AllTold

\* The server writes lines that are no jobs, or none.
LEMMA LinesServer ==
  ASSUME MinerPoolTypeOK, Lines, UNCHANGED <<current, announce, client, conn, job, overtaken>>,
         \A s \in Sessions :
            \/ toClient'[s] = toClient[s]
            \/ \E lines \in Seq(Answers) : Silent(lines) /\ toClient'[s] = toClient[s] \o lines,
         \A c \in Clients : conn[c] # 0 => session'[conn[c]] = session[conn[c]],
         \A s \in Sessions : handler'[s].does = "work" <=> handler[s].does = "work",
         \A s \in Sessions : AsksIn(toPool'[s]) <=> AsksIn(toPool[s])
  PROVE  Lines'
<1>0. /\ toClient \in [Sessions -> Seq(Answers)] /\ conn \in [Clients -> Sessions \cup {0}]
      /\ client \in [Clients -> {"down", "subscribing", "authorizing", "working"}]
      /\ Connected /\ NoWorkYet /\ AllTold
  BY DEF MinerPoolTypeOK, Lines
<1>1. \A c \in Clients : conn[c] # 0 => conn[c] \in Sessions
  BY <1>0
<1>2. Connected'
  <2>1. \A c \in Clients : conn[c] # 0 => conn[c] \in Workers'
    BY <1>0, <1>1 DEF Connected, Workers
  <2>2. \A c \in Clients : client[c] # "down" => conn[c] # 0
    BY <1>0 DEF Connected
  <2>. QED
    BY <1>0, <1>1, <2>1, <2>2 DEF Connected
<1>3. NoWorkYet'
  <2>1. ASSUME current = 0, NEW s \in Sessions
        PROVE  Silent(toClient'[s]) /\ handler'[s].does # "work"
    <3>1. Silent(toClient[s]) /\ toClient[s] \in Seq(Answers) /\ handler[s].does # "work"
      BY <1>0, <2>1 DEF NoWorkYet
    <3>2. ASSUME NEW lines \in Seq(Answers), Silent(lines)
          PROVE  Silent(toClient[s] \o lines)
      BY <3>1, <3>2, SilentMore
    <3>. QED
      BY <3>1, <3>2
  <2>. QED
    BY <1>0, <2>1 DEF NoWorkYet
<1>4. AllTold'
  <2>. SUFFICES ASSUME NEW c \in Clients, conn[c] # 0, Served(conn[c])'
                PROVE  Told(toClient'[conn[c]], current, client[c], job[c].job)
    BY DEF AllTold
  <2>1. conn[c] \in Sessions /\ Served(conn[c])
    BY <1>1 DEF Served
  <2>2. Told(toClient[conn[c]], current, client[c], job[c].job)
    BY <1>0, <2>1 DEF AllTold
  <2>3. CASE toClient'[conn[c]] = toClient[conn[c]]
    BY <2>2, <2>3
  <2>4. ASSUME NEW lines \in Seq(Answers), Silent(lines),
               toClient'[conn[c]] = toClient[conn[c]] \o lines
        PROVE  Told(toClient'[conn[c]], current, client[c], job[c].job)
    BY <1>0, <2>1, <2>2, <2>4, ToldMore
  <2>. QED
    BY <2>1, <2>3, <2>4
<1>. QED
  BY <1>2, <1>3, <1>4 DEF Lines

LEMMA SaysSilent ==
  ASSUME MinerPoolTypeOK, NEW s \in Sessions, NEW what \in {"ok", "error", "stats"},
         Says(s, <<Answer(what)>>)
  PROVE  \A v \in Sessions :
            \/ toClient'[v] = toClient[v]
            \/ \E lines \in Seq(Answers) : Silent(lines) /\ toClient'[v] = toClient[v] \o lines
<1>. DEFINE line == <<Answer(what)>>
<1>1. toClient \in [Sessions -> Seq(Answers)] /\ line \in Seq(Answers) /\ Silent(line)
  BY SilentLine DEF MinerPoolTypeOK
<1>2. Says(s, line)
  OBVIOUS
<1>. HIDE DEF line
<1>. QED
  BY <1>1, <1>2 DEF Says

LEMMA TakesAsks ==
  ASSUME MinerPoolTypeOK, NEW s \in Sessions, Takes(s), Head(toPool[s]).is # "authorize"
  PROVE  \A v \in Sessions : AsksIn(toPool'[v]) <=> AsksIn(toPool[v])
<1>1. toPool \in [Sessions -> Seq(Asks)] /\ toPool[s] # <<>>
      /\ toPool' = [toPool EXCEPT ![s] = Tail(toPool[s])]
  BY DEF MinerPoolTypeOK, Takes
<1>2. AsksIn(Tail(toPool[s])) <=> AsksIn(toPool[s])
  BY <1>1, AsksTail
<1>. QED
  BY <1>1, <1>2

\* Steps of the server that are neither about jobs nor the authorization.
LEMMA LinesHandler ==
  ASSUME MinerPoolTypeOK, Lines, NEW s \in Sessions,
         \/ HandleSubscribe(s) \/ HandleSubmit(s) \/ CountShare(s) \/ CountTotal(s)
         \/ \E b \in BOOLEAN : HandleBlockSolution(s, b)
         \/ BlockRefused(s) \/ DistributeRewards(s) \/ ResetShares(s) \/ ResetTotal(s)
         \/ WorkerLeaves(s)
  PROVE  Lines'
<1>. USE DEF poolVars, lineVars, clientVars
<1>0. handler \in [Sessions -> Handler] /\ conn \in [Clients -> Sessions \cup {0}]
      /\ session \in [Sessions -> {"unused", "in", "authorized", "gone"}]
  BY DEF MinerPoolTypeOK
<1>1. ASSUME UNCHANGED <<current, announce, session, client, conn, job, overtaken>>,
             handler[s].does # "work", handler'[s].does # "work",
             \A v \in Sessions : v # s => handler'[v] = handler[v],
             \/ UNCHANGED toClient
             \/ \E what \in {"ok", "error", "stats"} : Says(s, <<Answer(what)>>),
             \/ UNCHANGED toPool
             \/ Takes(s) /\ Head(toPool[s]).is # "authorize"
      PROVE  Lines'
  <2>1. \A v \in Sessions :
            \/ toClient'[v] = toClient[v]
            \/ \E lines \in Seq(Answers) : Silent(lines) /\ toClient'[v] = toClient[v] \o lines
    BY <1>1, SaysSilent
  <2>2. \A v \in Sessions : AsksIn(toPool'[v]) <=> AsksIn(toPool[v])
    BY <1>1, TakesAsks
  <2>3. \A v \in Sessions : handler'[v].does = "work" <=> handler[v].does = "work"
    BY <1>1
  <2>. QED
    BY <1>1, <2>1, <2>2, <2>3, LinesServer
<1>2. ASSUME NEW what \in {"none", "check", "total", "submit", "refused", "pay", "resetShares",
                           "resetTotal"}, NEW n, Does(s, what, n)
      PROVE  handler'[s].does # "work" /\ \A v \in Sessions : v # s => handler'[v] = handler[v]
  BY <1>2, DoesGoesOn
<1>3. ASSUME handler' = [handler EXCEPT ![s] = NotBusy]
      PROVE  handler'[s].does # "work" /\ \A v \in Sessions : v # s => handler'[v] = handler[v]
  BY <1>0, <1>3 DEF NotBusy
<1>4. CASE HandleSubscribe(s)
  <2>1. NotBusy.does = "none"
    BY DEF NotBusy
  <2>. QED
    BY <1>1, <1>4, <2>1 DEF HandleSubscribe, Takes
<1>5. CASE HandleSubmit(s)
  <2>. DEFINE h == [NotBusy EXCEPT !.does = "check", !.share = Head(toPool[s]).share]
  <2>1. NotBusy.does = "none" /\ h.does = "check"
    BY DEF NotBusy
  <2>2. /\ Takes(s) /\ handler[s] = NotBusy /\ Head(toPool[s]).is # "authorize"
        /\ \/ UNCHANGED toClient /\ handler' = [handler EXCEPT ![s] = h]
           \/ Says(s, <<Answer("error")>>) /\ UNCHANGED handler
        /\ UNCHANGED <<current, announce, session, client, conn, job, overtaken>>
    BY <1>5 DEF HandleSubmit, Takes
  <2>. HIDE DEF h
  <2>3. handler'[s].does # "work" /\ \A v \in Sessions : v # s => handler'[v] = handler[v]
    BY <1>0, <2>1, <2>2
  <2>. QED
    BY <1>1, <2>1, <2>2, <2>3
<1>6. CASE CountShare(s)
  BY <1>1, <1>2, <1>6 DEF CountShare
<1>7. CASE CountTotal(s)
  <2>1. Does(s, "submit", 0) \/ handler' = [handler EXCEPT ![s] = NotBusy]
    BY <1>7 DEF CountTotal
  <2>2. handler'[s].does # "work" /\ \A v \in Sessions : v # s => handler'[v] = handler[v]
    BY <1>2, <1>3, <2>1
  <2>. QED
    BY <1>1, <1>7, <2>2 DEF CountTotal
<1>8. ASSUME NEW b \in BOOLEAN, HandleBlockSolution(s, b) PROVE Lines'
  <2>1. \E what \in {"refused", "pay", "resetShares"} : Does(s, what, total)
    <3>1. total > 0 \/ total = 0
      BY DEF MinerPoolTypeOK
    <3>. QED
      BY <1>8, <3>1 DEF HandleBlockSolution
  <2>2. handler'[s].does # "work" /\ \A v \in Sessions : v # s => handler'[v] = handler[v]
    BY <1>2, <2>1
  <2>. QED
    BY <1>1, <1>8, <2>2 DEF HandleBlockSolution
<1>9. CASE BlockRefused(s) \/ ResetTotal(s)
  BY <1>1, <1>3, <1>9 DEF BlockRefused, ResetTotal
<1>10. CASE DistributeRewards(s)
  BY <1>1, <1>2, <1>10 DEF DistributeRewards
<1>11. CASE ResetShares(s)
  BY <1>1, <1>2, <1>11 DEF ResetShares
<1>12. CASE WorkerLeaves(s)
  <2>1. /\ UNCHANGED <<current, announce, handler, toClient, toPool, client, conn, job, overtaken>>
        /\ session' = [session EXCEPT ![s] = "gone"] /\ \A c \in Clients : conn[c] # s
    BY <1>12 DEF WorkerLeaves, Open
  <2>2. \A c \in Clients : conn[c] # 0 => session'[conn[c]] = session[conn[c]]
    BY <1>0, <2>1
  <2>. QED
    BY <2>1, <2>2, LinesServer
<1>. QED
  BY <1>4, <1>5, <1>6, <1>7, <1>8, <1>9, <1>10, <1>11, <1>12

\* A session is authorized, and takes the current work unless there is none.
LEMMA LinesAuthorize ==
  ASSUME MinerPoolTypeOK, Lines, NEW s \in Sessions, HandleAuthorize(s)
  PROVE  Lines'
<1>0. /\ toClient \in [Sessions -> Seq(Answers)] /\ toPool \in [Sessions -> Seq(Asks)]
      /\ conn \in [Clients -> Sessions \cup {0}] /\ handler \in [Sessions -> Handler]
      /\ session \in [Sessions -> {"unused", "in", "authorized", "gone"}]
      /\ client \in [Clients -> {"down", "subscribing", "authorizing", "working"}]
      /\ Connected /\ NoWorkYet /\ AllTold
  BY DEF MinerPoolTypeOK, Lines
<1>1. /\ Takes(s) /\ Head(toPool[s]).is = "authorize" /\ session[s] \in {"in", "authorized"}
      /\ toPool[s] # <<>> /\ toPool' = [toPool EXCEPT ![s] = Tail(toPool[s])]
      /\ session' = [session EXCEPT ![s] = "authorized"]
      /\ Says(s, <<Answer("ok")>>)
      /\ handler' = IF current = 0 THEN handler
                    ELSE [handler EXCEPT ![s] = [NotBusy EXCEPT !.does = "work", !.n = current]]
      /\ UNCHANGED <<current, announce, client, conn, job, overtaken>>
  BY DEF HandleAuthorize, Takes, clientVars
<1>2. AsksIn(toPool[s])
  BY <1>0, <1>1, AsksTail
<1>3. \A v \in Sessions : v # s => session'[v] = session[v] /\ toPool'[v] = toPool[v]
                                   /\ handler'[v] = handler[v]
  BY <1>0, <1>1
<1>4. \A v \in Sessions :
         \/ toClient'[v] = toClient[v]
         \/ \E lines \in Seq(Answers) : Silent(lines) /\ toClient'[v] = toClient[v] \o lines
  BY <1>1, SaysSilent
<1>5. Connected'
  <2>1. ASSUME NEW c \in Clients, conn[c] # 0 PROVE conn[c] \in Workers'
    BY <1>0, <1>1, <1>3, <2>1 DEF Connected, Workers
  <2>2. ASSUME NEW c \in Clients, client[c] = "subscribing"
        PROVE  session'[conn[c]] = "in" /\ ~AsksIn(toPool'[conn[c]])
    <3>1. conn[c] \in Sessions /\ conn[c] # s
      BY <1>0, <1>2, <2>2 DEF Connected
    <3>. QED
      BY <1>0, <1>3, <2>2, <3>1 DEF Connected
  <2>3. ASSUME NEW c \in Clients, client[c] \in {"authorizing", "working"}
        PROVE  session'[conn[c]] = "authorized" \/ AsksIn(toPool'[conn[c]])
    <3>1. conn[c] \in Sessions
      BY <1>0, <2>3 DEF Connected
    <3>2. CASE conn[c] = s
      BY <1>0, <1>1, <3>2
    <3>3. CASE conn[c] # s
      BY <1>0, <1>3, <2>3, <3>1, <3>3 DEF Connected
    <3>. QED
      BY <3>2, <3>3
  <2>. QED
    BY <1>0, <1>1, <2>1, <2>2, <2>3 DEF Connected
<1>6. NoWorkYet'
  <2>1. ASSUME current = 0, NEW v \in Sessions
        PROVE  Silent(toClient'[v]) /\ handler'[v].does # "work"
    BY <1>0, <1>1, <1>4, <2>1, SilentMore DEF NoWorkYet
  <2>. QED
    BY <1>0, <1>1, <2>1 DEF NoWorkYet
<1>7. AllTold'
  <2>. SUFFICES ASSUME NEW c \in Clients, conn[c] # 0, Served(conn[c])'
                PROVE  Told(toClient'[conn[c]], current, client[c], job[c].job)
    BY <1>1 DEF AllTold
  <2>1. conn[c] \in Sessions
    BY <1>0
  <2>2. CASE conn[c] # s
    <3>1. Served(conn[c])
      BY <1>1, <1>3, <2>1, <2>2 DEF Served
    <3>2. Told(toClient[conn[c]], current, client[c], job[c].job)
      BY <1>0, <3>1 DEF AllTold
    <3>. QED
      <4>1. toClient[conn[c]] \in Seq(Answers)
        BY <1>0, <2>1
      <4>2. ASSUME NEW lines \in Seq(Answers), Silent(lines)
            PROVE  Told(toClient[conn[c]] \o lines, current, client[c], job[c].job)
        BY <3>2, <4>1, <4>2, ToldMore
      <4>. QED
        BY <1>4, <2>1, <3>2, <4>2
  <2>3. CASE conn[c] = s
    <3>1. current = 0
      <4>1. ASSUME current # 0 PROVE handler'[s].does = "work"
        BY <1>0, <1>1, <4>1 DEF NotBusy
      <4>. QED
        BY <1>1, <2>3, <4>1 DEF Served
    <3>2. client[c] \in {"authorizing", "working"}
      BY <1>0, <1>2, <2>3 DEF Connected
    <3>3. job[c].job = 0 /\ Silent(toClient'[s])
      BY <1>0, <1>4, <3>1, SilentMore DEF NoWorkYet
    <3>. QED
      BY <2>3, <3>1, <3>2, <3>3 DEF Told
  <2>. QED
    BY <2>2, <2>3
<1>. QED
  BY <1>5, <1>6, <1>7 DEF Lines

\* The work that it took is the current one still, or it is late.
LEMMA LinesSendAuthorized ==
  ASSUME PoolTypeInv, Lines, NEW s \in Sessions, SendAuthorizedWork(s)
  PROVE  Lines'
<1>0. /\ toClient \in [Sessions -> Seq(Answers)] /\ handler \in [Sessions -> Handler]
      /\ conn \in [Clients -> Sessions \cup {0}]
      /\ client \in [Clients -> {"down", "subscribing", "authorizing", "working"}]
      /\ overtaken \in SUBSET Sessions
      /\ Connected /\ NoWorkYet /\ AllTold
  BY DEF PoolTypeInv, MinerPoolTypeOK, Lines
<1>. DEFINE n == handler[s].n
<1>1. /\ handler[s].does = "work" /\ n \in Jobs
      /\ handler' = [handler EXCEPT ![s] = NotBusy]
      /\ Says(s, MiningWork(n))
      /\ overtaken' = IF n # current THEN overtaken \cup {s} ELSE overtaken
      /\ UNCHANGED <<current, announce, session, toPool, client, conn, job>>
  BY DEF SendAuthorizedWork, PoolTypeInv, Prepared, clientVars
<1>2. current # 0
  BY <1>0, <1>1 DEF NoWorkYet
<1>3. \A v \in Sessions : v # s => handler'[v] = handler[v] /\ toClient'[v] = toClient[v]
  BY <1>0, <1>1 DEF Says
<1>4. Connected'
  <2>1. Workers' = Workers
    BY <1>1 DEF Workers
  <2>. QED
    BY <1>0, <1>1, <2>1 DEF Connected
<1>5. AllTold'
  <2>. SUFFICES ASSUME NEW c \in Clients, conn[c] # 0, Served(conn[c])'
                PROVE  Told(toClient'[conn[c]], current, client[c], job[c].job)
    BY <1>1 DEF AllTold
  <2>1. conn[c] \in Sessions
    BY <1>0
  <2>2. CASE conn[c] # s
    <3>1. Served(conn[c])
      BY <1>0, <1>1, <1>3, <2>1, <2>2 DEF Served
    <3>. QED
      BY <1>0, <1>3, <2>1, <2>2, <3>1 DEF AllTold
  <2>3. CASE conn[c] = s
    <3>1. n = current
      BY <1>1, <2>3 DEF Served
    <3>2. toClient'[s] = toClient[s] \o MiningWork(n)
      BY <1>0, <1>1, <2>3 DEF Says, Open
    <3>3. toClient[s] \in Seq(Answers)
      BY <1>0
    <3>. HIDE DEF n
    <3>. QED
      BY <1>1, <2>3, <3>1, <3>2, <3>3, ToldWork
  <2>. QED
    BY <2>2, <2>3
<1>6. NoWorkYet'
  BY <1>1, <1>2 DEF NoWorkYet
<1>. QED
  BY <1>4, <1>5, <1>6 DEF Lines

\* All workers are sent the current work.
LEMMA LinesSendWork ==
  ASSUME MinerPoolTypeOK, Lines, SendMiningWork
  PROVE  Lines'
<1>0. /\ toClient \in [Sessions -> Seq(Answers)] /\ current \in Jobs \cup {0}
      /\ conn \in [Clients -> Sessions \cup {0}]
      /\ Connected /\ NoWorkYet
  BY DEF MinerPoolTypeOK, Lines
<1>1. /\ announce /\ ToWorkers(MiningWork(current))
      /\ UNCHANGED <<current, session, handler, toPool, client, conn, job, overtaken>>
  BY DEF SendMiningWork, clientVars
<1>2. current # 0 /\ current \in Jobs
  BY <1>0, <1>1 DEF NoWorkYet
<1>3. Connected'
  <2>1. Workers' = Workers
    BY <1>1 DEF Workers
  <2>. QED
    BY <1>0, <1>1, <2>1 DEF Connected
<1>4. AllTold'
  <2>. SUFFICES ASSUME NEW c \in Clients, conn[c] # 0
                PROVE  Told(toClient'[conn[c]], current, client[c], job[c].job)
    BY <1>1 DEF AllTold
  <2>1. conn[c] \in Workers /\ conn[c] \in Sessions /\ Open(conn[c])
    BY <1>0 DEF Connected, Open
  <2>2. /\ toClient'[conn[c]] = toClient[conn[c]] \o MiningWork(current)
        /\ toClient[conn[c]] \in Seq(Answers)
    BY <1>0, <1>1, <2>1 DEF ToWorkers
  <2>. QED
    BY <1>2, <2>2, ToldWork
<1>5. NoWorkYet'
  BY <1>1, <1>2 DEF NoWorkYet
<1>. QED
  BY <1>3, <1>4, <1>5 DEF Lines

\* What the node brings, and what is told about it.
LEMMA LinesNode ==
  ASSUME MinerPoolTypeOK, Lines,
         NodeAdvances \/ WorkFetcher \/ StatsPrinter
  PROVE  Lines'
<1>. USE DEF poolVars, lineVars, clientVars
<1>0. toClient \in [Sessions -> Seq(Answers)] /\ Connected /\ AllTold /\ tip \in Jobs
  BY DEF MinerPoolTypeOK, Lines
<1>1. CASE NodeAdvances
  <2>1. UNCHANGED <<current, announce, session, handler, toClient, toPool, client, conn, job,
                    overtaken>>
    BY <1>1 DEF NodeAdvances
  <2>. QED
    BY <2>1, LinesServer
<1>2. CASE WorkFetcher
  <2>1. /\ announce' = TRUE /\ current' = tip /\ tip # 0
        /\ UNCHANGED <<session, handler, toClient, toPool, client, conn, job, overtaken>>
    BY <1>0, <1>2, ConnectionsAssumption DEF WorkFetcher, Jobs
  <2>2. Workers' = Workers
    BY <2>1 DEF Workers
  <2>3. Connected'
    BY <1>0, <2>1, <2>2 DEF Connected
  <2>4. AllTold' /\ NoWorkYet'
    BY <2>1 DEF AllTold, Served, NoWorkYet
  <2>. QED
    BY <2>3, <2>4 DEF Lines
<1>3. CASE StatsPrinter
  <2>. DEFINE line == <<Answer("stats")>>
  <2>1. line \in Seq(Answers) /\ Silent(line)
    BY SilentLine
  <2>2. /\ ToWorkers(line)
        /\ UNCHANGED <<current, announce, session, handler, toPool, client, conn, job, overtaken>>
    BY <1>3 DEF StatsPrinter
  <2>. HIDE DEF line
  <2>3. \A v \in Sessions :
           \/ toClient'[v] = toClient[v]
           \/ \E lines \in Seq(Answers) : Silent(lines) /\ toClient'[v] = toClient[v] \o lines
    BY <1>0, <2>1, <2>2 DEF ToWorkers
  <2>. QED
    BY <2>2, <2>3, LinesServer
<1>. QED
  BY <1>1, <1>2, <1>3

\* A client gets a session that nobody had.
LEMMA LinesConnect ==
  ASSUME MinerPoolTypeOK, Lines, NEW c \in Clients, NEW s \in Sessions,
         ConnectAndWork(c, s)
  PROVE  Lines'
<1>0. /\ toPool \in [Sessions -> Seq(Asks)] /\ s \in Nat \ {0}
      /\ conn \in [Clients -> Sessions \cup {0}]
      /\ session \in [Sessions -> {"unused", "in", "authorized", "gone"}]
      /\ client \in [Clients -> {"down", "subscribing", "authorizing", "working"}]
      /\ Connected /\ NoWorkYet /\ AllTold
  BY ConnectionsAssumption DEF MinerPoolTypeOK, Lines
<1>. DEFINE line == <<Ask("subscribe")>>
<1>1. /\ session[s] = "unused"
      /\ client' = [client EXCEPT ![c] = "subscribing"]
      /\ conn' = [conn EXCEPT ![c] = s]
      /\ session' = [session EXCEPT ![s] = "in"]
      /\ toPool' = [toPool EXCEPT ![s] = line]
      /\ UNCHANGED <<current, announce, handler, toClient, job, overtaken>>
  BY <1>0 DEF ConnectAndWork
<1>2. ~AsksIn(line)
  BY DEF AsksIn, Ask
<1>. HIDE DEF line
<1>3. \A d \in Clients : conn[d] # s
  BY <1>0, <1>1 DEF Connected, Workers
<1>4. /\ client'[c] = "subscribing" /\ conn'[c] = s /\ session'[s] = "in" /\ toPool'[s] = line
      /\ \A d \in Clients : d # c => client'[d] = client[d] /\ conn'[d] = conn[d]
      /\ \A v \in Sessions : v # s => session'[v] = session[v] /\ toPool'[v] = toPool[v]
  BY <1>0, <1>1
<1>5. Connected'
  <2>1. ASSUME NEW d \in Clients, d # c
        PROVE  /\ client'[d] = "down" <=> conn'[d] = 0
               /\ conn'[d] # 0 => conn'[d] \in Workers'
               /\ client'[d] = "subscribing" =>
                     session'[conn'[d]] = "in" /\ ~AsksIn(toPool'[conn'[d]])
               /\ client'[d] \in {"authorizing", "working"} =>
                     session'[conn'[d]] = "authorized" \/ AsksIn(toPool'[conn'[d]])
    <3>1. CASE conn[d] = 0
      BY <1>0, <1>4, <2>1, <3>1 DEF Connected
    <3>2. CASE conn[d] # 0
      <4>1. /\ conn[d] \in Sessions /\ conn[d] # s /\ conn'[d] = conn[d]
            /\ client'[d] = client[d] /\ session'[conn[d]] = session[conn[d]]
            /\ toPool'[conn[d]] = toPool[conn[d]]
        BY <1>0, <1>3, <1>4, <2>1, <3>2
      <4>. QED
        BY <1>0, <4>1 DEF Connected, Workers
    <3>. QED
      BY <3>1, <3>2
  <2>2. \A d, e \in Clients : conn'[d] = conn'[e] /\ conn'[d] # 0 => d = e
    BY <1>0, <1>3, <1>4 DEF Connected
  <2>3. s \in Workers'
    BY <1>4 DEF Workers
  <2>. QED
    BY <1>0, <1>2, <1>4, <2>1, <2>2, <2>3 DEF Connected
<1>6. NoWorkYet'
  BY <1>0, <1>1 DEF NoWorkYet
<1>7. AllTold'
  <2>. SUFFICES ASSUME NEW d \in Clients, conn'[d] # 0, Served(conn[d])'
                PROVE  Told(toClient[conn'[d]], current, client'[d], job[d].job)
    BY <1>1 DEF AllTold
  <2>1. d # c
    BY <1>4 DEF Served
  <2>2. conn'[d] = conn[d] /\ conn[d] \in Sessions /\ conn[d] # s /\ client'[d] = client[d]
    BY <1>0, <1>3, <1>4, <2>1
  <2>3. Served(conn[d])
    BY <1>1, <1>4, <2>2 DEF Served
  <2>. QED
    BY <1>0, <2>2, <2>3 DEF AllTold
<1>. QED
  BY <1>5, <1>6, <1>7 DEF Lines

\* What a client does on its connection disturbs no other.
LEMMA LinesClient ==
  ASSUME MinerPoolTypeOK, Lines, NEW c \in Clients, conn[c] # 0,
         UNCHANGED <<current, announce, session, handler, overtaken>>,
         \A s \in Sessions : s # conn[c] => toClient'[s] = toClient[s] /\ toPool'[s] = toPool[s],
         \A d \in Clients : d # c => /\ client'[d] = client[d] /\ conn'[d] = conn[d]
                                     /\ job'[d] = job[d],
         current = 0 => Silent(toClient'[conn[c]]) /\ job'[c].job = 0,
         \/ conn'[c] = 0 /\ client'[c] = "down"
         \/ /\ conn'[c] = conn[c]
            /\ client'[c] \in {"authorizing", "working"} \/ client'[c] = client[c]
            /\ client'[c] \in {"authorizing", "working"} =>
                  session[conn[c]] = "authorized" \/ AsksIn(toPool'[conn[c]])
            /\ client'[c] = "subscribing" => ~AsksIn(toPool'[conn[c]])
            /\ Served(conn[c]) => Told(toClient'[conn[c]], current, client'[c], job'[c].job)
  PROVE  Lines'
<1>0. /\ conn \in [Clients -> Sessions \cup {0}]
      /\ client \in [Clients -> {"down", "subscribing", "authorizing", "working"}]
      /\ Connected /\ NoWorkYet /\ AllTold
  BY DEF MinerPoolTypeOK, Lines
<1>1. conn[c] \in Sessions /\ client[c] # "down" /\ Workers' = Workers
  BY <1>0 DEF Connected, Workers
<1>2. \A d \in Clients : d # c /\ conn[d] # 0 => /\ conn[d] \in Sessions /\ conn[d] # conn[c]
                                                 /\ toClient'[conn[d]] = toClient[conn[d]]
                                                 /\ toPool'[conn[d]] = toPool[conn[d]]
  BY <1>0 DEF Connected
<1>3. Connected'
  <2>1. \A d, e \in Clients : conn'[d] = conn'[e] /\ conn'[d] # 0 => d = e
    BY <1>0, <1>2 DEF Connected
  <2>2. ASSUME NEW d \in Clients
        PROVE  /\ client'[d] = "down" <=> conn'[d] = 0
               /\ conn'[d] # 0 => conn'[d] \in Workers
               /\ client'[d] = "subscribing" =>
                     session[conn'[d]] = "in" /\ ~AsksIn(toPool'[conn'[d]])
               /\ client'[d] \in {"authorizing", "working"} =>
                     session[conn'[d]] = "authorized" \/ AsksIn(toPool'[conn'[d]])
    <3>1. CASE d = c
      BY <1>0, <1>1, <3>1 DEF Connected
    <3>2. CASE d # c
      BY <1>0, <1>2, <3>2 DEF Connected
    <3>. QED
      BY <3>1, <3>2
  <2>. QED
    BY <1>1, <2>1, <2>2 DEF Connected
<1>4. NoWorkYet'
  <2>1. ASSUME current = 0, NEW s \in Sessions
        PROVE  Silent(toClient'[s]) /\ handler'[s].does # "work"
    BY <1>0, <2>1 DEF NoWorkYet
  <2>2. ASSUME current = 0, NEW d \in Clients PROVE job'[d].job = 0
    BY <1>0, <2>2 DEF NoWorkYet
  <2>. QED
    BY <1>0, <2>1, <2>2 DEF NoWorkYet
<1>5. AllTold'
  <2>. SUFFICES ASSUME NEW d \in Clients, conn'[d] # 0, Served(conn[d])'
                PROVE  Told(toClient'[conn'[d]], current, client'[d], job'[d].job)
    BY DEF AllTold
  <2>1. Served(conn'[d])
    BY DEF Served
  <2>2. CASE d = c
    BY <2>1, <2>2
  <2>3. CASE d # c
    BY <1>0, <1>2, <2>1, <2>3 DEF AllTold
  <2>. QED
    BY <2>2, <2>3
<1>. QED
  BY <1>3, <1>4, <1>5 DEF Lines

LEMMA SilentTail ==
  ASSUME NEW q \in Seq(Answers), q # <<>>, Silent(q)
  PROVE  Silent(Tail(q)) /\ Head(q).is # "notify"
<1>1. /\ Len(q) \in Nat /\ Len(q) > 0 /\ Head(q) = q[1] /\ Len(Tail(q)) = Len(q) - 1
      /\ \A i \in 1..Len(Tail(q)) : Tail(q)[i] = q[i + 1]
  BY TailLines
<1>. QED
  BY <1>1 DEF Silent

\* A broken connection: nobody is told anything on it.
LEMMA LinesHangUp ==
  ASSUME MinerPoolTypeOK, Lines, NEW c \in Clients, conn[c] # 0, HangUp(c),
         UNCHANGED <<current, announce, session, handler, overtaken, toPool, job>>
  PROVE  Lines'
<1>0. /\ toClient \in [Sessions -> Seq(Answers)] /\ conn \in [Clients -> Sessions \cup {0}]
      /\ client \in [Clients -> {"down", "subscribing", "authorizing", "working"}]
      /\ NoWorkYet
  BY DEF MinerPoolTypeOK, Lines
<1>1. conn[c] \in Sessions /\ toClient'[conn[c]] = <<>>
  BY <1>0 DEF HangUp
<1>2. Silent(<<>>)
  BY DEF Silent
<1>3. /\ \A s \in Sessions : s # conn[c] => toClient'[s] = toClient[s]
      /\ \A d \in Clients : d # c => client'[d] = client[d] /\ conn'[d] = conn[d]
      /\ conn'[c] = 0 /\ client'[c] = "down"
  BY <1>0 DEF HangUp
<1>4. current = 0 => Silent(toClient'[conn[c]]) /\ job'[c].job = 0
  BY <1>0, <1>1, <1>2 DEF NoWorkYet
<1>. QED
  BY <1>3, <1>4, LinesClient

\* The client subscribed: any line will do,
LEMMA LinesSubscribed ==
  ASSUME MinerPoolTypeOK, Lines, NEW c \in Clients, Subscribed(c)
  PROVE  Lines'
<1>0. /\ toClient \in [Sessions -> Seq(Answers)] /\ toPool \in [Sessions -> Seq(Asks)]
      /\ conn \in [Clients -> Sessions \cup {0}]
      /\ client \in [Clients -> {"down", "subscribing", "authorizing", "working"}]
      /\ Connected /\ NoWorkYet
  BY DEF MinerPoolTypeOK, Lines
<1>1. /\ conn[c] # 0 /\ conn[c] \in Sessions /\ toClient[conn[c]] # <<>>
      /\ client[c] = "subscribing" /\ session[conn[c]] = "in"
      /\ UNCHANGED <<current, announce, session, handler, overtaken, job>>
  BY <1>0 DEF Subscribed, Reads, Connected, poolVars
<1>2. CASE HangUp(c) /\ UNCHANGED toPool
  BY <1>1, <1>2, LinesHangUp
<1>3. CASE /\ client' = [client EXCEPT ![c] = "authorizing"]
           /\ toPool' = [toPool EXCEPT ![conn[c]] = Append(@, Ask("authorize"))]
           /\ toClient' = [toClient EXCEPT ![conn[c]] = Tail(@)]
           /\ UNCHANGED conn
  <2>1. Ask("authorize") \in Asks /\ Ask("authorize").is = "authorize"
    BY PoolLines DEF Ask
  <2>2. AsksIn(toPool'[conn[c]])
    <3>1. AsksIn(Append(toPool[conn[c]], Ask("authorize")))
      BY <1>0, <1>1, <2>1, AsksAppend
    <3>. QED
      BY <1>0, <1>1, <1>3, <3>1
  <2>3. current = 0 => Silent(toClient'[conn[c]]) /\ job'[c].job = 0
    BY <1>0, <1>1, <1>3, SilentTail DEF NoWorkYet
  <2>4. ~Served(conn[c])
    BY <1>1 DEF Served
  <2>5. /\ client'[c] = "authorizing" /\ conn'[c] = conn[c]
        /\ \A s \in Sessions : s # conn[c] => toClient'[s] = toClient[s] /\ toPool'[s] = toPool[s]
        /\ \A d \in Clients : d # c => client'[d] = client[d]
    BY <1>0, <1>1, <1>3
  <2>. QED
    BY <1>1, <1>3, <2>2, <2>3, <2>4, <2>5, LinesClient
<1>. QED
  BY <1>2, <1>3 DEF Subscribed

\* for the authorization too,
LEMMA LinesAuthorized ==
  ASSUME MinerPoolTypeOK, Lines, NEW c \in Clients, Authorized(c)
  PROVE  Lines'
<1>0. /\ toClient \in [Sessions -> Seq(Answers)]
      /\ conn \in [Clients -> Sessions \cup {0}]
      /\ client \in [Clients -> {"down", "subscribing", "authorizing", "working"}]
      /\ Connected /\ NoWorkYet /\ AllTold
  BY DEF MinerPoolTypeOK, Lines
<1>1. /\ conn[c] # 0 /\ conn[c] \in Sessions /\ toClient[conn[c]] # <<>>
      /\ client[c] = "authorizing"
      /\ UNCHANGED <<current, announce, session, handler, overtaken, job, toPool>>
  BY <1>0 DEF Authorized, Reads, poolVars
<1>2. CASE HangUp(c)
  BY <1>1, <1>2, LinesHangUp
<1>3. CASE /\ client' = [client EXCEPT ![c] = "working"]
           /\ toClient' = [toClient EXCEPT ![conn[c]] = Tail(@)]
           /\ UNCHANGED conn
  <2>1. current = 0 => Silent(toClient[conn[c]]) /\ job[c].job = 0
    BY <1>0, <1>1 DEF NoWorkYet
  <2>2. current = 0 => Silent(toClient'[conn[c]]) /\ job'[c].job = 0
    BY <1>0, <1>1, <1>3, <2>1, SilentTail
  <2>3. session[conn[c]] = "authorized" \/ AsksIn(toPool'[conn[c]])
    BY <1>0, <1>1 DEF Connected
  <2>4. ASSUME Served(conn[c])
        PROVE  Told(toClient'[conn[c]], current, "working", job[c].job)
    <3>1. Told(toClient[conn[c]], current, "authorizing", job[c].job)
      BY <1>0, <1>1, <2>4 DEF AllTold
    <3>2. toClient[conn[c]] \in Seq(Answers) /\ toClient'[conn[c]] = Tail(toClient[conn[c]])
      BY <1>0, <1>1, <1>3
    <3>. QED
      BY <1>1, <2>1, <3>1, <3>2, ToldAuthorized
  <2>5. /\ client'[c] = "working" /\ conn'[c] = conn[c]
        /\ \A s \in Sessions : s # conn[c] => toClient'[s] = toClient[s]
        /\ \A d \in Clients : d # c => client'[d] = client[d]
    BY <1>0, <1>1, <1>3
  <2>. QED
    BY <1>1, <1>3, <2>2, <2>3, <2>4, <2>5, LinesClient
<1>. QED
  BY <1>2, <1>3 DEF Authorized

\* and then the last job is mined.
LEMMA LinesNotify ==
  ASSUME MinerPoolTypeOK, Lines, NEW c \in Clients, HandleNotify(c)
  PROVE  Lines'
<1>0. /\ toClient \in [Sessions -> Seq(Answers)]
      /\ conn \in [Clients -> Sessions \cup {0}]
      /\ job \in [Clients -> Share \cup {NoShare}]
      /\ Connected /\ NoWorkYet /\ AllTold
  BY DEF MinerPoolTypeOK, Lines
<1>. DEFINE q == toClient[conn[c]]
<1>1. /\ conn[c] # 0 /\ conn[c] \in Sessions /\ q # <<>> /\ q \in Seq(Answers)
      /\ client[c] = "working"
      /\ toClient' = [toClient EXCEPT ![conn[c]] = Tail(q)]
      /\ job' = IF Head(q).is = "notify"
                THEN [job EXCEPT ![c] = [job |-> Head(q).job, block |-> FALSE]]
                ELSE job
      /\ UNCHANGED <<current, announce, session, handler, overtaken, toPool, client, conn>>
  BY <1>0 DEF HandleNotify, Reads, Line, poolVars
<1>2. /\ toClient'[conn[c]] = Tail(q)
      /\ job'[c].job = IF Head(q).is = "notify" THEN Head(q).job ELSE job[c].job
      /\ \A s \in Sessions : s # conn[c] => toClient'[s] = toClient[s]
      /\ \A d \in Clients : d # c => job'[d] = job[d]
  BY <1>0, <1>1
<1>3. current = 0 => Silent(q) /\ job[c].job = 0
  BY <1>0, <1>1 DEF NoWorkYet
<1>4. Served(conn[c]) => Told(q, current, "working", job[c].job)
  BY <1>0, <1>1 DEF AllTold
<1>5. session[conn[c]] = "authorized" \/ AsksIn(toPool'[conn[c]])
  BY <1>0, <1>1 DEF Connected
<1>. HIDE DEF q
<1>6. current = 0 => Silent(toClient'[conn[c]]) /\ job'[c].job = 0
  BY <1>1, <1>2, <1>3, SilentTail
<1>7. Served(conn[c]) => Told(toClient'[conn[c]], current, "working", job'[c].job)
  BY <1>1, <1>2, <1>4, ToldRead
<1>. QED
  BY <1>1, <1>2, <1>5, <1>6, <1>7, LinesClient

\* A share says nothing of jobs to the client.
LEMMA LinesSubmit ==
  ASSUME MinerPoolTypeOK, Lines, NEW c \in Clients, NEW b \in BOOLEAN, SubmitWork(c, b)
  PROVE  Lines'
<1>0. /\ toClient \in [Sessions -> Seq(Answers)] /\ toPool \in [Sessions -> Seq(Asks)]
      /\ conn \in [Clients -> Sessions \cup {0}]
      /\ client \in [Clients -> {"down", "subscribing", "authorizing", "working"}]
      /\ job \in [Clients -> Share \cup {NoShare}]
      /\ Connected /\ NoWorkYet /\ AllTold
  BY DEF MinerPoolTypeOK, Lines
<1>. DEFINE share == [job[c] EXCEPT !.block = b]
<1>1. /\ conn[c] # 0 /\ conn[c] \in Sessions /\ job[c] \in Share
      /\ job' = [job EXCEPT ![c] = share]
      /\ toPool' = [toPool EXCEPT ![conn[c]] = Append(@, Submit(job'[c]))]
      /\ UNCHANGED <<current, announce, session, handler, overtaken, toClient, client, conn>>
  BY <1>0 DEF SubmitWork, poolVars
<1>2. share \in Share /\ share.job = job[c].job
  BY <1>1 DEF Share
<1>. HIDE DEF share
<1>3. job'[c] = share /\ \A d \in Clients : d # c => job'[d] = job[d]
  BY <1>0, <1>1
<1>4. Submit(share) \in Asks /\ Submit(share).is = "submit"
  BY <1>2, PoolLines DEF Submit
<1>5. AsksIn(toPool'[conn[c]]) <=> AsksIn(toPool[conn[c]])
  <2>1. toPool'[conn[c]] = Append(toPool[conn[c]], Submit(share))
    BY <1>0, <1>1, <1>3
  <2>2. toPool[conn[c]] \in Seq(Asks)
    BY <1>0, <1>1
  <2>. QED
    BY <1>4, <2>1, <2>2, AsksAppend
<1>6. \A s \in Sessions : s # conn[c] => toPool'[s] = toPool[s]
  BY <1>0, <1>1
<1>7. current = 0 => Silent(toClient'[conn[c]]) /\ job'[c].job = 0
  BY <1>0, <1>1, <1>2, <1>3 DEF NoWorkYet
<1>8. Served(conn[c]) => Told(toClient'[conn[c]], current, client[c], job'[c].job)
  BY <1>0, <1>1, <1>2, <1>3 DEF AllTold
<1>9. /\ client[c] \in {"authorizing", "working"} =>
            session[conn[c]] = "authorized" \/ AsksIn(toPool'[conn[c]])
      /\ client[c] = "subscribing" => ~AsksIn(toPool'[conn[c]])
  BY <1>0, <1>1, <1>5 DEF Connected
<1>. QED
  BY <1>1, <1>3, <1>6, <1>7, <1>8, <1>9, LinesClient

\* When nothing is under way to it, a client of the miner's own pool that went
\* through the handshake mines the current job, unless the work that
\* handleAuthorize had read was sent to it after a later one, for any number of
\* clients and sessions.
THEOREM GivenCurrentJobCorrect ==
  MinerPoolSpec => []GivenCurrentJob
<1>1. MinerPoolInit => Lines
  <2>. SUFFICES ASSUME MinerPoolInit PROVE Lines
    OBVIOUS
  <2>1. /\ current = 0 /\ ~announce /\ \A s \in Sessions : handler[s].does = "none"
        /\ \A c \in Clients : client[c] = "down" /\ conn[c] = 0 /\ job[c].job = 0
        /\ \A s \in Sessions : toClient[s] = <<>>
    BY DEF MinerPoolInit, NotBusy, NoShare
  <2>2. Silent(<<>>)
    BY DEF Silent
  <2>3. Connected
    BY <2>1 DEF Connected
  <2>. QED
    BY <2>1, <2>2, <2>3 DEF Lines, NoWorkYet, AllTold
<1>2. PoolTypeInv /\ Lines /\ [MinerPoolNext]_minerPoolVars => Lines'
  <2>. SUFFICES ASSUME PoolTypeInv, Lines, [MinerPoolNext]_minerPoolVars PROVE Lines'
    OBVIOUS
  <2>0. MinerPoolTypeOK
    BY DEF PoolTypeInv
  <2>1. CASE MinerPoolNext
    <3>1. ASSUME NEW c \in Clients, ConnectionLost(c) PROVE Lines'
      BY <2>0, <3>1, LinesHangUp DEF ConnectionLost, poolVars
    <3>. QED
      BY <2>0, <2>1, <3>1, LinesNode, LinesSendWork, LinesHandler, LinesAuthorize,
         LinesSendAuthorized, LinesConnect, LinesSubscribed, LinesAuthorized, LinesNotify,
         LinesSubmit DEF MinerPoolNext, HandleWorker
  <2>2. CASE UNCHANGED minerPoolVars
    <3>1. UNCHANGED <<current, announce, session, handler, toClient, toPool, client, conn, job,
                      overtaken>>
      BY <2>2 DEF minerPoolVars, poolVars, lineVars, clientVars
    <3>. QED
      BY <2>0, <3>1, LinesServer
  <2>. QED
    BY <2>1, <2>2
<1>3. PoolTypeInv /\ Lines => GivenCurrentJob
  <2>. SUFFICES ASSUME MinerPoolTypeOK, Lines, NEW c \in Clients, client[c] = "working", ~announce,
                       toClient[conn[c]] = <<>>, toPool[conn[c]] = <<>>,
                       handler[conn[c]] = NotBusy, conn[c] \notin overtaken
                PROVE  job[c].job = current
    BY DEF GivenCurrentJob, PoolTypeInv
  <2>1. ~AsksIn(<<>>) /\ \A n : ~Newest(<<>>, n, 1)
    BY DEF AsksIn, Newest
  <2>2. conn[c] # 0 /\ session[conn[c]] = "authorized"
    BY <2>1 DEF Lines, Connected
  <2>3. Served(conn[c])
    BY <2>2 DEF Served, NotBusy
  <2>4. Told(<<>>, current, "working", job[c].job)
    BY <2>2, <2>3 DEF Lines, AllTold
  <2>. QED
    BY <2>1, <2>4 DEF Told
<1>. QED
  BY <1>1, <1>2, <1>3, PoolTypeAlways, PTL DEF MinerPoolSpec
=============================================================================
