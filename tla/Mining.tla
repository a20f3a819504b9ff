------------------------------- MODULE Mining -------------------------------
(***************************************************************************)
(* Who mines on a node's chain: the node's own auto-mining rounds, which a *)
(* block from a peer cancels, and a stand-alone miner (dilithium-miner)    *)
(* that reads the node's API and searches with several threads.            *)
(*                                                                         *)
(* Blocks are valid here but for what the miners can get wrong: the block  *)
(* they build on, its index and the transactions.  A block is known by a   *)
(* number, its hash.  The chain, and POST /mine, are in Node, the          *)
(* difficulty in Difficulty.                                               *)
(***************************************************************************)
EXTENDS Integers, Sequences, FiniteSets

CONSTANTS
    Txs,
    Spawned,       \* bound: rounds that AddBlock has spawned and that are not over
    Threads,       \* of the stand-alone miner
    MaxBlocks,     \* bound: blocks that are ever mined
    MaxReorgs      \* bound: reorganisations

ASSUME NamesAssumption ==
    {"loop", "nil"} \cap Spawned = {} /\ {"checker", "empty", "nil"} \cap Threads = {}
ASSUME BoundsAssumption == MaxBlocks \in Nat /\ MaxReorgs \in Nat /\ IsFiniteSet(Threads)

VARIABLES
    chain,     \* bc.Blocks after genesis
    made,      \* blocks mined so far
    reorgs,
    pending,   \* bc.PendingTransactions
    enabled,   \* n.autoMineEnabled
    isMining,  \* n.isMining
    cancel,    \* n.miningCancel: nil, or the round that made the channel
    round,     \* what the loop, or a spawned round, does
    work,      \* the block it searches a nonce for; NoWork when there is none
    closed,    \* its channel is closed
    unseen,    \* history: rounds during which the tip moved without a cancelMining
    miner,     \* what the stand-alone miner's main loop does
    template,  \* what it mines on
    txs,       \* the pending transactions it was told of
    stopping,  \* its stopCh is closed
    resultCh,  \* what the channel of capacity one holds
    result,    \* what it took from it
    cancelled, \* its cancelCh is closed
    searcher   \* what its threads, and the one that watches the chain, do

nodeVars == <<chain, made, reorgs, pending, enabled, isMining, cancel, round, work, closed, unseen>>
minerVars == <<miner, template, txs, stopping, resultCh, result, cancelled, searcher>>
vars == <<nodeVars, minerVars>>

Rounds == {"loop"} \cup Spawned

Searchers == Threads \cup {"checker"}

Block == [id : 1..MaxBlocks, txs : SUBSET Txs]

NoWork == [prev |-> 0, txs |-> {}]

Work == [prev : 0..MaxBlocks, txs : SUBSET Txs]

TypeOK ==
    /\ chain \in Seq(Block)
    /\ made \in 0..MaxBlocks
    /\ reorgs \in 0..MaxReorgs
    /\ pending \in SUBSET Txs
    /\ enabled \in BOOLEAN
    /\ isMining \in BOOLEAN
    /\ cancel \in Rounds \cup {"nil"}
    /\ round \in [Rounds -> {"idle", "ready", "started", "mining", "over"}]
    /\ work \in [Rounds -> Work]
    /\ closed \in [Rounds -> BOOLEAN]
    /\ unseen \in SUBSET Rounds
    /\ miner \in {"height", "hash", "txs", "mine", "wait", "submit", "stopped", "panicked"}
    /\ template \in [height : 0..MaxBlocks, prev : 0..MaxBlocks]
    /\ txs \in SUBSET Txs
    /\ stopping \in BOOLEAN
    /\ resultCh \in Threads \cup {"empty", "nil"}
    /\ result \in Threads \cup {"nil"}
    /\ cancelled \in BOOLEAN
    /\ searcher \in [Searchers -> {"off", "search", "found", "sent", "closed", "gone"}]

Init ==
    /\ chain = <<>>
    /\ made = 0
    /\ reorgs = 0
    /\ pending = {}
    /\ enabled = TRUE
    /\ isMining = FALSE
    /\ cancel = "nil"
    /\ round = [w \in Rounds |-> "idle"]
    /\ work = [w \in Rounds |-> NoWork]
    /\ closed = [w \in Rounds |-> FALSE]
    /\ unseen = {}
    /\ miner = "height"
    /\ template = [height |-> 0, prev |-> 0]
    /\ txs = {}
    /\ stopping = FALSE
    /\ resultCh = "empty"
    /\ result = "nil"
    /\ cancelled = FALSE
    /\ searcher = [s \in Searchers |-> "off"]
-----------------------------------------------------------------------------
(* The chain                                                               *)

Tip == IF chain = <<>> THEN 0 ELSE chain[Len(chain)].id

TxsOf(c) == UNION {c[i].txs : i \in DOMAIN c}

\* AppendBlock: the next block, holding s.
Append1(s) ==
    /\ made < MaxBlocks
    /\ made' = made + 1
    /\ chain' = Append(chain, [id |-> made + 1, txs |-> s])
    /\ pending' = pending \ s

\* The rounds that are searching when the tip moves.
Searching == {w \in Rounds : round[w] = "mining"}

SubmitTx(t) ==
    /\ t \notin pending \cup TxsOf(chain)
    /\ pending' = pending \cup {t}
    /\ UNCHANGED <<chain, made, reorgs, enabled, isMining, cancel, round, work, closed, unseen,
                   minerVars>>

CancelMining ==
    /\ cancel' = IF isMining THEN "nil" ELSE cancel
    /\ closed' = IF isMining /\ cancel # "nil" THEN [closed EXCEPT ![cancel] = TRUE] ELSE closed

\* go startMiningRound, for which a goroutine is free unless the bound says no.
SpawnRound ==
    \/ /\ enabled /\ pending' # {}
       /\ \E w \in Spawned : round[w] = "idle" /\ round' = [round EXCEPT ![w] = "ready"]
    \/ /\ ~(enabled /\ pending' # {}) \/ \A w \in Spawned : round[w] # "idle"
       /\ UNCHANGED round

\* Faulty: the round goes on.
AddBlockUncancelled(s) ==
    /\ s \cap TxsOf(chain) = {}
    /\ Append1(s)
    /\ SpawnRound
    /\ UNCHANGED <<reorgs, enabled, isMining, cancel, closed, work, unseen, minerVars>>

\* AddBlock: a block from a peer that connects to the tip.  A round that starts
\* between the cancelling and the appending waits for bc.mutex.
AddBlock(s) ==
    /\ s \cap TxsOf(chain) = {}
    /\ CancelMining
    /\ Append1(s)
    /\ SpawnRound
    /\ UNCHANGED <<reorgs, enabled, isMining, work, unseen, minerVars>>

\* The same block, when it cannot be saved.
AddBlockFails ==
    /\ made < MaxBlocks
    /\ made' = made + 1
    /\ CancelMining
    /\ UNCHANGED <<chain, reorgs, pending, enabled, isMining, round, work, unseen,
                   minerVars>>

\* handleBlocks: a block of a batch.  No round is cancelled.
HandleBlocks(s) ==
    /\ s \cap TxsOf(chain) = {}
    /\ Append1(s)
    /\ unseen' = unseen \cup Searching
    /\ UNCHANGED <<reorgs, enabled, isMining, cancel, round, work, closed, minerVars>>

\* attemptReorg: the last block gives way to a heavier one.  What it held does
\* not return to the mempool.
AttemptReorg(s) ==
    /\ reorgs < MaxReorgs
    /\ made < MaxBlocks
    /\ chain # <<>>
    /\ LET kept == SubSeq(chain, 1, Len(chain) - 1)
       IN /\ s \cap TxsOf(kept) = {}
          /\ chain' = Append(kept, [id |-> made + 1, txs |-> s])
    /\ made' = made + 1
    /\ reorgs' = reorgs + 1
    /\ pending' = pending \ s
    /\ unseen' = unseen \cup Searching
    /\ UNCHANGED <<enabled, isMining, cancel, round, work, closed, minerVars>>
-----------------------------------------------------------------------------
(* Auto-mining                                                             *)

StopAutoMining ==
    /\ enabled
    /\ enabled' = FALSE
    /\ CancelMining
    /\ UNCHANGED <<chain, made, reorgs, pending, isMining, round, work, unseen, minerVars>>

\* autoMiningLoop wakes every second.
LoopWakes ==
    /\ round["loop"] = "idle"
    /\ enabled
    /\ pending # {}
    /\ round' = [round EXCEPT !["loop"] = "ready"]
    /\ UNCHANGED <<chain, made, reorgs, pending, enabled, isMining, cancel, work, closed, unseen,
                   minerVars>>

\* startMiningRound, up to the release of miningMutex.
StartMiningRound(w) ==
    /\ round[w] = "ready"
    /\ IF isMining \/ ~enabled
       THEN /\ round' = [round EXCEPT ![w] = "idle"]
            /\ UNCHANGED <<isMining, cancel, closed>>
       ELSE /\ round' = [round EXCEPT ![w] = "started"]
            /\ isMining' = TRUE
            /\ cancel' = w
            /\ closed' = [closed EXCEPT ![w] = FALSE]
    /\ UNCHANGED <<chain, made, reorgs, pending, enabled, work, unseen, minerVars>>

\* MinePendingTransactionsWithCancel takes the tip and the pending transactions,
TakeWork(w) ==
    /\ round[w] = "started"
    /\ round' = [round EXCEPT ![w] = "mining"]
    /\ work' = [work EXCEPT ![w] = [prev |-> Tip, txs |-> pending]]
    /\ UNCHANGED <<chain, made, reorgs, pending, enabled, isMining, cancel, closed, unseen,
                   minerVars>>

\* sees that it was cancelled,
Cancelled(w) ==
    /\ round[w] = "mining"
    /\ closed[w]
    /\ round' = [round EXCEPT ![w] = "over"]
    /\ work' = [work EXCEPT ![w] = NoWork]
    /\ unseen' = unseen \ {w}
    /\ UNCHANGED <<chain, made, reorgs, pending, enabled, isMining, cancel, closed, minerVars>>

\* or finds a nonce, and the block is appended if it still connects.
FindsNonce(w) ==
    /\ round[w] = "mining"
    /\ round' = [round EXCEPT ![w] = "over"]
    /\ work' = [work EXCEPT ![w] = NoWork]
    /\ IF work[w].prev = Tip THEN Append1(work[w].txs) ELSE UNCHANGED <<chain, made, pending>>
    /\ unseen' = unseen \ {w}
    /\ UNCHANGED <<reorgs, enabled, isMining, cancel, closed, minerVars>>

\* Faulty: a cancelled round leaves without a reset.
RoundOverIfNotCancelled(w) ==
    /\ round[w] = "over"
    /\ round' = [round EXCEPT ![w] = "idle"]
    /\ isMining' = (isMining /\ closed[w])
    /\ cancel' = "nil"
    /\ closed' = [closed EXCEPT ![w] = FALSE]
    /\ UNCHANGED <<chain, made, reorgs, pending, enabled, work, unseen, minerVars>>

\* The channel stays where it is, but is not looked at before the next round.
RoundOver(w) ==
    /\ round[w] = "over"
    /\ round' = [round EXCEPT ![w] = "idle"]
    /\ isMining' = FALSE
    /\ cancel' = "nil"
    /\ closed' = [closed EXCEPT ![w] = FALSE]
    /\ UNCHANGED <<chain, made, reorgs, pending, enabled, work, unseen, minerVars>>
-----------------------------------------------------------------------------
(* The stand-alone miner's main loop                                       *)

Stop ==
    /\ ~stopping
    /\ stopping' = TRUE
    /\ UNCHANGED <<nodeVars, miner, template, txs, resultCh, result, cancelled, searcher>>

StopSeen ==
    /\ miner = "height"
    /\ stopping
    /\ miner' = "stopped"
    /\ UNCHANGED <<nodeVars, template, txs, stopping, resultCh, result, cancelled, searcher>>

\* getWork: handleStatus reads the height and the last hash under two locks.
GetHeight ==
    /\ miner = "height"
    /\ ~stopping
    /\ miner' = "hash"
    /\ template' = [template EXCEPT !.height = Len(chain)]
    /\ UNCHANGED <<nodeVars, txs, stopping, resultCh, result, cancelled, searcher>>

GetHash ==
    /\ miner = "hash"
    /\ miner' = "txs"
    /\ template' = [template EXCEPT !.prev = Tip]
    /\ UNCHANGED <<nodeVars, txs, stopping, resultCh, result, cancelled, searcher>>

\* Faulty: the transactions of the last block are kept if there are any.
GetPendingTransactionsOld ==
    /\ miner = "txs"
    /\ miner' = "mine"
    /\ txs' = IF txs # {} THEN txs ELSE pending
    /\ searcher' = [s \in Searchers |-> "search"]
    /\ UNCHANGED <<nodeVars, template, stopping, resultCh, result, cancelled>>

\* getPendingTransactions, or none when the request fails, and mineBlock begins.
GetPendingTransactions ==
    /\ miner = "txs"
    /\ miner' = "mine"
    /\ txs' \in {pending, {}}
    /\ searcher' = [s \in Searchers |-> "search"]
    /\ UNCHANGED <<nodeVars, template, stopping, resultCh, result, cancelled>>

\* close(cancelCh): a second time, and the process dies.
CloseCancel(next) ==
    /\ cancelled' = TRUE
    /\ miner' = IF cancelled THEN "panicked" ELSE next

TakeResult ==
    /\ miner = "mine"
    /\ resultCh # "empty"
    /\ result' = resultCh
    /\ resultCh' = "empty"
    /\ miner' = "wait"
    /\ UNCHANGED <<nodeVars, template, txs, stopping, cancelled, searcher>>

StopMining ==
    /\ miner = "mine"
    /\ stopping
    /\ result' = "nil"
    /\ CloseCancel("wait")
    /\ UNCHANGED <<nodeVars, template, txs, stopping, resultCh, searcher>>

\* wg.Wait
AllReturned ==
    /\ miner = "wait"
    /\ \A s \in Searchers : searcher[s] \in {"closed", "gone"}
    /\ miner' = IF result = "nil" THEN "height" ELSE "submit"
    /\ result' = "nil"
    /\ resultCh' = "empty"
    /\ cancelled' = FALSE
    /\ searcher' = [s \in Searchers |-> "off"]
    /\ UNCHANGED <<nodeVars, template, txs, stopping>>

\* handleBlockSubmit: the block is appended if it connects, has the next index
\* and holds nothing mined before.  No round is cancelled.
HandleBlockSubmit ==
    /\ miner = "submit"
    /\ miner' = "height"
    /\ template' = [height |-> 0, prev |-> 0]
    /\ txs' = {}
    /\ IF template.prev = Tip /\ template.height = Len(chain) /\ txs \cap TxsOf(chain) = {}
       THEN Append1(txs) /\ unseen' = unseen \cup Searching
       ELSE UNCHANGED <<chain, made, pending, unseen>>
    /\ UNCHANGED <<reorgs, enabled, isMining, cancel, round, work, closed, stopping, resultCh,
                   result, cancelled, searcher>>
-----------------------------------------------------------------------------
(* Its threads                                                             *)

Alive == miner \in {"mine", "wait"}

Returns(s) ==
    /\ Alive
    /\ searcher[s] = "search"
    /\ cancelled \/ stopping
    /\ searcher' = [searcher EXCEPT ![s] = "gone"]
    /\ UNCHANGED <<nodeVars, miner, template, txs, stopping, resultCh, result, cancelled>>

Finds(t) ==
    /\ Alive
    /\ searcher[t] = "search"
    /\ searcher' = [searcher EXCEPT ![t] = "found"]
    /\ UNCHANGED <<nodeVars, miner, template, txs, stopping, resultCh, result, cancelled>>

\* Faulty: more than one block behind.
ChainAdvancedFar ==
    /\ Alive
    /\ searcher["checker"] = "search"
    /\ Len(chain) > template.height + 1
    /\ searcher' = [searcher EXCEPT !["checker"] = "found"]
    /\ UNCHANGED <<nodeVars, miner, template, txs, stopping, resultCh, result, cancelled>>

\* chainAdvanced, asked every five seconds: only the height is compared.
ChainAdvanced ==
    /\ Alive
    /\ searcher["checker"] = "search"
    /\ Len(chain) > template.height
    /\ searcher' = [searcher EXCEPT !["checker"] = "found"]
    /\ UNCHANGED <<nodeVars, miner, template, txs, stopping, resultCh, result, cancelled>>

\* The result is sent unless there is one in the channel.
Sends(s) ==
    /\ Alive
    /\ searcher[s] = "found"
    /\ IF resultCh = "empty"
       THEN /\ resultCh' = IF s = "checker" THEN "nil" ELSE s
            /\ searcher' = [searcher EXCEPT ![s] = "sent"]
       ELSE /\ searcher' = [searcher EXCEPT ![s] = "gone"]
            /\ UNCHANGED resultCh
    /\ UNCHANGED <<nodeVars, miner, template, txs, stopping, result, cancelled>>

\* Faulty: the checker sends and returns.
ClosesUnlessChecker(s) ==
    /\ Alive
    /\ searcher[s] = "sent"
    /\ searcher' = [searcher EXCEPT ![s] = "closed"]
    /\ IF s = "checker" THEN UNCHANGED <<miner, cancelled>> ELSE CloseCancel(miner)
    /\ UNCHANGED <<nodeVars, template, txs, stopping, resultCh, result>>

Closes(s) ==
    /\ Alive
    /\ searcher[s] = "sent"
    /\ searcher' = [searcher EXCEPT ![s] = "closed"]
    /\ CloseCancel(miner)
    /\ UNCHANGED <<nodeVars, template, txs, stopping, resultCh, result>>
-----------------------------------------------------------------------------
AutoMining == LoopWakes \/ \E w \in Rounds : StartMiningRound(w) \/ TakeWork(w) \/ RoundOver(w)

MainLoop ==
    \/ StopSeen \/ GetHeight \/ GetHash \/ GetPendingTransactions
    \/ TakeResult \/ StopMining \/ AllReturned \/ HandleBlockSubmit

SearcherEnds(s) == Returns(s) \/ Sends(s) \/ Closes(s)

Next ==
    \/ \E t \in Txs : SubmitTx(t)
    \/ \E s \in SUBSET Txs : AddBlock(s) \/ HandleBlocks(s) \/ AttemptReorg(s)
    \/ AddBlockFails
    \/ StopAutoMining \/ AutoMining
    \/ \E w \in Rounds : Cancelled(w) \/ FindsNonce(w)
    \/ Stop \/ MainLoop
    \/ \E s \in Searchers : SearcherEnds(s)
    \/ \E t \in Threads : Finds(t)
    \/ ChainAdvanced

\* All goroutines get to run, a round of the node that is not cancelled finds a
\* nonce, and the miner's check is answered.  Its threads may search for ever.
Fairness ==
    /\ WF_vars(LoopWakes)
    /\ \A w \in Rounds : /\ WF_vars(StartMiningRound(w)) /\ WF_vars(TakeWork(w))
                         /\ WF_vars(Cancelled(w) \/ FindsNonce(w)) /\ WF_vars(RoundOver(w))
    /\ WF_vars(MainLoop) /\ WF_vars(ChainAdvanced)
    /\ \A s \in Searchers : WF_vars(SearcherEnds(s))

Spec == Init /\ [][Next]_vars /\ Fairness
-----------------------------------------------------------------------------
(* Properties                                                              *)

\* A round that searches a nonce for a block that no longer connects has been
\* cancelled, or the tip moved by a way that cancels nothing: a batch of the
\* sync, a reorganisation or an external miner's block.
StaleRoundHasCause ==
    \A w \in Rounds :
        round[w] = "mining" /\ work[w].prev # Tip => closed[w] \/ w \in unseen

\* While auto-mining is on, a pending transaction is mined in the end, here or
\* elsewhere, however often the rounds are cancelled.
PendingMined ==
    \A t \in Txs : (t \in pending /\ enabled) ~> (t \notin pending \/ ~enabled \/ made = MaxBlocks)

\* A block of the stand-alone miner that connects to the tip holds nothing that
\* was mined before, although the tip and the transactions come from two
\* requests.
ConnectedIsUnmined ==
    miner = "submit" /\ template.prev = Tip => txs \cap TxsOf(chain) = {}

\* The miner does not go on with a template of a lower height than the chain's:
\* its checker ends the round, and all threads return.
StaleTemplateEnds ==
    (Alive /\ template.height < Len(chain))
        ~> (miner \in {"stopped", "panicked"} \/ template.height >= Len(chain) \/ ~Alive)
=============================================================================
