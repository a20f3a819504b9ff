-------------------------------- MODULE Node --------------------------------
(***************************************************************************)
(* One dilithiumcoin node: the Blockchain object (in-memory chain,         *)
(* mempool, mined-transaction index, balance cache), the block files of    *)
(* its ChainStore, and the activities that change them under bc.mutex:     *)
(* transaction admission, local mining, blocks from peers and external     *)
(* miners, chain reorganisation, crash and restart.                        *)
(*                                                                         *)
(* Every method of Blockchain that changes state holds bc.mutex from its   *)
(* first read to its last write, so one action is one critical section.    *)
(* Mining is the exception: MinePendingTransactionsWithCancel releases the *)
(* lock while it searches a nonce, and is two actions with a job between.  *)
(*                                                                         *)
(* A block's Hash commits to PreviousHash and so, hashes being             *)
(* collision-free, to all its ancestors: a block is written as the         *)
(* sequence of the block bodies from the one after genesis to its own.     *)
(* Its PreviousHash is that sequence without its last element, its Index   *)
(* the length, and the genesis block is the empty sequence.                *)
(***************************************************************************)
EXTENDS Integers, Sequences, FiniteSets, FiniteSetsExt, SequencesExt, Sums, BlockFiles

CONSTANTS
    Addr,             \* wallet addresses
    System,           \* "SYSTEM", the sender of coinbases
    Int64Limit,       \* 2^63, one more than the largest int64
    Tx,               \* transactions that may be submitted here
    Worker,           \* activities that mine here: the auto-mining loop, POST /mine requests
    MinerAddress,     \* the address local workers are paid to
    OwnSig,           \* the signature of their coinbases, which holds the time of day
    PeerOffer,        \* what a block found elsewhere may hold (OfferType)
    Bits,             \* difficulties
    OwnStamp,         \* the difficulties that blocks found here may lead to
    GenesisBits,      \* the difficulty required of the first block
    MinFee,           \* MinTransactionFee
    InitialReward,    \* InitialBlockReward
    HalvingInterval,
    MinReward,        \* MinBlockReward
    NoJob             \* a worker that is not mining

NoCache == [height |-> 0, bal |-> [a \in Addr |-> 0]]

\* A transaction that passes validateTransaction: wallets sign theirs, but SYSTEM
\* is a sender like any other and its signature is any string.  (Two signatures
\* of wallets are equal only for equal payments; the code compares the strings.)
TxType == [sig : STRING, from : Addr \cup {System}, to : Addr \cup {System},
           amount : 1..(Int64Limit - 1), fee : 0..(Int64Limit - 1)]
OfferType == [miner : Addr \cup {System}, sig : STRING, bits : Bits, stamp : Bits,
              txs : Seq(TxType), extra : Nat]

ASSUME AddrAssumption == IsFiniteSet(Addr) /\ System \notin Addr
ASSUME LimitAssumption == Int64Limit \in Nat \ {0}
ASSUME TxAssumption == Tx \subseteq TxType
ASSUME OfferAssumption == PeerOffer \subseteq OfferType
ASSUME MinerAssumption == MinerAddress \in Addr /\ OwnSig \in STRING
ASSUME RewardAssumption == /\ HalvingInterval \in Nat \ {0}
                           /\ InitialReward \in Nat
                           /\ MinReward \in Nat
ASSUME FeeAssumption == MinFee \in Nat
ASSUME BitsAssumption == Bits \subseteq Nat /\ GenesisBits \in Bits /\ OwnStamp \subseteq Bits

VARIABLES
    up,       \* the process is running
    chain,    \* bc.Blocks after genesis
    mempool,  \* bc.Mempool, and bc.PendingTransactions up to their order
    mined,    \* bc.MinedTxIndex
    cache,    \* bc.balanceCache and balanceCacheHeight (= len(Blocks) when built)
    disk,     \* the block file at each height; <<>> is no file
    job,      \* for each worker, the block it is searching a nonce for
    torn      \* history: an attemptReorg failed while saving its fork, since the last start

vars == <<up, chain, mempool, mined, cache, disk, job, torn>>

\* The first transaction of a block, its coinbase, pays its amount to miner and
\* has the signature sig, which nothing checks; txs are the others.
Body == [miner : Addr \cup {System}, sig : STRING, bits : Bits, stamp : Bits,
         txs : Seq(TxType), coinbase : Int]

\* GetCurrentDifficultyBits after chain c.  The adjustment is a function of the
\* timestamps of the last blocks; a body's stamp is its timestamp reduced to
\* what this module needs of it, the difficulty it makes the next block have.
ExpectedBits(c) == IF c = <<>> THEN GenesisBits ELSE Last(c).stamp
-----------------------------------------------------------------------------
(* Amounts                                                                 *)

\* GetBlockReward: repeated halving by integer division, nothing below the minimum.
BlockReward(height) ==
    LET halvings == height \div HalvingInterval
        reward == Halve(InitialReward, halvings)
    IN IF halvings >= 64 \/ reward < MinReward THEN 0 ELSE reward

\* What int64 arithmetic makes of a result n.  The running int64 sums of the
\* code are the wrapped exact sums, whatever wraps on the way.
Int64(n) == ((n + Int64Limit) % (2 * Int64Limit)) - Int64Limit

Fees(txs) == SumSeq([i \in DOMAIN txs |-> txs[i].fee])

\* The coinbase that ValidateBlockTransactions expects, and the miner pays itself.
CoinbaseOf(height, txs) == Int64(BlockReward(height) + Fees(txs))

Cost(t) == t.amount + t.fee

\* What transaction t does to the balance of wallet a.
Effect(t, a) ==
    (IF t.to = a THEN t.amount ELSE 0) - (IF t.from = a THEN Cost(t) ELSE 0)

\* What the transactions txs do to it.
Net(txs, a) == SumSeq([i \in DOMAIN txs |-> Effect(txs[i], a)])

\* What a block does to it.
Gain(b, a) == (IF b.miner = a THEN b.coinbase ELSE 0) + Net(b.txs, a)

\* What a owns on chain c, and the confirmed balance the code computes of it
\* (ensureBalanceCache's full scan).
Owns(c, a) == SumSeq([i \in DOMAIN c |-> Gain(c[i], a)])

Balance(c, a) == Int64(Owns(c, a))

Balances(c) == [a \in Addr |-> Balance(c, a)]

Sigs(T) == {t.sig : t \in T}

\* The signatures of the transactions of wallets, and those on chain c.
WalletSigs(txs) == Sigs({t \in ToSet(txs) : t.from # System})

SigsOf(c) == UNION {WalletSigs(c[i].txs) : i \in DOMAIN c}

\* The work of a run of blocks: 2^DifficultyBits for each (getEffectiveDifficultyBits).
Work(c) == SumSeq([i \in DOMAIN c |-> Pow2(c[i].bits)])
-----------------------------------------------------------------------------
(* Validation                                                              *)

\* The sender of transaction i of b can pay, before its turn, what it costs.
Covers(c, b, i) ==
    LET from == b.txs[i].from
    IN Int64(Owns(c, from) + Net(SubSeq(b.txs, 1, i - 1), from)) >= Int64(Cost(b.txs[i]))

\* Faulty: without the search for signatures already mined.
ValidBodyRepeats(c, b) ==
    /\ b.coinbase = CoinbaseOf(Len(c) + 1, b.txs)
    /\ \A i \in DOMAIN b.txs : b.txs[i].from # System /\ Covers(c, b, i)

\* Faulty: coinbases are not counted.
ValidBodyManyCoinbases(c, b) ==
    /\ b.coinbase = CoinbaseOf(Len(c) + 1, b.txs)
    /\ \A i \in DOMAIN b.txs : b.txs[i].from # System =>
          /\ b.txs[i].sig \notin SigsOf(c)
          /\ \A j \in 1..(i - 1) : b.txs[j].sig # b.txs[i].sig
          /\ Covers(c, b, i)

\* Faulty: the sender must cover the amount, and the fee is forgotten.
ValidBodyFeeForgotten(c, b) ==
    /\ b.coinbase = CoinbaseOf(Len(c) + 1, b.txs)
    /\ \A i \in DOMAIN b.txs :
          /\ b.txs[i].from # System
          /\ b.txs[i].sig \notin SigsOf(c)
          /\ \A j \in 1..(i - 1) : b.txs[j].sig # b.txs[i].sig
          /\ Covers(c, [b EXCEPT !.txs[i].fee = 0], i)

\* ValidateBlockTransactions(block, previousBlocks), block being body b after
\* chain c: one coinbase, which pays exactly reward and fees, no transaction of
\* c or of b again, and each sender can pay when its turn comes.  The coinbase
\* of the block itself is not yet spendable in it.
ValidBody(c, b) ==
    /\ b.coinbase = CoinbaseOf(Len(c) + 1, b.txs)
    /\ \A i \in DOMAIN b.txs :
          /\ b.txs[i].from # System
          /\ b.txs[i].sig \notin SigsOf(c)
          /\ \A j \in 1..(i - 1) : b.txs[j].sig # b.txs[i].sig
          /\ Covers(c, b, i)

\* Every body of suffix s is valid after c and the bodies of s before it.
ValidSuffix(c, s) ==
    \A i \in DOMAIN s : ValidBody(c \o SubSeq(s, 1, i - 1), s[i])

\* The body another miner builds from offer o for the given height.
BodyOf(o, height) ==
    [miner |-> o.miner, sig |-> o.sig, bits |-> o.bits, stamp |-> o.stamp, txs |-> o.txs,
     coinbase |-> Int64(CoinbaseOf(height, o.txs) + o.extra)]
-----------------------------------------------------------------------------
(* The block files                                                         *)

\* SaveChain(c, from + 1) interrupted after writing k blocks.
WriteSome(d, c, from, k) ==
    [i \in Height |-> IF i \in (from + 1)..(from + k) THEN SubSeq(c, 1, i) ELSE d[i]]

\* Faulty: starts one block above the first that differs.
WriteAllButFirst(d, c, from) ==
    [i \in Height |-> IF i > Len(c) THEN <<>>
                      ELSE IF i > from + 1 THEN SubSeq(c, 1, i) ELSE d[i]]

\* SaveChain run to its end: all blocks of c written, files beyond its tip removed.
WriteAll(d, c, from) ==
    [i \in Height |-> IF i > Len(c) THEN <<>>
                      ELSE IF i > from THEN SubSeq(c, 1, i) ELSE d[i]]
-----------------------------------------------------------------------------
(* The balance cache                                                       *)

CacheFresh == cache.height = Len(chain) + 1

\* Faulty: the scan adds to the old map instead of an empty one.
EnsuredCacheNotEmptied ==
    IF CacheFresh THEN cache
    ELSE [height |-> Len(chain) + 1,
          bal |-> [a \in Addr |-> Int64(cache.bal[a] + Owns(chain, a))]]

\* ensureBalanceCache: rebuilt only if the number of blocks changed.
EnsuredCache ==
    IF CacheFresh THEN cache ELSE [height |-> Len(chain) + 1, bal |-> Balances(chain)]

Pending(a) == MapThenSumSet(Cost, {t \in mempool : t.from = a})

Available(a) == Int64(EnsuredCache.bal[a] - Pending(a))
-----------------------------------------------------------------------------
\* A process that is not running has no memory.
Forget ==
    /\ up' = FALSE
    /\ chain' = <<>>
    /\ mempool' = {}
    /\ mined' = {}
    /\ cache' = NoCache
    /\ job' = [w \in Worker |-> NoJob]
    /\ UNCHANGED torn

Init ==
    /\ up = TRUE
    /\ chain = <<>>
    /\ mempool = {}
    /\ mined = {}
    /\ cache = NoCache
    /\ disk = [i \in Height |-> <<>>]
    /\ job = [w \in Worker |-> NoJob]
    /\ torn = FALSE

\* AddTransactionIfNew, called for POST /transaction and a peer's tx message.
\* Mempool and index are keyed by the signature.  A payment of SYSTEM needs no
\* minimum fee and no funds, and its check reads no balance.
SubmitTx(t) ==
    /\ up
    /\ t.sig \notin Sigs(mempool)
    /\ t.sig \notin mined
    /\ \/ /\ t.from = System
          /\ mempool' = mempool \cup {t}
          /\ UNCHANGED cache
       \/ /\ t.from # System
          /\ t.fee >= MinFee
          /\ mempool' = IF Available(t.from) >= Int64(Cost(t)) THEN mempool \cup {t} ELSE mempool
          /\ cache' = EnsuredCache
    /\ UNCHANGED <<up, chain, mined, disk, job, torn>>

\* GetBalance and the other readers that refresh the cache.
GetBalance ==
    /\ up
    /\ cache' = EnsuredCache
    /\ UNCHANGED <<up, chain, mempool, mined, disk, job, torn>>

\* The orders in which PendingTransactions may list the mempool: it is
\* rebuilt by iterating over a Go map, whose order is unspecified.
Listings(S) ==
    {s \in [1..Cardinality(S) -> S] : \A i, j \in DOMAIN s : s[i] = s[j] => i = j}

\* The block a worker builds on our tip: whatever payments the mempool holds, those
\* of SYSTEM among them, and a coinbase with the reward of the given height.
OwnBody(txs, stamp, height) ==
    [miner |-> MinerAddress, sig |-> OwnSig, bits |-> ExpectedBits(chain), stamp |-> stamp,
     txs |-> txs, coinbase |-> CoinbaseOf(height, txs)]

\* Faulty: the reward is that of the tip's height, not the next one's.
StartMiningTipReward(w) ==
    /\ up
    /\ job[w] = NoJob
    /\ Len(chain) < MaxHeight
    /\ \E txs \in Listings(mempool), stamp \in OwnStamp :
          job' = [job EXCEPT ![w] =
                    [base |-> chain, body |-> OwnBody(txs, stamp, Len(chain))]]
    /\ UNCHANGED <<up, chain, mempool, mined, cache, disk, torn>>

\* The first critical section of MinePendingTransactionsWithCancel.
StartMining(w) ==
    /\ up
    /\ job[w] = NoJob
    /\ Len(chain) < MaxHeight
    /\ \E txs \in Listings(mempool), stamp \in OwnStamp :
          job' = [job EXCEPT ![w] =
                    [base |-> chain, body |-> OwnBody(txs, stamp, Len(chain) + 1)]]
    /\ UNCHANGED <<up, chain, mempool, mined, cache, disk, torn>>

\* The worker sees its cancel channel closed, between any two of its hashes.
CancelMining(w) ==
    /\ up
    /\ job[w] # NoJob
    /\ job' = [job EXCEPT ![w] = NoJob]
    /\ UNCHANGED <<up, chain, mempool, mined, cache, disk, torn>>

\* persistBlock's effect on the files.
Persisted(b) == [disk EXCEPT ![Len(chain) + 1] = Append(chain, b)]

\* clearMinedTransactions and revalidateMempool: what is left of the mempool
\* without the given signatures.
ClearMined(sigs) == {t \in mempool : t.sig \notin sigs}

\* AppendBlock: disk first, then memory; the signatures of wallets enter the
\* index, and whatever has a signature of the block, be it only that of its
\* coinbase, leaves the mempool.
AppendBlock(b) ==
    /\ disk' = Persisted(b)
    /\ chain' = Append(chain, b)
    /\ mined' = mined \cup WalletSigs(b.txs)
    /\ mempool' = ClearMined(Sigs(ToSet(b.txs)) \cup {b.sig})
    /\ UNCHANGED <<up, cache, torn>>

\* The nonce is found: the second critical section.  The block is dropped if
\* the tip is no longer the one it was built on, or if it cannot be saved.
FinishMining(w) ==
    /\ up
    /\ job[w] # NoJob
    /\ job' = [job EXCEPT ![w] = NoJob]
    /\ \/ /\ job[w].base = chain
          /\ AppendBlock(job[w].body)
       \/ UNCHANGED <<up, chain, mempool, mined, cache, disk, torn>>

\* A block found elsewhere that passes the checks all block handlers make: it
\* stands on our tip, has the difficulty expected there, and its transactions
\* are valid.  (A block that fails a check, or cannot be saved, changes
\* nothing here; the sync request or penalty it causes is PeerSync's and
\* PeerManager's.)
Extends(b) ==
    /\ up
    /\ Len(chain) < MaxHeight
    /\ b.bits = ExpectedBits(chain)
    /\ ValidBody(chain, b)

\* Node.AddBlock: a block message.  (It also closes the miner's cancel channel,
\* which the miner notices later or not at all: CancelMining.)
AddBlock(o) ==
    LET b == BodyOf(o, Len(chain) + 1)
    IN /\ Extends(b)
       /\ AppendBlock(b)
       /\ UNCHANGED job

\* handleBlocks: the next block of a batch.  The batch is one critical section;
\* taking its blocks one by one allows more interleavings than the code has.
HandleBlocks(o) == AddBlock(o)

\* handleBlockSubmit: a block from an external miner.
HandleBlockSubmit(o) == AddBlock(o)

\* The chain attemptReorg builds from our blocks up to height f and bodies s.
ForkChain(f, s) == SubSeq(chain, 1, f) \o s

\* Faulty: a fork of equal work is enough.
ReorgWantedOnTie(f, s) ==
    /\ f < Len(chain) => s[1] # chain[f + 1]
    /\ Work(s) >= Work(SubSeq(chain, f + 1, Len(chain)))
    /\ ValidSuffix(SubSeq(chain, 1, f), s)

\* attemptReorg switches to blocks s above our height f, the last common
\* ancestor, if they have strictly more work than ours and their transactions
\* are valid.  handleBlocks called it because a block above our height did not
\* connect or had another difficulty than we expect, but released the lock
\* since, and our chain may have grown or changed: that reason binds no more.
\* (The code may start from an earlier common ancestor than f: it then compares
\* and rewrites equal blocks as well.)
ReorgWanted(f, s) ==
    /\ f < Len(chain) => s[1] # chain[f + 1]
    /\ Work(s) > Work(SubSeq(chain, f + 1, Len(chain)))
    /\ ValidSuffix(SubSeq(chain, 1, f), s)

\* What a peer may send for the heights above f.
PeerSuffix(f) ==
    UNION {{[i \in 1..n |-> BodyOf(os[i], f + i)] : os \in [1..n -> PeerOffer]} :
              n \in 1..(MaxHeight - f)}

\* The forks a peer may bring up, each with its last common ancestor.
WantedForks ==
    UNION {{[at |-> f, blocks |-> s] : s \in {q \in PeerSuffix(f) : ReorgWanted(f, q)}} :
              f \in 0..Len(chain)}

\* Faulty: the index gains the new chain's transactions but keeps the old one's.
ReorgKeepsIndex(fork) ==
    /\ up
    /\ LET new == ForkChain(fork.at, fork.blocks)
       IN /\ disk' = WriteAll(disk, new, fork.at)
          /\ chain' = new
          /\ cache' = NoCache
          /\ mined' = mined \cup SigsOf(new)
          /\ mempool' = ClearMined(SigsOf(new))
    /\ UNCHANGED <<up, job, torn>>

\* attemptReorg, successful: files first, then memory; cache dropped, index
\* rebuilt, the new chain's transactions of wallets removed from the mempool.
Reorg(fork) ==
    /\ up
    /\ LET new == ForkChain(fork.at, fork.blocks)
       IN /\ disk' = WriteAll(disk, new, fork.at)
          /\ chain' = new
          /\ cache' = NoCache
          /\ mined' = SigsOf(new)
          /\ mempool' = ClearMined(SigsOf(new))
    /\ UNCHANGED <<up, job, torn>>

\* The files after SaveChain stopped with k of a fork's blocks written: before
\* the last one by an error, or anywhere by a crash.
HalfSaved(fork, last) ==
    {WriteSome(disk, ForkChain(fork.at, fork.blocks), fork.at, k) :
       k \in 0..(Len(fork.blocks) - last)}

\* The files after SaveChain was stopped with all of a fork's blocks written and
\* the m lowest files beyond its tip removed.
HalfCleaned(fork) ==
    LET new == ForkChain(fork.at, fork.blocks)
        n == Len(new)
    IN {[i \in Height |-> IF i \in (n + 1)..(n + m) THEN <<>>
                          ELSE WriteSome(disk, new, fork.at, n - fork.at)[i]] :
          m \in 0..(MaxHeight - n)}

\* attemptReorg when SaveBlock fails: bc.Blocks is put back, the files already
\* written stay.  (Bound: this happens once between two starts.)
ReorgSaveFails(fork) ==
    /\ up
    /\ ~torn
    /\ disk' \in HalfSaved(fork, 1)
    /\ torn' = TRUE
    /\ UNCHANGED <<up, chain, mempool, mined, cache, job>>

\* The process dies inside SaveChain, while it writes or while it removes files.
CrashInReorg(fork) ==
    /\ up
    /\ disk' \in HalfSaved(fork, 0) \cup HalfCleaned(fork)
    /\ Forget

\* Any other crash.  One inside AppendBlock, after the block's file is in
\* place, leaves the same files as one just after AppendBlock.
Crash ==
    /\ up
    /\ Forget
    /\ UNCHANGED disk

\* NewBlockchain and SetStore: the chain is what LoadChain returns.
Restart ==
    /\ ~up
    /\ up' = TRUE
    /\ chain' = LoadChain(disk)
    /\ mined' = SigsOf(LoadChain(disk))
    /\ torn' = FALSE
    /\ UNCHANGED <<mempool, cache, disk, job>>

Next ==
    \/ \E t \in Tx : SubmitTx(t)
    \/ GetBalance
    \/ \E w \in Worker : StartMining(w)
    \/ \E w \in Worker : CancelMining(w)
    \/ \E w \in Worker : FinishMining(w)
    \/ \E o \in PeerOffer : AddBlock(o) \/ HandleBlocks(o) \/ HandleBlockSubmit(o)
    \/ \E fork \in WantedForks : Reorg(fork) \/ ReorgSaveFails(fork) \/ CrashInReorg(fork)
    \/ Crash
    \/ Restart

Spec == Init /\ [][Next]_vars
-----------------------------------------------------------------------------
(* Properties                                                              *)

JobType == [base : Seq(Body), body : Body] \cup {NoJob}

TypeOK ==
    /\ up \in BOOLEAN
    /\ chain \in Seq(Body)
    /\ Len(chain) <= MaxHeight
    /\ mempool \subseteq Tx
    /\ mined \subseteq STRING
    /\ cache \in [height : Nat, bal : [Addr -> Int]]
    /\ disk \in [Height -> Seq(Body)]
    /\ \A i \in Height : disk[i] # <<>> => Len(disk[i]) = i
    /\ torn \in BOOLEAN
    /\ job \in [Worker -> JobType]

\* No wallet's transaction is listed twice on chain c, in one block or in two.
NoRepeat(c) ==
    \A i, j \in DOMAIN c : \A k \in DOMAIN c[i].txs, l \in DOMAIN c[j].txs :
        /\ c[i].txs[k].from # System /\ c[j].txs[l].from # System
        /\ c[i].txs[k].sig = c[j].txs[l].sig
        => i = j /\ k = l

\* A signed transaction is confirmed at most once, although it may sit in the
\* jobs of two workers, in the mempool and in peers' blocks at the same time,
\* locally mined blocks are appended without ValidateBlockTransactions, and
\* reorganisations and restarts replace the chain it was confirmed on.
NoTxTwice == NoRepeat(chain)

\* MinedTxIndex is exactly the signed transactions of the current chain, so that
\* AddTransactionIfNew neither refuses a transaction a reorganisation dropped
\* nor admits a confirmed one, and no confirmed transaction waits in the mempool.
IndexExact ==
    /\ mined = SigsOf(chain)
    /\ Sigs(mempool) \cap mined = {}

\* Whenever ensureBalanceCache would trust the cache (its height is that of
\* the chain), the cache holds the balances of this chain, and not those of
\* another one of the same height.
CacheNotStale == CacheFresh => cache.bal = Balances(chain)

\* A restart at any moment would come back with every block of the chain in
\* memory, whatever files earlier reorganisations and crashes left behind;
\* except after a reorganisation whose save failed half-way, which rolls back
\* memory and not the files (torn, until the next save or start).  It may come
\* back with more: two crashes inside SaveChain can leave a file that fits
\* on the tip again once a block of an abandoned fork is appended.
DiskKeepsChain == up /\ ~torn => IsPrefix(chain, LoadChain(disk))

\* While the process runs, the chain only ever changes to one with strictly
\* more work: a local block, a peer's block or a fork that is heavier.
WorkOnlyGrows == [][up /\ up' /\ chain' # chain => Work(chain') > Work(chain)]_vars

\* The coins that payments of SYSTEM among txs create, their fees with them, and
\* those that payments to SYSTEM take away, as no wallet holds them.
Minted(txs) ==
    SumSeq([i \in DOMAIN txs |-> IF txs[i].from = System THEN Cost(txs[i]) ELSE 0])

Burnt(txs) == SumSeq([i \in DOMAIN txs |-> IF txs[i].to = System THEN txs[i].amount ELSE 0])

\* What block b at height h adds to what all wallets hold.
Supplied(b, h) ==
    BlockReward(h) + (IF b.miner = MinerAddress THEN Minted(b.txs) ELSE 0)
    - Burnt(b.txs) - (IF b.miner = System THEN b.coinbase ELSE 0)

\* All wallets together hold, in the code's arithmetic, the scheduled rewards of
\* the chain's heights, less what was paid to SYSTEM, and what payments of SYSTEM
\* created that this node's own miner confirmed: AddTransactionIfNew lets them in,
\* and nothing checks a block found here.  Fees move, no coinbase built on a stale
\* height is accepted, and no block from elsewhere creates a coin.
SupplyOnSchedule ==
    Int64(SumFunction(Balances(chain)))
        = Int64(SumSeq([i \in DOMAIN chain |-> Supplied(chain[i], i)]))

\* The sums of block b that concern wallet a fit in int64: the cost of each of its
\* payments, and the coinbase with all the fees, if it is paid to a.
SumsFit(b, a) ==
    /\ \A k \in DOMAIN b.txs : b.txs[k].from = a => Cost(b.txs[k]) < Int64Limit
    /\ b.miner = a => b.coinbase >= 0

\* A block that was not built here leaves none of its senders in debt, also
\* when it came in by a reorganisation or was loaded at restart; except a sender
\* for whom a sum of the block exceeds int64 (a cost that does is negative, and
\* any balance covers it), or who was in debt beyond int64 before.
PeerSpendsCovered ==
    \A i \in DOMAIN chain : chain[i].miner # MinerAddress =>
        \A k \in DOMAIN chain[i].txs :
            LET a == chain[i].txs[k].from
            IN SumsFit(chain[i], a) /\ Owns(SubSeq(chain, 1, i - 1), a) >= -Int64Limit
                   => Owns(SubSeq(chain, 1, i), a) >= 0
=============================================================================
