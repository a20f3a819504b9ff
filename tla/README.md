# A verification project for dilithiumcoin

TLA+ models of the dilithiumcoin node (`src/*.go`) and of the programs around
it, their model-checking configurations, and machine-checked proofs. Source
references are `file:line` in the repository.

## 1. The system

A **node** (`main.go`) is one process. Its parts:

| Part | Source | State it keeps | Operations |
|---|---|---|---|
| Blockchain | `blockchain.go` | `Blocks`, `Mempool`/`PendingTransactions`, `MinedTxIndex`, balance cache, difficulty cache; one lock `bc.mutex` | admit a transaction, mine, append, reorganise, balances, difficulty |
| Block handlers | `network.go`, `peer.go`, `api.go` | none of their own | a block message, a batch of blocks, a fork, a block from an external miner |
| ChainStore | `storage.go` | one JSON file per block | `SaveBlock`, `SaveChain`, `LoadChain` |
| Incremental sync | `peer.go:1061-1535` | `syncInProgress` per peer, messages in flight | headers, blocks, reorganisation |
| PeerManager | `peer.go` | peers, bans, address book, penalties | connect, accept, handshake, ban, maintain |
| Auto-mining | `network.go:336-422` | `autoMineEnabled`, `isMining`, `miningCancel` under `miningMutex` | start, stop, round, cancel |
| HTTP API | `api.go` | none | transactions, mining, submitted blocks, bans |
| Census | `census.go` | the last announcement of every node, and what was seen | announce, forward, prune |
| Auto-update | `autoupdate.go` | what was seen; the program's file and its copy | announce, download, replace, restart |

Beside it run a **mining pool** (`cmd/dilithium-pool`: shares, PPLNS rewards,
payouts, a JSON database), **miners** that submit blocks over HTTP
(`cmd/dilithium-miner`, which has a small pool server and pool clients of its
own), and wallets, which are clients.

How they interact: every goroutine of a node (one reader per peer, HTTP
handlers, the mining loop, timers) calls the Blockchain's methods, which
serialise on `bc.mutex`; the Blockchain writes the ChainStore inside that
lock; the handlers reply to peers through bounded send buffers. The pool and
the miners see the node only through its HTTP API.

What is hard, and which property it threatens:

- **Mining outside the lock** (`blockchain.go:452`). The block a worker
  finishes was built on an older state and is appended without validation.
  No transaction may be confirmed twice, and no wrong reward may enter.
- **Reorganisations**, in three steps under separate locks
  (`handleBlocks`, `attemptReorg`, `SaveChain`): index, cache, mempool and
  files must all follow, also when the new chain is shorter.
- **Crashes and failing disks**: what a restart loads must start with what
  was acknowledged.
- **Caches keyed by height** (balances, difficulty) under chains that change
  at equal height.
- **Sync between peers**: lost requests, answers that no longer fit, forks
  deeper than what is searched.
- **Money in the pool**: rewards, failed payouts, and restarts between a
  payment and the record of it.
- **Two ends of a connection** that count, compare and drop connections on
  their own, each by what it knows of the other.
- **Gossip** (payments, addresses, the census, releases): messages that arrive
  twice, late, out of order or not at all, and peers that are penalised for
  what they could not know.
- **Threads of a miner** around channels, and a template that is out of date
  when its block is found.

`PROJECT.json` lists every component and, under "hazards", the places in the
code where each of these bites.

## 2. The modules

| Module | Models | How |
|---|---|---|
| `Sums` | `SumSeq`, powers of two, halving, as recursive functions | used by `Node`, `Difficulty`, `Sync` |
| `BlockFiles` | `LoadChain` (`storage.go:118`) on a directory of block files | used by `Node`, `ChainStore` |
| `Node` | one node: chain, mempool, index, cache, files, mining jobs | one action per critical section |
| `ChainStore` | `SaveBlock`/`SaveChain` (`storage.go:34-114`) step by step over a file system | one action per system call |
| `SafeStore` | what a node expects of a store (abstract specification) | implemented by `ChainStore` |
| `Difficulty` | the difficulty of the next block: incremental, recalculated, and as a rule (`blockchain.go:628-1055`, `network.go:477-598`) | one action per critical section |
| `Sync` | two connected nodes bringing their chains in step (`peer.go:1059-1535`) | one action per message handler, and per critical section inside it |
| `Pool` | the mining pool's books (`cmd/dilithium-pool`): shares, blocks, credits, payouts, saves, stops and starts | one action per critical section, request or save |
| `PoolDatabase` | `Database.Save` step by step, called by several goroutines (`database.go:83-118`) | one action per system call |
| `DatabaseSaves` | what a caller of `Save` sees | the operators `Pool` and `SafeDatabase` share |
| `SafeDatabase` | what the pool expects of `Save` (abstract specification) | implemented by `PoolDatabase`, used by `Pool` |
| `Peers` | the connections of nodes that dial each other (`peer.go`) | one action per critical section of an end's goroutines |
| `AddrBook` | bootstrap, maintenance, address book, bans and `peers.dat` of one node (`peer.go`) | one action per address tried, and per step of a save |
| `Relay` | payments on their way to all mempools (`peer.go`, `api.go`, `blockchain.go`) | one action per message handler |
| `Mining` | a node's auto-mining rounds, and a stand-alone miner (`network.go`, `cmd/dilithium-miner/miner.go`) | one action per critical section, request or channel operation |
| `MinerPool` | the pool server inside the miner and its clients (`cmd/dilithium-miner/pool.go`, `pool_worker.go`) | one action per line handled, and per step of a reward |
| `Network` | nodes, and which are peers of each other | used by `Relay`, `Updates`, `Census` |
| `Updates` | announcements of releases, and the replacement of the program (`autoupdate.go`) | one action per handler and per file operation |
| `Census` | announcements of nodes (`census.go`) | one action per handler |
| `Stores`, `Gossip` | `ChainStore` and `PoolDatabase` side by side, `Updates` and `Census` side by side | an INSTANCE of the second in the first |
| `NodeProofs`, `DifficultyProofs`, `PoolProofs` | theorems about `Node`, `Difficulty`, `Pool` | see section 6 |
| `StoresProofs` | theorems about `ChainStore`, `PoolDatabase`, `AddrBook` | what is kept in files |
| `SyncProofs` | theorems about `Sync`, `Relay`, `Updates`, `Census` | what nodes send each other |
| `PeersProofs` | theorems about `Peers` | |
| `MiningProofs` | theorems about `Mining` and `MinerPool` | |
| `SumsProofs` | lemmas about sums | used by all of these but `PeersProofs` |
| `MCNode`, `MCStores`, `MCDifficulty`, `MCSync`, `MCPool`, `MCPeers`, `MCAddrBook`, `MCRelay`, `MCMining`, `MCMinerPool`, `MCGossip` | small instances for TLC | values of the constants, and the initial states and steps of two components that run side by side |

### Node

A block's hash commits to its parent's and so to all ancestors; hashes are
taken as collision-free. A block is therefore *written as the sequence of the
bodies* from the first block after genesis to its own: `PreviousHash` is that
sequence without its last element, the genesis block is `<<>>`, and
`bc.Blocks` is one sequence `chain`. A body has the miner, the coinbase's
amount and signature, the difficulty, the other transactions, and a *stamp*. The
stamp stands for the timestamp, reduced to what matters here: the difficulty it
makes the next block have (`ExpectedBits`). A transaction is a record whose `sig`
is the text of its signature.

| Variable | Code |
|---|---|
| `up` | the process runs |
| `chain` | `bc.Blocks` without genesis |
| `mempool` | `bc.Mempool`, and `bc.PendingTransactions` as a set: the code rebuilds the list by iterating over a Go map, and `StartMining` takes any order |
| `mined` | `bc.MinedTxIndex` |
| `cache` | `balanceCache`, `balanceCacheHeight` |
| `disk` | the block files |
| `job` | what each worker is searching a nonce for |
| `torn` | history: a reorganisation failed while saving |

| Action | Code |
|---|---|
| `SubmitTx` | `AddTransactionIfNew` (from HTTP or a peer) |
| `GetBalance` | readers that rebuild the cache |
| `StartMining`, `CancelMining`, `FinishMining` | the two critical sections of `MinePendingTransactionsWithCancel`, and the closed cancel channel |
| `AddBlock`, `HandleBlocks`, `HandleBlockSubmit` | the three handlers that append a block; they make the same checks |
| `Reorg`, `ReorgSaveFails` | `attemptReorg`, successful or with a failing `SaveChain` |
| `Crash`, `CrashInReorg`, `Restart` | the process dies, also inside `SaveChain`; `SetStore` |

Choices a reader should know:

- A block's `Index` is its height. The HTTP handler checks this;
  `handleBlocks` and `attemptReorg` do not, so blocks whose `Index` lies are
  outside the model.
- `handleBlocks` appends a batch inside one critical section; the model takes
  the blocks one by one, which allows more interleavings than the code.
- `attemptReorg` may start from an earlier common ancestor than the last; it
  then rewrites equal blocks. The model takes the last.
- `SYSTEM` is a sender like any other, whom the code spares the signature, the
  minimum fee and the balance (`blockchain.go:356`, `374`, `1378`): `SubmitTx` admits
  its payments, `OwnBody` lists them, `ValidBody` refuses a block that has one
  beside the coinbase. A payment may also be *to* `SYSTEM`. No wallet is its, so
  the balances are those of the others.
- Amounts and fees are int64, positive and not negative (`blockchain.go:1360-1366`),
  and not bounded otherwise. `Int64` is what int64 arithmetic makes of a sum. A
  running sum that wraps on the way ends as the wrapped exact sum, so it is enough
  to wrap where the code compares, stores or pays: `Covers`, `Available`,
  `Balance`, `CoinbaseOf`. `Int64Limit` stands for 2^63.
- The coinbase has a signature too, which nothing checks. For blocks found here it
  is `OwnSig` (the code puts height and time of day in it), for others it is any
  text, and it clears a waiting payment that has the same.
- `Tx` is what may be submitted here, `PeerOffer` what blocks from elsewhere may
  hold, `OwnStamp` the difficulties that the time of a block found here may lead to.
- Index and mempool are keyed by the signature's text. That it identifies a
  wallet's payment is an assumption: the hexadecimal text is not reduced to one
  case, so the same signature spelled otherwise is another key (section 5).
- A block that fails a check changes nothing here.

### ChainStore and SafeStore

`ChainStore` has the temporary file, its fsync, the rename, the directory's
fsync and the removals as separate actions, each of which may fail the way the
code lets it: errors before the rename abort the save, errors of the
directory's fsync and of `os.Remove` are ignored. `Kill` stops the process
(what was renamed stays renamed); `PowerLoss` leaves, for each directory
entry independently, the synced or the current one, and turns a file whose
data was not synced into one that does not parse. `SafeStore` states the
promise: a chain whose save was acknowledged comes back, up to what a later
save is replacing, unless durability was in doubt because a directory fsync
was skipped. `ImplementsSafeStore` is the refinement; the mapping reads
`kept` as what `LoadChain` would return now.

### Difficulty

The node knows the next block's difficulty in two ways, and other nodes judge
it in a third. `NextBits`/`Read` is `GetCurrentDifficultyBitsLocked`, which
adjusts `bc.DifficultyBits` once per height and caches the result by height.
`RecalcBits`/`ResetsCache` is `recalcDifficultyFromChain`, which starts over
from the blocks after a reorganisation or a start. `Expected` is
`computeExpectedDifficultyBits`, a function of the chain alone, and the
reference here.

| Variable | Code |
|---|---|
| `chain` | `bc.Blocks` without genesis; a block is its time since its parent and its bits |
| `difficultyBits` | `bc.DifficultyBits` |
| `lastAdjustmentHeight`, `lastAdjustmentBits` | the cache |
| `settled` | history: the last change of the chain was an append, not a recalculation |

`GetDifficulty` is any caller that only asks; `AppendBlock` any path that
appends (each reads the difficulty first); `Reorg` is `attemptReorg` followed
by the recalculation; `Restart` is `NewBlockchain` and `SetStore`.

The code divides floating point times by powers of two; the model counts time
in `1 / Scale` seconds, which makes these divisions exact integers, and
compares squares where the code rounds a logarithm. `DAAv2ForkHeight` equals
`DAAForkHeight`, so the v1 branches are unreachable and left out. Every block
states its bits, so the conversion from old hexadecimal difficulties is left
out. Fork blocks come from peers who follow the rule (section 5 has what happens
when they do not).

### Sync

Blocks are written as in `Node`, as the sequence of bodies up to themselves,
here only with their miner and difficulty. A message with blocks carries the
chain up to its last block and the index of its first.

| Variable | Code |
|---|---|
| `chain` | each node's `bc.Blocks` without genesis |
| `peerHeight` | `peer.StartHeight`, the other's height at the handshake |
| `syncing` | `peer.syncInProgress` |
| `net` | `peer.sendCh` and the TCP stream behind it |
| `reader` | where the goroutine of `readLoop` is between two critical sections of a handler |
| `spawned` | `go pm.startIncrementalSync(peer)`, not yet run |
| `abandoned` | history: a sync ended and left the flag set |

| Action | Code |
|---|---|
| `HandleVersionAck`, `ReaderStarts`, `SpawnedStarts` | a sync is wanted, and `startIncrementalSync` runs, in the reader or in a goroutine of its own |
| `Mine`, `HandleBlock` | a block is mined and announced; `handleBlock` with `AddBlock` |
| `HandleGetHeaders`, `HandleGetBlocks` | the side that serves |
| `HandleHeaders`, `HandleOldBlocks`, `HandleBlocks`, `ReaderContinues` | the answers, and the end of `handleBlocks` that asks for more |
| `AttemptReorg` | `attemptReorg`: search further back, keep the chain, or switch |
| `Reconnect` | `handleDisconnect` and a new handshake |

Choices a reader should know:

- Of headers only the range matters: `handleHeaders` reads nothing but
  `hdr.Index`.
- `MayDisagree` lets a node find any block's difficulty different from the
  one it expects; `Difficulty` shows when that happens.
- Blocks are valid otherwise, and disks do not fail here: those paths end a
  batch early, which `Node` covers, or penalise the peer.
- Clearing the flag is part of the critical section before it; setting it and
  reading the own height to ask from is one step of `startIncrementalSync`;
  `handleGetHeaders` and `handleGetBlocks` read the chain once. The version
  messages are exchanged in one step, a block is announced in the step that
  appends it. The reader is what the model leaves interleaved: it learns of a
  height, reads its own, decides on a batch and reorganises in separate steps,
  between which its node mines.
- A connection is lost between two handlers of both readers.

### Pool, PoolDatabase and SafeDatabase

| Variable of `Pool` | Code |
|---|---|
| `mode` | the process: running, in main's final save, stopped, or down |
| `db` | `Database.data` under `db.mu`: the share window, the rewards of the recorded blocks, and each worker's balance, earnings and payments |
| `work` | `currentWork`: height and what a block pays (reward and fees of the listed transactions) |
| `handler` | where each worker's `handleBlockSolution` is |
| `payout` | where `processPayouts` is, with the copied balances still to pay |
| `save` | the calls of `Database.Save`: what each marshalled, and whether it has been alone |
| `file` | the database file: none, whole, or one that does not parse |
| `height` | the node's chain |
| `backed`, `delivered`, `forgotten`, `crashed` | history: what accepted blocks allow to credit, what the node accepted as payments, which of these a start did not find recorded, and whether the pool was ever killed |

| Action | Code |
|---|---|
| `FetchWork`, `HandleSubmit` | `workFetcher`, `handleSubmit` |
| `SubmitBlock`, `RecordsBlock`, `CreditsBlock`, `PrunesShares` | `handleBlockSolution`: the request to the node, then three critical sections |
| `StartPayouts`, `SendPayout`, `RecordsPayout` | `processPayouts`: the list, each request, each record |
| `BeginSave`, `SavesCollide`, `EndSave` | `Save`, called by a handler, the payout engine, the autosaver, and main |
| `Shutdown`, `Crash`, `Restart` | main's signal handling, a kill, a new process |
| `NodeAppends` | somebody else's block |

Choices a reader should know:

- Each worker address has one connection; its handler works on one request at
  a time, as `handleWorker` does.
- The pool rebuilds a solved block with its own time and sends the worker's
  hash with it (`pool.go:296-323`). The hash commits to the time, so the node
  accepts the block only if the pool's clock still shows the second in which
  the worker began: `NodeAccepts`.
- Answers may be lost after the node has acted. A lost answer to a payment
  and a refusal look the same to the pool.
- Of the float fee (`pplns.go:43`) the model takes the floor; worker
  statistics and rejected shares, which no amount depends on, are left out.
- The autosaver's last save at a shutdown is one of its calls; `Shutdown`
  waits for it as `wg.Wait` does.
- The pool is killed, but the power does not fail: `Save` syncs the file and
  not its directory, as in `ChainStore`.

`PoolDatabase` shows what overlapping calls do to each other: the second
`os.Create` truncates the file the first is writing, the first `Rename` moves
away the file the second has open, and a failing call removes a file that is
not its own. Half written text may so be renamed over the database, which a
kill then leaves; `NewDatabase` refuses to start with it. The comment of
`Save`, "writes database to disk atomically", holds for calls that do not
overlap. `SafeDatabase` states just that, `ImplementsSafeDatabase` is the
refinement (mapping the texts to what `Load` makes of them), and `Pool` builds
its saves from the same operators, so that what holds of `Pool` does not rest
on saves being atomic.

### Peers and AddrBook

`Peers` has the two ends of every connection as separate objects, as the code
has: a `Peer` on the node that dialled, another on the one that accepted.

| Variable of `Peers` | Code |
|---|---|
| `dial`, `caller`, `route`, `accept` | where `Connect` and `HandleInbound` stand with a connection |
| `state`, `known`, `pinging`, `score` | `peer.State`, `Nonce`, `PingPending`, `misbehaviorScore` of an end |
| `stopped`, `reader`, `unsent`, `queue` | its `stopCh`, `readLoop`, `writeLoop` and what is under way to it |
| `tracked`, `banned` | `pm.peers` and `pm.banned` of each node |
| `alive`, `troubles`, `twice` | the process; a bound; history |

`Connect` is three steps (the checks, the dial, the registration), of as many
goroutines as the code has; `HandleInbound` runs in the one acceptor. The
handshake is `Greet`, `HandleVersion`, `StoreVersion`, `HandleVersionAck` with
the tie-breaker between two connections of the same pair. A machine may vanish
(`Vanish`), a peer may send malformed messages, too many, or an old version.

Facts a reader of the code should know, which the model has: an end that is
told of a second connection's loss (`handleDisconnect`) leaves its own socket
open; the tie-breaker does not always keep the connection that the higher nonce
dialled; `Stop` called twice at a time closes `stopCh` twice and the process
dies; a ban by host does not disconnect, since peers are keyed by host and
port; the score of a peer is that of its connection.

`AddrBook` takes a connection as made or not, and has what decides whom a node
tries: `Bootstrap` (known peers, then seeds), the maintenance loop (candidates
of the book, then seeds), `HandleAddr` with the limit of the book and its
pruning, bans and their expiry, and the file. `SaveBegins` and `SaveEnds` are
the truncation and the writing of `os.WriteFile`, which the saver, the main
goroutine and a crash may interleave.

### Relay

There is one chain, of which each node has a prefix (`height`); what forks do
is in `Node` and `Sync`. `blocks` holds the payments of each block.

| Variable | Code |
|---|---|
| `mempool` | `bc.Mempool` |
| `link` | `peer.sendCh` and the stream behind it, from one peer to another |
| `strikes` | `misbehaviorScore`, in units of one refused payment |
| `strayed` | a node that mined a block which the others refuse |

`Submit` is `handleAddTransaction`, `HandleInv`, `HandleGetData`, `HandleTx`
and `HandleMempool` are the handlers of these messages, `Rebroadcast` is a tick
of `rebroadcastMempool` for one peer, `Meet` a connection that is made again
(with the request for the other's mempool), `MineBlock`, `LearnBlock` and
`RefuseBlock` are what blocks do to payments. `Sent` drops what does not fit in
the buffer, and nobody is told, as `Send`'s callers ignore its error.

Two things follow from the code that the properties except: `HasTransaction`
looks only at the mempool, so a confirmed payment is asked for again and again;
and a payment that a peer refuses is announced to it every two minutes, at ten
points each time, so an honest peer is banned after twenty minutes.

### Mining and MinerPool

`Mining` has the loop of `StartAutoMining` and the rounds that `AddBlock`
spawns beside it (`round`, `work`, `cancel`, `closed`), and a stand-alone miner:
its main loop (`miner`), what its three requests told it (`template`, `txs`),
its threads and checker (`searcher`) and the two channels between them
(`resultCh`, `cancelled`). `unseen` is history: the tip moved without a call of
`cancelMining`, which only `AddBlock`, the old `handleBlockMessage` and
`StopAutoMining` make. In the model as in the code, the miner's process dies if
two threads have a result and each closes the channel (`panicked`).

In `MinerPool` a tip and the job on top of it are one number. `session` and
`handler` are the server's goroutines, `client`, `conn` and `job` the clients',
`toPool` and `toClient` the lines between them. `CountTotal`,
`DistributeRewards`, `ResetShares` and `ResetTotal` are the steps of sharing out
a reward, between which `CountShare` of other sessions comes. A client takes the
next line for the answer to what it asked, whatever it is.

### Updates and Census

`exec` and `old` are the versions in the program's file and in its copy,
`update[n][k]` the goroutine of announcement `k` (a seed and a version) on its
way through `Download`, `RemoveOld`, `BackUp`, `Install`, `ShutdownFn` and
`Exec`: every announcement that `handleUpdateAnnounce` takes starts one, and
nothing keeps two from working on the same files. Each step may fail or be the
last before a crash. What a process has seen is lost with it
(`Boots`). The default list of trusted keys is empty (`config.go:140`): the model
is of a network that has two seeds.

`Census` has the time in half-hours, the age at which an announcement is
refused and forgotten.

## 3. Runs

| Run | Instance | Shows |
|---|---|---|
| `node` | one worker, a payment and one of `SYSTEM` to submit, four kinds of foreign block, three heights | the invariants below hold |
| `stores` | the node's store: appends of one block, two forks, three heights; the pool's: three savers, databases of two lengths | the invariants and both refinements |
| `difficulty` | period and window of two blocks, fork height 5, six blocks, forks of up to two | the invariants below hold |
| `sync` | two nodes, chains up to five blocks with forks up to two deep, buffers of two messages | the invariants and liveness below hold |
| `pool` | two workers, two blocks of 10 with a fee of a tenth, two shares, one autosave, one restart | the invariants below hold |
| `peers` | two nodes, one known by a name, the other by its IP, which it dials itself as well, two connections, one penalty or lost machine | the invariants and liveness below hold |
| `addr_book` | a seed and a peer, a book for one address, three bans, losses, shutdowns or crashes | the invariant and liveness below hold |
| `relay` | three nodes in a line, a payment, its rival and its successor, buffers of two messages, a block, a reconnection | the action property and liveness below hold |
| `mining` | the loop and one spawned round, a miner with one thread and the checker, two blocks, one reorganisation | the invariants and liveness below hold |
| `miner_pool` | two clients, two connections, two tips, two shares | the invariants below hold |
| `gossip` | two seeds and a node between them, two faults, one restart; a census of three nodes in a line | the invariant, action property and liveness below hold |
| `miner_pool_block` | as `miner_pool` | **violated**: `SolvedIsAccepted` |

The properties of `node`:

- `NoTxTwice`: no signed transaction is confirmed twice, over jobs, mempool, peers'
  blocks, forks and restarts.
- `IndexExact`: the index is exactly the chain's signed transactions, and none of
  them waits in the mempool, nor a payment of `SYSTEM` under its signature.
- `CacheNotStale`: a cache that would be trusted holds this chain's balances.
- `DiskKeepsChain`: a restart now would load a chain that starts with the one
  in memory. Only "starts with": after two crashes inside `SaveChain`, an old
  file may happen to link on top of the tip again. Not after a reorganisation
  whose save failed, see section 5.
- `SupplyOnSchedule`: all balances together are, in int64 arithmetic, the scheduled
  rewards, and what payments of `SYSTEM` created that the own miner confirmed
  (section 5), less what was paid to `SYSTEM`. No block from elsewhere creates a
  coin.
- `PeerSpendsCovered`: a block from elsewhere leaves no sender in debt; one of
  the own miner may (section 5), and so may a block in which a sum that concerns
  the sender exceeds int64 (`SumsFit`), or that comes after a debt beyond int64.
- `WorkOnlyGrows`: while the process runs, the chain is only replaced by one
  with strictly more work.

The properties of `stores`: `NeverTorn` (no file is ever half written,
whatever moment the power goes), `PowerSafe` (an acknowledged chain survives
it), and the two refinements `ImplementsSafeStore` and `ImplementsSafeDatabase`.

The properties of `difficulty`:

- `SettledAgrees`: a node that appended a block since it last recalculated
  demands exactly what the rule demands, whoever read the difficulty before.
- `RecalcOneBitOff`: in every state the node is at most one bit off.
- `SlowerNeverHarder`: had the last block taken longer, the rule would not ask
  for more.

The properties of `sync`:

- `FlagHasCause`: a set flag belongs to a message on its way or a batch in the
  reader, whatever searches, announcements and syncs of the other side come
  between; except for the syncs that `handleHeaders` gives up without clearing
  it and those whose message was dropped. This is what makes the flag a lock
  that is not simply lost.
- `SyncEnds`: no sync goes on for ever.
- `WorkGrows`: a node changes its chain only for one with more work, although
  `attemptReorg` judges a batch against a chain that may have changed since
  `handleBlocks` looked, and takes the earliest common ancestor.
- `CatchUp`: if nothing is mined, in the end neither node has a chain that is
  both shorter and lighter. The two-sided condition is needed: nodes
  compare only heights when they connect (`peer.go:757`) and ask from their own
  height on, so a shorter chain with more work is not fetched before it is also
  longer, whatever `whitepaper.md:195` says of cumulative work.

The properties of `pool`:

- `BooksBalance`: every balance is what was earned less what was recorded as
  paid, in memory, in every database a save marshalled, and in every file a
  start would load. Blocks credit workers between the copy of a balance and
  its debit.
- `CreditsBacked`: workers are never credited more than accepted blocks pay.
- `BlocksCredited`: until a kill, every recorded block that no handler is about
  to credit was credited in full up to rounding, although handlers, pruning and
  saves interleave.
- `PaidOnce`: nobody gets more than it earned, except by payments whose record
  a start did not find (those are sent again).
- `CleanStopSaves`: after a stop by signal the file holds what was in memory.

The properties of `peers`:

- `InboundBounded`: what is read is in the map, within the limit, and of
  different machines. The check and the entry are two steps; they hold because
  one goroutine accepts.
- `OutboundBounded`: the limit of outbound peers is overrun by one for each
  goroutine that dials at the same time, and by no more.
- `LostOnlyIfDialledTwice`: a connection that is read but missing from the map
  had its address dialled twice at a time.
- `OneSidedEnds`: an end that takes the handshake for complete, while the other
  does not, does not stay so, whichever connections the two drop.

Of `addr_book`:

- `SavedBansHold`: a ban that was saved is in force after a restart, except when
  the process ended within the write of `peers.dat`, the file was written twice
  at a time, or the shutdown came before it was read.
- `FindsPeers`: when nothing more is lost, the node has the peers it wants, or
  all that the seeds and its book give.

Of `relay`:

- `PenaltyHasCause`: an honest node is penalised only by one that has another
  payment of the same sender, lags behind, or got a block that confirmed too
  much. Repeated, late and crossing announcements cost nobody points.
- `PaymentsSpread`: again and again, every payment in a mempool has come to all
  the node's peers, except to one that has another payment of the sender.

Of `mining`:

- `StaleRoundHasCause`: a round searches a nonce for a lost parent only after it
  was cancelled, or after one of the paths that cancel nothing.
- `PendingMined`: while auto-mining is on, a pending payment is mined.
- `ConnectedIsUnmined`: a miner's block that connects confirms nothing again,
  although tip and payments were read apart. (The hash is read before the
  payments; the other order would break it.)
- `StaleTemplateEnds`: the miner gives up a template of a lower height.

Of `miner_pool`:

- `CreditsBounded`: workers are credited no more than the blocks brought, unless
  a share was counted while a reward was shared out. That exception is real:
  the total is read before the counts.
- `GivenCurrentJob`: a client with nothing under way mines the current job,
  except when work that `handleAuthorize` had read was sent after a later one.

Of `gossip`:

- `Recoverable`: a failed or interrupted update leaves the program or its copy,
  unless two updates ran into each other.
- `PeersUpdate`: a node that updates itself comes to run the version of each
  seed it is a peer of, unless its update failed (it tries again only after a
  restart).
- `NeverRevived`: what a node knows of another in the census never goes back.

The violation `SolvedIsAccepted` is a disagreement with `whitepaper.md` (9.3): the
pool in `cmd/dilithium-miner` builds the solved block a second time with its own
time (`pool.go:406-440`), so that the node refuses it unless the clock still
shows the second in which the worker began, and always below the height from
which blocks have a Merkle root.

### Bounds

`MaxHeight = 3` is the smallest at which a fork can replace two blocks, be
shorter than what it replaces, and be followed by another block; a halving falls
between heights 1 and 2. One worker is enough for a stale job (a job against
blocks of others). `t1` and the payment of `SYSTEM` have one signature, so that
either waits for or is cleared by the other; the offers have a heavy block with
`t1` (it outweighs three light ones, for reorganisations to shorter chains), a
light one with a payment that one reward does not cover with its fee, a light
one with the payment of `SYSTEM`, and one whose amount and fee of 32 wrap at
`Int64Limit = 64`; no sum of the others reaches it. The first two have a
coinbase with the signature of `t1`. Blocks found here lead to light ones
(`OwnStamp`). `ReorgSaveFails` happens once between two starts. In `ChainStore`,
one fork replaces everything by one block and one keeps a common first block, so
that the start index is both zero and positive.

In `Difficulty`, two legacy boundaries (2 and 4) lie below the fork height,
and the window is empty at height 5, half full at 6 and full at 7, the last
height whose difficulty is computed. The gaps are far too fast (the clock went
back), on pace, and beyond the clamp; the bits 2 to 6 around 4 let both
clamps be reached. Forks of two blocks can have more work than two blocks they
replace, and than one.

In `Sync`, the chains lengths 1, 3 and 5 with forks at 0 and 1 make a sync
need no reorganisation, one, and a second batch. `MaxBatch = 4` reaches past
any fork from where the search starts, `SearchBack = 3`, as 500 does from 100;
forks are within `SearchBack`, which `CatchUp` needs: `attemptReorg` repeats
the same request for a deeper one (`peer.go:1377`). A buffer of two messages
is full as soon as an announcement and a request wait. Two mined blocks are
the fewest that let a node outgrow its peer while it asks; one reconnection
shows that new flags start from any pair of chains.

In `Peers`, two connections are the fewest that duplicate each other, of one
direction or of both; limits and the ban's threshold of one are reached at once;
one of the nodes dials from two goroutines, knows the other by its IP and is known
by a name, under which a ban does not find its connections; the other dials itself
as well. One trouble is a ban or a lost machine. In `AddrBook`, a book for
one address fills with the first; three events are, for instance, a ban, a crash
and a lost peer. In `Relay`, a line of three lets a payment and its rival meet
in the middle; a buffer of two overflows with three payments; the funds cover
one of two rivals, and the successor is covered by the first payment only. One
block confirms any part of that, and one reconnection loses any message. Two
refused payments stand for ten. In `Mining`, two blocks let both tips move under
a round, one of them by a reorganisation. In `MinerPool`, two connections are
two clients at once or one that comes back. In `Updates`, two faults make one
update fail and interrupt another one, and the line seed, node, late seed makes
the node hear of both versions. In `Census`, three times let an announcement
become too old while another is fresh.

In `Pool`, a reward of 10 with a fee of 1 leaves 9, which two workers with a
share each cannot divide: rounding happens. A minimal payout of 5 lets a worker
with all shares be paid after one block and one with half of them after two.
`BlockBits = 5` and limits of 1 make the window two shares cut to one, so
that pruning drops a share. Two blocks and two shares let two handlers record,
credit and save at once; together with payouts, the autosaver and main,
saves overlap in every pair. One restart shows that any file is a start like
another. In `PoolDatabase`, two lengths let a shorter text be written over a
longer one, and a third database of the same length tells whose text it is.

### Deadlock and fairness

The runs that disable the deadlock check are those of systems that may stop:
nodes that agree and mine no more (`sync`, `relay`), a pool that was stopped or
cannot start with a database that does not parse (`pool`, `stores`), connections
that are used up (`peers`, `miner_pool`), and nodes that are down (`addr_book`,
`gossip`) or have mined all blocks (`mining`).

`Sync` assumes weak fairness of what a node's goroutines do: the reader handles
what the connection delivers and finishes its handler, and a goroutine started
with `go` runs. TCP delivers while the connection lasts. Mining and the loss of
the connection are not fair. In `Peers` the readers, writers and tickers go on,
in `AddrBook` the two loops and the timers, and a node that is down is started.
In `Mining` the goroutines run, a round that is not cancelled finds a nonce, and
the miner's requests are answered; its threads may search for ever. In `Updates`
tickers tick, messages arrive and goroutines run; faults and restarts are not
fair. In `Relay` the readers go on and blocks arrive (weak), and the ticker that
announces the mempool is strongly fair for each peer, because the model lets it
tick only when nothing is under way between the two.

## 4. What is only model-checked

Liveness: `SyncEnds` and `CatchUp` of `Sync`, `OneSidedEnds` of `Peers`,
`FindsPeers` of `AddrBook`, `PendingMined` and `StaleTemplateEnds` of `Mining`,
`PaymentsSpread` of `Relay`, `PeersUpdate` of `Updates`. Each needs fairness, and
with it `ENABLED`, which the prover does not reason about. Every invariant, action
property and refinement that a passing run checks is also a theorem.

What stays with TLC in the theorems' own modules is that the constants can be as
the assumptions say (each is evaluated in a run), and that the exceptions the
properties name are not all there is: a property's mutant breaks it in the run.

## 5. Where the code does not do what one expects

Each of these is in the models, and the properties above except it by name:

- **A negative balance.** `revalidateMempool` (`blockchain.go:1718`) keeps a
  payment whose cover a reorganisation took away, and a payment whose rival was
  confirmed elsewhere stays as well; the local miner confirms it without
  `ValidateBlockTransactions`. The sender's balance is negative on this node,
  the others refuse the block, and the honest miner gets 100 points for it.
- **Coins of nobody.** A transaction that names `SYSTEM` as its sender needs no
  signature, no minimum fee and no balance (`blockchain.go:356`, `374`, `1378`),
  and one that comes by `POST /transaction` or a `tx` message enters the
  mempool. The own miner confirms it (`blockchain.go:433`, `470`), and its
  recipient has the amount on this node, which `whitepaper.md:239` says comes
  "exclusively through coinbase transactions". Other nodes count two coinbases
  and refuse the block (`blockchain.go:1624`), so this node mines on a chain of
  its own until a heavier one replaces it.
- **Sums beyond int64.** `tx.Amount + tx.Fee` (`blockchain.go:386`, `1667`) wraps to
  a negative cost when both are 2^62, and any balance covers that: a valid block
  pays out what its sender never had. The fees and the reward wrap the same way in
  the coinbase.
- **A coinbase that clears a payment.** `clearMinedTransactions`
  (`blockchain.go:1697`) goes by signatures, also by that of the coinbase, which
  its miner chooses; the payment that waits under it is gone from this mempool,
  and is admitted again when somebody announces it.
- **Spellings of a signature.** Signatures are compared as text
  (`blockchain.go:364`, `369`, `1656`) and verified as bytes: a payment whose
  hexadecimal signature is written in another case is another payment to the index,
  and can be confirmed again. The models take a wallet's signature to have one
  text.
- **Mixed files.** `attemptReorg` rolls back the memory but not the files if
  `SaveChain` fails half way (`peer.go:1492`), although its comment promises that
  disk and memory stay in sync.
- **Difficulty of forks.** `attemptReorg` does not check that a fork's
  difficulties are the ones the adjustment requires (`peer.go:1453`).
- **Two bits at once.** `recalcLWMADifficulty` (`blockchain.go:1050`) stores the
  difficulty already adjusted for the next block where the last block's belongs,
  and the next read adjusts it again: a node that was restarted or reorganised
  above the fork height demands a block two bits away from the last one, against
  the comment at `blockchain.go:746`, until a block follows that all accept.
- **A sync that never ends.** An empty answer to `getheaders` leaves
  `syncInProgress` set (`peer.go:1105`); the node never syncs from that peer
  again on this connection.
- **Refused payouts are debited.** `processPayouts` records a failed payout with
  the function that debits the worker (`payout.go:198`); nothing sends it again.
- **Honest peers are penalised** for payments that the receiver cannot accept
  because of a rival or a missing block (`peer.go:1009`), which
  `whitepaper.md:325` reserves for protocol violations.
- **No handshake timeout.** `HandshakeTimeout` (`peer.go:62`) is not used.
- **Bans do not disconnect**, and the score starts anew with a new connection.
- **Updates.** Two announcements can start two updates of the same files at a
  time; each ends by the same `shutdownFn`, the second of which panics. An old
  announcement of a seed that lags clears the error of a failed update.
- **Panics on data** that a model of numbers does not have: `getSubnet` slices nine
  characters off a shorter IPv6 text (`peer.go:1731`), the miner's pool sixteen off a
  shorter hash (`cmd/dilithium-miner/pool.go:375`), `ValidateBlockTransactions` as
  many off a signature of a payment that was mined (`blockchain.go:1657`); and work
  summed in float64 (`network.go:17`) stops growing at 2^53.

## 6. Proofs

The theorems hold for every value of the constants that the named assumptions
of the modules allow: sets of nodes, addresses, payments, workers, sessions of any
size (finite where the code sums over a map), any limits, rewards, heights, and
forks of any depth. `PoolDatabase` and `Census` are instances (`D` in `Stores`, `C`
in `Gossip`), where their constants are assumed to be as they say. None of the
theorems is about a bound: the bounds of the modules are constants like others.

In `NodeProofs`:

- `TypeCorrect`: `TypeInv /\ TypeOK`. TLC's `TypeOK` is not
  inductive alone: `TypeInv` adds that the mempool is finite (the listings of
  `StartMining` need it) and that files hold blocks of their own height.
- `IndexCorrect`: `IndexExact`, inductive once the variables
  are empty while the process is down, and no two waiting transactions have the
  same signature.
- Properties of chains are carried in one way (`ChainsIn`): the chain in memory,
  every chain that files or a file's block describe, and every job's block
  appended to its base have them. The jobs' part is the argument why
  an unvalidated append is safe, the files' part carries it over a restart.
  - `NoTxTwiceCorrect`: all are free of repetitions (`OnceInv`). The tip is
    compared before the append, and a job built on this very chain listed only
    transactions that were not in it.
  - `SupplyCorrect`, `PeerSpendsCorrect`: all are `Sound` (`LedgerInv`), which is
    that each coinbase is its height's reward and its block's fees up to wrapping,
    that blocks of others hold no payment of `SYSTEM`, and that they leave their
    senders in no debt, but for the exceptions. From the first two follows
    (`TotalSupplied`) what a block adds to all that is owned, up to a multiple of
    2^64; balances differ from what is owned by such multiples (`Int64Range`), and
    so do their sums (`TotalWrapped`), which is why both sides of the property
    wrap to the same (`Int64Same`). For the third (`SendersCovered`), the check
    compares a wrapped balance with a cost that did not wrap: a balance that is not
    below the least int64 wraps to no more than it is (`Int64Low`), so the exact
    one covers the cost as well, payment after payment; what comes in by the
    block only adds, and the coinbase does not subtract.
- `CacheCorrect`: the cache's height never exceeds the chain's, and a
  reorganisation empties the cache (`CacheInv`).
- `WorkCorrect`: a step of the chain is an append or a heavier fork; from the
  lemmas on sums over concatenations in `SumsProofs`.
- `DiskCorrect`: files 1 to `Len(chain)` hold the chain's
  prefixes while nothing is torn (`DiskInv`), and `LoadChain` returns at least
  what is linked.

In `StoresProofs`, for `ChainStore`, the inductive invariant `StoreInv` says
where every block of interest is. `Certain`: a file that differs from its durable
form is the one just renamed, and not among the promised ones. `SaveOnDisk`,
`FloorOnDisk`: what the save has written, and what was promised, is in the
directory. `FloorGivesWay`: what a running save overwrites of the promise is
what it replaces. From it:

- `NeverTornCorrect`: every file that a loss of power can leave is one that was
  synced before it got its name (`AllSynced`).
- `PowerSafeCorrect`: the files up to the promise are durable, and `LoadChain`
  returns at least what is linked.
- `SafeStoreImplemented`: every step is a step of `SafeStore`, or none that it
  sees. The directory's fsync is the step that acknowledges a block; a rename
  changes what `LoadChain` returns only above the promise, or at a block that the
  running save has the right to replace.

For `PoolDatabase`, `DatabaseInv`: a call that has been alone has the temporary
file to itself (`AloneIs`), and a text that some call may rename is of a call that
runs, or does not parse (`TextOfCall`): the reason why `SafeDatabase` may say that
a save that was not alone leaves the text of one of the savers, or a broken one.
`SafeDatabaseImplemented` maps the steps one by one.

- `SavedBansHoldCorrect` (`AddrBook`): `BansInv`. A node that has read its file
  knows every ban that was saved; whoever writes the file writes them all and is
  alone; when nobody writes, the file has them.

In `DifficultyProofs`, for every period, window, target, clamp and fork
height that leaves a period and a window below the fork height:

- `SlowerNeverHarderHolds`, for any chain: by the order of clamps, quotients and
  products (`ClampOrder`, `SlowerTime`), weight by weight for the LWMA
  (`SlowerLWMA`, with `SumLE`), squares being ordered as what they are
  of (`SquareOrder`).
- `TypeCorrect`, and on it `SettledAgreesHolds`, `LegacyRecalcAgreesHolds`,
  `RecalcOneBitOffHolds` and `ReadStableHolds`. The invariant `IInv` has three
  parts that carry the argument. `LegacyFollowed`: the blocks below the fork
  height follow the rule, whence redoing the last boundary reproduces the
  tip's difficulty. `CacheInv` and `Ahead`: a cached adjustment is for the
  next block or one in the past. A reorganisation whose early return keeps the
  cache could break that only by making the chain shorter while the height is
  still below the first boundary; there all blocks have the genesis
  difficulty, so more work means more blocks (`EarlyWorkIsLength`). `InStep`:
  a settled node's `difficultyBits` is the last block's.

In `SyncProofs`, of `Sync` for any two nodes, chains, limits and buffer size, of
the others for any number of nodes:

- `TypeCorrect`, inductive as it stands.
- `FlagHasCauseCorrect`: inductive given the types. Each handler that takes a
  message of a sync off a queue sends the next one, clears the flag, hands the
  batch to the reader, or abandons the sync; `SendCause` and `ConsumedCause`
  say that sending loses no other sync's cause, and that a message is the
  cause of one node only.
- `WorkGrowsCorrect`: every new chain is an extension (`WorkAbove`) or heavier
  above a common prefix (`WorkHeavier`); the fork is the least element of a
  nonempty set of ancestors (`FirstAncestor`).
- `PenaltyHasCauseCorrect` (`Relay`): `AllSolvent`.
  Whatever is in a mempool or under way, its sender could pay for with all blocks
  known and nothing else spent. A node refuses a payment at a cost only if the
  balance it computes is below that, and this takes another payment of the sender
  or a block it lacks; the arithmetic is that of subset sums.
- `RecoverableCorrect` (`Updates`): `CopiesKept`. Of any number of updates at most
  one has put the program aside; while the program is missing, the copy is there,
  and a running process has an update that will install or put it back.
  An update that finds the copy another just made, and removes it, is
  what the history variable `overlapped` names.
- `NeverRevivedCorrect` (`Census`): `NewestKept`. The newest announcement that a
  node ever took of another is still kept, or is so old that no earlier one is
  taken any more. So it is enough that `handleNodeAnnounce` compares with what
  is kept; what was `seen` plays no part in it.

In `PoolProofs`, for any set of workers, rewards, fee and window limits:

- `TypeCorrect`, inductive as it stands; it rests on the arithmetic of
  `Distributable`, `Credit` and the window.
- `CleanStopCorrect`: `Quiet` is the argument. Once main saves, all goroutines
  are idle, so its call is alone and nobody changes the database under it.
- `BooksBalanceCorrect`: inductive together with `PayoutsCovered`. The payout
  list has each worker once, only the payout engine debits and credits only
  add, so a copied amount never exceeds the balance when it is debited and the
  cut at zero in `RecordPayout` never happens.
- `PaidOnceCorrect`: by `PaymentsRecorded`, what the node accepted is
  recorded, about to be recorded, or was forgotten by a start; the books then
  bound it by what was earned. `EngineWaits` keeps the engine from going on
  before its save returned.
- `CreditsBackedCorrect`: what was earned together with what accepted blocks are
  still to credit, `Owed` to the handlers, never exceeds `backed`; in every saved
  database, what was earned does not. Each worker's share is rounded down
  (`SharedOut`).
- `BlocksCreditedCorrect`: until a crash, what recorded blocks have not
  credited is what handlers are about to credit and less than one unit for each
  worker but one (`RewardsCredited`, `SharesRounded`). It needs that a block is
  never shared out over an empty window (`SharesKept`): the handler has recorded
  its own share, and pruning keeps the last one. After a crash a handler's block
  may be in the file and its credit lost, so the property must end there.

In `PeersProofs`, for any nodes, addresses, limits, dialling goroutines and
number of connections. The invariant `IInv` adds to the three properties what
carries them from one step of an operation to the next:

- `InboundBoundedCorrect`: between `HandleInbound`'s check and the entry in the
  map, the connection checked is its node's only one (`OneChecked`), there is
  room for it, and no accepted peer comes from its machine (`CheckedFits`).
  `InboundBounded` speaks of connections that are read; the invariant bounds
  the map's entries (`InboundFits`), and `LiveInboundTracked` relates the two.
- `OutboundBoundedCorrect`: the sum of outbound peers and dials under way is
  inductive as it stands: a dial that succeeds moves from one to the other.
- `LostOnlyIfDialledTwiceCorrect`: two connections of a node that are dialled
  or read and have the same address are both in `twice` (`PairsRecorded`). The
  entry that a reader deletes, or a new peer replaces, is its own or that of
  such a pair.

All other steps are of two kinds, each treated once: a reader, writer or
pinger that leaves the map as it is and at most ends a reader or a process
(`Quiet`), and a reader that deletes the entry of its key (`Deletes`).

In `MiningProofs`, for any blocks, payments, rounds, threads, clients, connections
and shares:

- `StaleRoundCorrect`: `OneRound`. `isMining` lets in one round at a time,
  and `miningCancel` is its channel as long as this is not closed, so a cancelled
  round is the one that mines.
- `ConnectedIsUnminedCorrect`: `Fresh`. A tip is never seen twice, hence a template
  on the tip was read after the chain last changed, and the payments after it.
- `CreditsBoundedCorrect` (`MinerPool`): as long as no share was counted while a
  reward was shared out, one session shares out at a time (`OneSharing`), and the
  shares of the workers are in the total that divides the reward (`Books`).
- `GivenCurrentJobCorrect` (`MinerPool`): of each session that was served (`Served`),
  the last work on the line, or else the client's job, is the current one
  (`AllTold`), although a client takes any line for the answer it awaits.

`SumsProofs` proves what the sums and powers satisfy: of sequences (concatenation,
order), and of functions on finite sets (`SumFunctionPlus`, `SumFunctionChange`,
`SumFunctionLE`, `SumFunctionScale`), which the community module defines by a fold
over a chosen order, and what rounding down leaves of a sum of shares. A
recursive function's defining equation is itself derived, by induction on the
strict inclusion of finite sets, which is well-founded, since theorems that take
an operator cannot be instantiated.

Out of the prover's reach, and left to TLC: liveness under fairness, and
anything about recursively defined operators.

## 7. Not modelled

Cryptography, encodings, the Merkle root and the data fork (pure functions of
a block's bytes), block size and transaction count limits, the rate limiter,
the preference for subnets in the address book, UPnP, the user interfaces, the
GPU kernels, and the display and node runner of the miner. The handlers of the
HTTP API that only read. `mempool.go` defines a type that nothing constructs.
`PROJECT.json` says of each component what is left.

Abstractions that span modules: blocks, payments and versions are small records
or numbers; wallets' signatures identify and are valid; clocks enter only where an action
names them. `Relay` is of payments of wallets whose sums fit int64; the others are in
`Node`. `MinerPool` loses a line only when the client has closed the connection: a
write that takes longer than its five seconds (`cmd/dilithium-miner/pool.go:240`,
`260`), whose error is ignored as well, would lose one on an open connection, and
`GivenCurrentJob` does not cover that. `Census` makes the check of an
announcement's age, which precedes the lock (`census.go:141`), in the step that
takes the lock. The modules meet where one takes for granted what another shows
(`Node` the store, `Pool` the saves, `Sync` that difficulties may disagree), and
are not composed further: their product is out of TLC's reach.

## 8. Plan

1. `Relay` over `Node`'s forks instead of one chain.
2. Arithmetic: rewards over the whole schedule, float work, the Merkle tree.
