-------------------------------- MODULE Sync --------------------------------
(***************************************************************************)
(* Two connected nodes that keep their chains in step: a mined block is    *)
(* announced; a node that lacks blocks asks for headers from its own       *)
(* height on, then for the blocks in batches; a batch that does not        *)
(* connect is a fork, whose common ancestor is looked for further back.    *)
(* Each node has one Peer object for the other, with a syncInProgress flag *)
(* that keeps it from starting a second sync.                              *)
(*                                                                         *)
(* As in Node, a block is the sequence of the blocks from the one after    *)
(* genesis to itself: it tells its ancestors, and its index is its length. *)
(* Heights in messages count genesis, as len(bc.Blocks) does.              *)
(*                                                                         *)
(* The goroutines of a node are the reader of the connection, which        *)
(* handles one message at a time and releases bc.mutex in between; the     *)
(* miner; and the syncs started with "go" after a reorganisation.  Queues  *)
(* are the send buffer and the TCP stream behind it: reliable and in order *)
(* until the connection is lost, except that a message that finds the      *)
(* buffer full is dropped and nobody is told.                              *)
(***************************************************************************)
EXTENDS Integers, Sequences, FiniteSetsExt, Sums

CONSTANTS
    Pair,          \* the two nodes
    Bits,          \* difficulties of blocks
    InitChains,    \* chains a node may have when the connection is made
    MaxHeaders,    \* headers in an answer (2000)
    MaxBatch,      \* blocks in an answer or a request for them (500)
    ScanBack,      \* own blocks compared with a fork (500)
    SearchBack,    \* how far back an ancestor is looked for (100)
    SearchAhead,   \* how far ahead that request goes (500)
    MayDisagree,   \* whether a node's difficulty may differ from the rule's (see Difficulty)
    BufferSize,    \* messages a connection holds in one direction
    MaxMined,      \* bound: blocks mined while connected
    MaxReconnects  \* bound: losses of the connection

ASSUME PairAssumption == \E a, b \in Pair : a # b /\ Pair = {a, b}
ASSUME ChainsAssumption == /\ Bits \subseteq Nat
                           /\ InitChains \subseteq Seq([miner : Pair, bits : Bits])
ASSUME LimitsAssumption == /\ MaxHeaders \in Nat \ {0}
                           /\ MaxBatch \in Nat \ {0}
                           /\ ScanBack \in Nat \ {0}
                           /\ SearchBack \in Nat
                           /\ SearchAhead \in Nat \ {0}
                           /\ MayDisagree \in BOOLEAN
                           /\ BufferSize \in Nat \ {0}
                           /\ MaxMined \in Nat
                           /\ MaxReconnects \in Nat

VARIABLES
    chain,       \* each node's bc.Blocks after genesis
    peerHeight,  \* peer.StartHeight: the other's height at the handshake
    syncing,     \* peer.syncInProgress
    net,         \* messages on their way to each node
    reader,      \* what its reader goroutine does between two critical sections
    spawned,     \* syncs started with "go" and not yet run
    abandoned,   \* history: a sync ended in a way that leaves the flag set
    mined, reconnects

vars == <<chain, peerHeight, syncing, net, reader, spawned, abandoned, mined, reconnects>>

Other(n) == CHOOSE m \in Pair : m # n

Block == [miner : Pair, bits : Bits]

\* A batch of blocks is the chain up to its last and the index of its first.
Message ==
         [type : {"verack"}]
    \cup [type : {"block"}, tip : Seq(Block)]
    \cup [type : {"getheaders"}, start : Nat]
    \cup [type : {"headers", "getblocks"}, start : Nat, stop : Nat]
    \cup [type : {"blocks"}, start : Nat, tip : Seq(Block)]

Idle == [at |-> "idle"]

ReaderState ==
    {Idle} \cup [at : {"start", "more"}] \cup [at : {"reorg"}, start : Nat, tip : Seq(Block)]

TypeOK ==
    /\ chain \in [Pair -> Seq(Block)]
    /\ peerHeight \in [Pair -> Nat]
    /\ syncing \in [Pair -> BOOLEAN]
    /\ net \in [Pair -> Seq(Message)]
    /\ \A n \in Pair : Len(net[n]) <= BufferSize
    /\ reader \in [Pair -> ReaderState]
    /\ spawned \in [Pair -> Nat]
    /\ abandoned \in [Pair -> BOOLEAN]
    /\ mined \in 0..MaxMined
    /\ reconnects \in 0..MaxReconnects
-----------------------------------------------------------------------------
Count(c) == Len(c) + 1

Least(a, b) == IF a < b THEN a ELSE b

Most(a, b) == IF a < b THEN b ELSE a

Prefix(c, i) == SubSeq(c, 1, i)

Work(c) == SumSeq([i \in DOMAIN c |-> Pow2(c[i].bits)])

\* The node whose sync message msg of n is part of.
Waiting(n, msg) == IF msg.type \in {"getheaders", "getblocks"} THEN n ELSE Other(n)

\* Peer.Send on queues q, ab being who was abandoned before: a full buffer
\* drops the message.
Send(n, msg, q, ab) ==
    IF Len(q[Other(n)]) < BufferSize
    THEN /\ net' = [q EXCEPT ![Other(n)] = Append(@, msg)]
         /\ abandoned' = ab
    ELSE /\ net' = q
         /\ abandoned' = [ab EXCEPT ![Waiting(n, msg)] = @ \/ msg.type # "block"]

\* The reader takes the next message off the stream.
Receives(n, type) ==
    /\ reader[n] = Idle
    /\ net[n] # <<>>
    /\ Head(net[n]).type = type

Consumed(n) == [net EXCEPT ![n] = Tail(@)]

\* Faulty: the sync ended, and the flag is still set.
SyncEndedFlagKept(n) == UNCHANGED <<syncing, abandoned>>

\* "Clear sync flag so next round can proceed".
SyncEnded(n) ==
    /\ syncing' = [syncing EXCEPT ![n] = FALSE]
    /\ abandoned' = [abandoned EXCEPT ![n] = FALSE]

NotAbandoned(n) == [abandoned EXCEPT ![n] = FALSE]

Active(n) == \A i \in DOMAIN net[n] : net[n][i].type # "verack"

Connected ==
    /\ peerHeight' = [n \in Pair |-> Count(chain[Other(n)])]
    /\ syncing' = [n \in Pair |-> FALSE]
    /\ net' = [n \in Pair |-> <<[type |-> "verack"]>>]
    /\ abandoned' = [n \in Pair |-> FALSE]

Init ==
    /\ chain \in [Pair -> InitChains]
    /\ peerHeight = [n \in Pair |-> Count(chain[Other(n)])]
    /\ syncing = [n \in Pair |-> FALSE]
    /\ net = [n \in Pair |-> <<[type |-> "verack"]>>]
    /\ reader = [n \in Pair |-> Idle]
    /\ spawned = [n \in Pair |-> 0]
    /\ abandoned = [n \in Pair |-> FALSE]
    /\ mined = 0
    /\ reconnects = 0
-----------------------------------------------------------------------------
(* Starting                                                                *)

\* Faulty: only once the flag is set does it see that there is nothing to ask.
StartSyncChecksLate(n) ==
    IF syncing[n]
    THEN UNCHANGED <<syncing, net, abandoned>>
    ELSE /\ syncing' = [syncing EXCEPT ![n] = TRUE]
         /\ IF Count(chain[n]) >= peerHeight[n]
            THEN net' = net /\ abandoned' = NotAbandoned(n)
            ELSE Send(n, [type |-> "getheaders", start |-> Count(chain[n])], net, NotAbandoned(n))

\* startIncrementalSync: at most one of n's syncs at a time sets out.
StartSync(n) ==
    IF syncing[n]
    THEN UNCHANGED <<syncing, net, abandoned>>
    ELSE /\ syncing' = [syncing EXCEPT ![n] = TRUE]
         /\ Send(n, [type |-> "getheaders", start |-> Count(chain[n])], net, NotAbandoned(n))

\* The end of handleVersionAck: the peer was ahead at the handshake.
HandleVersionAck(n) ==
    /\ Receives(n, "verack")
    /\ net' = Consumed(n)
    /\ reader' = [reader EXCEPT ![n] =
                    IF peerHeight[n] > Count(chain[n]) THEN [at |-> "start"] ELSE Idle]
    /\ UNCHANGED <<chain, peerHeight, syncing, spawned, abandoned, mined, reconnects>>

\* The reader's call of startIncrementalSync, the height being read only now.
ReaderStarts(n) ==
    /\ reader[n].at = "start"
    /\ StartSync(n)
    /\ reader' = [reader EXCEPT ![n] = Idle]
    /\ UNCHANGED <<chain, peerHeight, spawned, mined, reconnects>>

SpawnedStarts(n) ==
    /\ spawned[n] > 0
    /\ StartSync(n)
    /\ spawned' = [spawned EXCEPT ![n] = @ - 1]
    /\ UNCHANGED <<chain, peerHeight, reader, mined, reconnects>>

\* A block is found here, appended and announced to an active peer.
Mine(n, bits) ==
    LET new == Append(chain[n], [miner |-> n, bits |-> bits])
    IN /\ mined < MaxMined
       /\ mined' = mined + 1
       /\ chain' = [chain EXCEPT ![n] = new]
       /\ IF Active(n) THEN Send(n, [type |-> "block", tip |-> new], net, abandoned)
                       ELSE UNCHANGED <<net, abandoned>>
       /\ UNCHANGED <<peerHeight, syncing, reader, spawned, reconnects>>

\* handleBlock and AddBlock: an announced block that is not higher is ignored,
\* the next one is appended, and any other makes the node ask for a sync.
HandleBlock(n) ==
    /\ Receives(n, "block")
    /\ LET new == Head(net[n]).tip
           next == Len(new) = Count(chain[n]) /\ Prefix(new, Len(chain[n])) = chain[n]
       IN \/ /\ Len(new) <= Len(chain[n])
             /\ UNCHANGED <<chain, reader>>
          \/ /\ next
             /\ chain' = [chain EXCEPT ![n] = new]
             /\ UNCHANGED reader
          \/ /\ Len(new) > Len(chain[n])
             /\ next => MayDisagree
             /\ reader' = [reader EXCEPT ![n] = [at |-> "start"]]
             /\ UNCHANGED chain
    /\ net' = Consumed(n)
    /\ UNCHANGED <<peerHeight, syncing, spawned, abandoned, mined, reconnects>>
-----------------------------------------------------------------------------
(* Serving                                                                 *)

\* handleGetHeaders.  Of the headers only their range matters.
HandleGetHeaders(n) ==
    /\ Receives(n, "getheaders")
    /\ LET start == Head(net[n]).start
           stop == Least(Count(chain[n]), start + MaxHeaders)
       IN Send(n, [type |-> "headers", start |-> start, stop |-> stop], Consumed(n), abandoned)
    /\ UNCHANGED <<chain, peerHeight, syncing, reader, spawned, mined, reconnects>>

\* handleGetBlocks.  A range beyond the chain is answered with no blocks.
HandleGetBlocks(n) ==
    /\ Receives(n, "getblocks")
    /\ LET start == Head(net[n]).start
           stop == Least(Least(Head(net[n]).stop, Count(chain[n])), start + MaxBatch)
           tip == IF start < Count(chain[n]) THEN Prefix(chain[n], stop - 1) ELSE <<>>
       IN Send(n, [type |-> "blocks", start |-> start, tip |-> tip], Consumed(n), abandoned)
    /\ UNCHANGED <<chain, peerHeight, syncing, reader, spawned, mined, reconnects>>
-----------------------------------------------------------------------------
(* The answers                                                             *)

\* handleHeaders.  No headers, or none that follow on the own chain, end the
\* sync and leave the flag; headers of old blocks only end it and clear the flag.
HandleHeaders(n) ==
    /\ Receives(n, "headers")
    /\ LET start == Head(net[n]).start
           stop == Head(net[n]).stop
           ours == Count(chain[n])
           useful == start < stop /\ stop > ours
       IN \/ /\ start >= stop \/ (useful /\ start > ours)
             /\ net' = Consumed(n)
             /\ abandoned' = [abandoned EXCEPT ![n] = TRUE]
             /\ UNCHANGED syncing
          \/ /\ start < stop /\ stop <= ours
             /\ net' = Consumed(n)
             /\ SyncEnded(n)
          \/ /\ useful /\ start <= ours
             /\ Send(n, [type |-> "getblocks", start |-> ours, stop |-> Least(stop, ours + MaxBatch)],
                     Consumed(n), abandoned)
             /\ UNCHANGED syncing
    /\ UNCHANGED <<chain, peerHeight, reader, spawned, mined, reconnects>>

\* Faulty: what comes after a batch is never asked for.
MoreWantedNever(n, height) == FALSE

\* Whether the peer had more at the handshake than the given height.
MoreWanted(n, height) == height < peerHeight[n]

\* handleBlocks, no block or only ones that are not higher.
HandleOldBlocks(n) ==
    /\ Receives(n, "blocks")
    /\ LET m == Head(net[n])
       IN m.start > Len(m.tip) \/ Len(m.tip) <= Len(chain[n])
    /\ net' = Consumed(n)
    /\ SyncEnded(n)
    /\ UNCHANGED <<chain, peerHeight, reader, spawned, mined, reconnects>>

\* handleBlocks, the first critical section: the blocks that connect are
\* appended, up to one whose difficulty this node does not expect; that, or a
\* batch that does not connect, makes it attempt a reorganisation.
HandleBlocks(n) ==
    LET m == Head(net[n])
        connects == m.start <= Count(chain[n]) /\ Prefix(m.tip, Len(chain[n])) = chain[n]
    IN /\ Receives(n, "blocks")
       /\ m.start <= Len(m.tip) /\ Len(m.tip) > Len(chain[n])
       /\ net' = Consumed(n)
       /\ \/ /\ connects
             /\ chain' = [chain EXCEPT ![n] = m.tip]
             /\ SyncEnded(n)
             /\ reader' = [reader EXCEPT ![n] = [at |-> "more"]]
          \/ /\ connects /\ MayDisagree
             /\ \E last \in Len(chain[n])..(Len(m.tip) - 1) :
                   chain' = [chain EXCEPT ![n] = Prefix(m.tip, last)]
             /\ reader' = [reader EXCEPT ![n] = [at |-> "reorg", start |-> m.start, tip |-> m.tip]]
             /\ UNCHANGED <<syncing, abandoned>>
          \/ /\ ~connects
             /\ reader' = [reader EXCEPT ![n] = [at |-> "reorg", start |-> m.start, tip |-> m.tip]]
             /\ UNCHANGED <<chain, syncing, abandoned>>
       /\ UNCHANGED <<peerHeight, spawned, mined, reconnects>>

\* The end of handleBlocks, the height being read only now.
ReaderContinues(n) ==
    /\ reader[n].at = "more"
    /\ reader' = [reader EXCEPT ![n] =
                    IF MoreWanted(n, Count(chain[n])) THEN [at |-> "start"] ELSE Idle]
    /\ UNCHANGED <<chain, peerHeight, syncing, net, spawned, abandoned, mined, reconnects>>

\* The blocks of c that a block of the batch names as its parent.
Ancestors(c, start, tip) ==
    {i \in (Most(start, 1) - 1)..(Len(tip) - 1) :
        /\ i \in (Count(c) - ScanBack)..Len(c)
        /\ Prefix(tip, i) = Prefix(c, i)}

\* Faulty: the longer chain wins.
HeavierIfLonger(c, tip, fork) == Len(tip) > Len(c)

\* The batch, trimmed to the blocks above the fork, has more work than ours there.
Heavier(c, tip, fork) ==
    Work(SubSeq(tip, fork + 1, Len(tip))) > Work(SubSeq(c, fork + 1, Len(c)))

SearchFrom(c) == Most(0, Count(c) - SearchBack)

\* attemptReorg, on a chain that may have changed since handleBlocks looked.
AttemptReorg(n) ==
    LET start == reader[n].start
        tip == reader[n].tip
        ancestors == Ancestors(chain[n], start, tip)
    IN /\ reader[n].at = "reorg"
       /\ reader' = [reader EXCEPT ![n] = Idle]
       /\ \/ /\ ancestors = {}
             /\ syncing' = [syncing EXCEPT ![n] = FALSE]
             /\ Send(n, [type |-> "getblocks", start |-> SearchFrom(chain[n]),
                         stop |-> Count(chain[n]) + SearchAhead],
                     net, NotAbandoned(n))
             /\ UNCHANGED <<chain, spawned>>
          \/ /\ ancestors # {} /\ ~Heavier(chain[n], tip, Min(ancestors))
             /\ SyncEnded(n)
             /\ UNCHANGED <<chain, net, spawned>>
          \/ /\ ancestors # {} /\ Heavier(chain[n], tip, Min(ancestors))
             /\ chain' = [chain EXCEPT ![n] = tip]
             /\ spawned' = [spawned EXCEPT ![n] = IF MoreWanted(n, Count(tip)) THEN @ + 1 ELSE @]
             /\ SyncEnded(n)
             /\ UNCHANGED net
       /\ UNCHANGED <<peerHeight, mined, reconnects>>

\* The connection is lost and made again: new Peer objects, a new handshake.
\* What the old goroutines still do is ordered before the loss.
Reconnect ==
    /\ reconnects < MaxReconnects
    /\ reconnects' = reconnects + 1
    /\ \A n \in Pair : reader[n] = Idle /\ spawned[n] = 0
    /\ Connected
    /\ UNCHANGED <<chain, reader, spawned, mined>>

Receive(n) ==
    \/ HandleVersionAck(n)
    \/ HandleBlock(n)
    \/ HandleGetHeaders(n)
    \/ HandleGetBlocks(n)
    \/ HandleHeaders(n)
    \/ HandleOldBlocks(n)
    \/ HandleBlocks(n)

Next ==
    \/ \E n \in Pair :
          \/ Receive(n)
          \/ ReaderStarts(n)
          \/ ReaderContinues(n)
          \/ SpawnedStarts(n)
          \/ AttemptReorg(n)
          \/ \E bits \in Bits : Mine(n, bits)
    \/ Reconnect

\* A node's goroutines run, and TCP delivers while the connection lasts.
\* Mining and the loss of the connection are nobody's duty.
Fairness ==
    \A n \in Pair :
      /\ WF_vars(Receive(n))
      /\ WF_vars(ReaderStarts(n) \/ ReaderContinues(n) \/ AttemptReorg(n))
      /\ WF_vars(SpawnedStarts(n))

Spec == Init /\ [][Next]_vars /\ Fairness
-----------------------------------------------------------------------------
(* Properties                                                              *)

\* A message of a sync of n is on its way, or its reader is at work on one.
InFlight(n) ==
    \/ reader[n].at = "reorg"
    \/ \E i \in DOMAIN net[Other(n)] : net[Other(n)][i].type \in {"getheaders", "getblocks"}
    \/ \E i \in DOMAIN net[n] : net[n][i].type \in {"headers", "blocks"}

\* A set flag means that a sync is under way, whatever forks, announcements
\* and syncs of the other side come between: the only syncs that end with the
\* flag set are those handleHeaders gives up and those whose message was
\* dropped (abandoned).
FlagHasCause == \A n \in Pair : syncing[n] => abandoned[n] \/ InFlight(n)

\* Whatever batch arrives and whatever the chain became meanwhile, a node
\* changes its chain only for one with more work (handleBlocks, attemptReorg).
WorkGrows ==
    [][\A n \in Pair : chain'[n] # chain[n] => Work(chain'[n]) > Work(chain[n])]_vars

\* Every sync ends with the flag cleared or is abandoned: none goes on for ever
\* (handleHeaders, handleBlocks and attemptReorg clear it).
SyncEnds == \A n \in Pair : syncing[n] ~> (~syncing[n] \/ abandoned[n])

\* Two nodes that connect and mine nothing more end up with neither shorter
\* and lighter than the other, over as many batches as it takes, if their fork
\* is within SearchBack (startIncrementalSync, the continuation of handleBlocks
\* and attemptReorg, and the search for the ancestor).
CatchUp ==
    [](mined = 0) =>
      <>[](\A n \in Pair :
             Len(chain[n]) < Len(chain[Other(n)]) => Work(chain[n]) >= Work(chain[Other(n)]))
=============================================================================
