----------------------------- MODULE MinerPool ------------------------------
(***************************************************************************)
(* The pool built into dilithium-miner: a server that hands out the work of *)
(* its node over TCP, counts shares, submits the blocks its workers find   *)
(* and credits the reward, and the clients that mine for it and reconnect. *)
(* The stand-alone pool server is in Pool.                                 *)
(*                                                                         *)
(* The node's tip is a number, and the job with the work on top of it has  *)
(* the same number.  A session is one TCP connection: the server has a     *)
(* goroutine for each, which takes one line after the other.  An answer is *)
(* a line as well, and a client takes the next line for the answer to what *)
(* it asked.                                                               *)
(***************************************************************************)
EXTENDS Integers, Sequences, FiniteSets, Functions

CONSTANTS
    Clients,
    Sessions,      \* bound: connections that are ever made
    Distributable, \* the reward of a block without the pool's fee
    MaxTip,        \* bound: blocks, and so jobs
    MaxShares      \* bound: shares that are sent

ASSUME ConnectionsAssumption == /\ IsFiniteSet(Sessions) /\ Sessions \subseteq Nat \ {0}
                                /\ Distributable \in Nat /\ MaxTip \in Nat \ {0}
                                /\ MaxShares \in Nat

VARIABLES
    tip,       \* of the node's chain
    current,   \* p.currentWork
    announce,  \* workFetcher has yet to send it
    session,   \* what the server has made of a session
    handler,   \* what its goroutine does between two lines
    shares,    \* w.shares
    earnings,  \* w.earnings
    total,     \* p.totalShares
    found,     \* p.blocksFound
    toPool, toClient,
    client,    \* what a client does
    conn,      \* its session
    job,       \* the job it mines, and whether a block ended it
    sent,      \* shares sent so far
    raced,     \* history: a share was counted while a reward was being shared out
    overtaken  \* history: sessions that were sent a job after a later one

poolVars == <<current, announce, session, handler, shares, earnings, total, found>>
clientVars == <<client, conn, job, sent>>
lineVars == <<toPool, toClient>>
minerPoolVars == <<tip, poolVars, lineVars, clientVars, raced, overtaken>>

\* Numbers of tips and jobs; 0 is no work yet.
Jobs == 1..MaxTip

\* A share may be a whole block.
Share == [job : Jobs, block : BOOLEAN]

NoShare == [job |-> 0, block |-> FALSE]

\* Lines of either side.
Asks == [is : {"subscribe", "authorize", "submit"}, share : Share \cup {NoShare}]
Answers == [is : {"ok", "error", "difficulty", "notify", "stats"}, job : Jobs \cup {0}]

Ask(what) == [is |-> what, share |-> NoShare]
Submit(share) == [is |-> "submit", share |-> share]
Answer(what) == [is |-> what, job |-> 0]
MiningWork(n) == <<Answer("difficulty"), [is |-> "notify", job |-> n]>>

\* A goroutine waits for a line ("none"), or holds the work it is about to send,
\* a share, or the total of shares that the reward is divided by.
Handler == [does : {"none", "work", "check", "total", "submit", "refused", "pay",
                    "resetShares", "resetTotal"},
            share : Share \cup {NoShare}, n : Nat]

NotBusy == [does |-> "none", share |-> NoShare, n |-> 0]

MinerPoolTypeOK ==
    /\ tip \in Jobs
    /\ current \in Jobs \cup {0}
    /\ announce \in BOOLEAN
    /\ session \in [Sessions -> {"unused", "in", "authorized", "gone"}]
    /\ handler \in [Sessions -> Handler]
    /\ shares \in [Sessions -> Nat]
    /\ earnings \in [Sessions -> Nat]
    /\ total \in Nat
    /\ found \in Nat
    /\ toPool \in [Sessions -> Seq(Asks)]
    /\ toClient \in [Sessions -> Seq(Answers)]
    /\ client \in [Clients -> {"down", "subscribing", "authorizing", "working"}]
    /\ conn \in [Clients -> Sessions \cup {0}]
    /\ job \in [Clients -> Share \cup {NoShare}]
    /\ sent \in 0..MaxShares
    /\ raced \in BOOLEAN
    /\ overtaken \in SUBSET Sessions

MinerPoolInit ==
    /\ tip = 1
    /\ current = 0
    /\ announce = FALSE
    /\ session = [s \in Sessions |-> "unused"]
    /\ handler = [s \in Sessions |-> NotBusy]
    /\ shares = [s \in Sessions |-> 0]
    /\ earnings = [s \in Sessions |-> 0]
    /\ total = 0
    /\ found = 0
    /\ toPool = [s \in Sessions |-> <<>>]
    /\ toClient = [s \in Sessions |-> <<>>]
    /\ client = [c \in Clients |-> "down"]
    /\ conn = [c \in Clients |-> 0]
    /\ job = [c \in Clients |-> NoShare]
    /\ sent = 0
    /\ raced = FALSE
    /\ overtaken = {}
-----------------------------------------------------------------------------
(* The node                                                                *)

\* A block of someone else.
NodeAdvances ==
    /\ tip < MaxTip
    /\ tip' = tip + 1
    /\ UNCHANGED <<poolVars, lineVars, clientVars, raced, overtaken>>
-----------------------------------------------------------------------------
(* The server                                                              *)

Workers == {s \in Sessions : session[s] \in {"in", "authorized"}}

\* A line that is written when the client has closed the connection is lost.
\* (One whose write takes longer than its deadline is, too, and is left out here.)
Open(s) == \E c \in Clients : conn[c] = s

Says(s, lines) ==
    toClient' = IF Open(s) THEN [toClient EXCEPT ![s] = @ \o lines] ELSE toClient

\* workFetcher: a new job for every new height,
WorkFetcher ==
    /\ ~announce
    /\ current # tip
    /\ current' = tip
    /\ announce' = TRUE
    /\ UNCHANGED <<tip, session, handler, shares, earnings, total, found, lineVars,
                   clientVars, raced, overtaken>>

ToWorkers(lines) ==
    toClient' = [s \in Sessions |-> IF s \in Workers /\ Open(s) THEN toClient[s] \o lines
                                    ELSE toClient[s]]

\* which it sends to all workers while it holds p.mu.
SendMiningWork ==
    /\ announce
    /\ announce' = FALSE
    /\ ToWorkers(MiningWork(current))
    /\ UNCHANGED <<tip, current, session, handler, shares, earnings, total, found, toPool,
                   clientVars, raced, overtaken>>

\* Bound: when all has been read.
StatsPrinter ==
    /\ \A s \in Sessions : toClient[s] = <<>>
    /\ ToWorkers(<<Answer("stats")>>)
    /\ UNCHANGED <<tip, poolVars, toPool, clientVars, raced, overtaken>>

\* handleWorker, of the next line.
Takes(s) ==
    /\ session[s] \in {"in", "authorized"}
    /\ handler[s] = NotBusy
    /\ toPool[s] # <<>>
    /\ toPool' = [toPool EXCEPT ![s] = Tail(@)]

HandleSubscribe(s) ==
    /\ Takes(s)
    /\ Head(toPool[s]).is = "subscribe"
    /\ Says(s, <<Answer("ok")>>)
    /\ UNCHANGED <<tip, poolVars, clientVars, raced, overtaken>>

\* Faulty: the next job will do.
HandleAuthorizeNoWork(s) ==
    /\ Takes(s)
    /\ Head(toPool[s]).is = "authorize"
    /\ session' = [session EXCEPT ![s] = "authorized"]
    /\ Says(s, <<Answer("ok")>>)
    /\ UNCHANGED <<tip, current, announce, handler, shares, earnings, total, found,
                   clientVars, raced, overtaken>>

\* handleAuthorize answers and takes the current work,
HandleAuthorize(s) ==
    /\ Takes(s)
    /\ Head(toPool[s]).is = "authorize"
    /\ session' = [session EXCEPT ![s] = "authorized"]
    /\ Says(s, <<Answer("ok")>>)
    /\ handler' = IF current = 0 THEN handler
                  ELSE [handler EXCEPT ![s] = [NotBusy EXCEPT !.does = "work", !.n = current]]
    /\ UNCHANGED <<tip, current, announce, shares, earnings, total, found, clientVars,
                   raced, overtaken>>

\* and sends it, when a later one may have been sent.
SendAuthorizedWork(s) ==
    /\ handler[s].does = "work"
    /\ handler' = [handler EXCEPT ![s] = NotBusy]
    /\ Says(s, MiningWork(handler[s].n))
    /\ overtaken' = IF handler[s].n # current THEN overtaken \cup {s} ELSE overtaken
    /\ UNCHANGED <<tip, current, announce, session, shares, earnings, total, found,
                   toPool, clientVars, raced>>

\* handleSubmit: who is not authorized, or mines another job, is refused.
HandleSubmit(s) ==
    LET share == Head(toPool[s]).share
    IN /\ Takes(s)
       /\ Head(toPool[s]).is = "submit"
       /\ IF session[s] = "authorized" /\ current = share.job
          THEN /\ handler' = [handler EXCEPT ![s] = [NotBusy EXCEPT !.does = "check",
                                                                    !.share = share]]
               /\ UNCHANGED toClient
          ELSE Says(s, <<Answer("error")>>) /\ UNCHANGED handler
       /\ UNCHANGED <<tip, current, announce, session, shares, earnings, total, found,
                      clientVars, raced, overtaken>>

Does(s, what, n) ==
    handler' = [handler EXCEPT ![s] = [@ EXCEPT !.does = what, !.n = n]]

SharingOut == \E s \in Sessions : handler[s].does \in {"pay", "resetShares", "resetTotal"}

\* The share is added to the worker's,
CountShare(s) ==
    /\ handler[s].does = "check"
    /\ Does(s, "total", 0)
    /\ shares' = [shares EXCEPT ![s] = @ + 1]
    /\ raced' = (raced \/ SharingOut)
    /\ UNCHANGED <<tip, current, announce, session, earnings, total, found, lineVars,
                   clientVars, overtaken>>

\* Faulty: the share that is a block is left out of the total.
CountTotalNoBlock(s) ==
    /\ handler[s].does = "total"
    /\ IF handler[s].share.block THEN Does(s, "submit", 0)
       ELSE handler' = [handler EXCEPT ![s] = NotBusy]
    /\ total' = IF handler[s].share.block THEN total ELSE total + 1
    /\ Says(s, <<Answer("ok")>>)
    /\ raced' = (raced \/ SharingOut)
    /\ UNCHANGED <<tip, current, announce, session, shares, earnings, found, toPool,
                   clientVars, overtaken>>

\* and to the total.
CountTotal(s) ==
    /\ handler[s].does = "total"
    /\ IF handler[s].share.block THEN Does(s, "submit", 0)
       ELSE handler' = [handler EXCEPT ![s] = NotBusy]
    /\ total' = total + 1
    /\ Says(s, <<Answer("ok")>>)
    /\ raced' = (raced \/ SharingOut)
    /\ UNCHANGED <<tip, current, announce, session, shares, earnings, found, toPool,
                   clientVars, overtaken>>

\* handleBlockSolution builds the block anew, with the time of now: its hash is
\* the one that was found when that is the second in which the client began.
\* (From MerkleRootForkHeight on: both leave the root out of the hash, and below
\* it the coinbase is in the hash, which is never the same.)  distributeRewards
\* begins with the total.
HandleBlockSolution(s, sameSecond) ==
    /\ handler[s].does = "submit"
    /\ LET connects == handler[s].share.job = tip
           accepted == connects /\ sameSecond
       IN /\ connects => tip < MaxTip
          /\ tip' = IF accepted THEN tip + 1 ELSE tip
          /\ found' = IF accepted THEN found + 1 ELSE found
          /\ Does(s, CASE ~accepted -> "refused"
                       [] accepted /\ total > 0 -> "pay"
                       [] accepted /\ total = 0 -> "resetShares", total)
          /\ raced' = (raced \/ (accepted /\ \E v \in Sessions : handler[v].does = "total"))
    /\ UNCHANGED <<current, announce, session, shares, earnings, total, lineVars,
                   clientVars, overtaken>>

BlockRefused(s) ==
    /\ handler[s].does = "refused"
    /\ handler' = [handler EXCEPT ![s] = NotBusy]
    /\ UNCHANGED <<tip, current, announce, session, shares, earnings, total, found, lineVars,
                   clientVars, raced, overtaken>>

DistributeRewards(s) ==
    /\ handler[s].does = "pay"
    /\ earnings' = [w \in Sessions |->
           IF w \in Workers THEN earnings[w] + (Distributable * shares[w]) \div handler[s].n
           ELSE earnings[w]]
    /\ Does(s, "resetShares", 0)
    /\ UNCHANGED <<tip, current, announce, session, shares, total, found, lineVars,
                   clientVars, raced, overtaken>>

ResetShares(s) ==
    /\ handler[s].does = "resetShares"
    /\ shares' = [w \in Sessions |-> IF w \in Workers THEN 0 ELSE shares[w]]
    /\ Does(s, "resetTotal", 0)
    /\ UNCHANGED <<tip, current, announce, session, earnings, total, found, lineVars,
                   clientVars, raced, overtaken>>

ResetTotal(s) ==
    /\ handler[s].does = "resetTotal"
    /\ total' = 0
    /\ handler' = [handler EXCEPT ![s] = NotBusy]
    /\ UNCHANGED <<tip, current, announce, session, shares, earnings, found, lineVars,
                   clientVars, raced, overtaken>>

\* The client closed the connection, and all it had sent was read.
WorkerLeaves(s) ==
    /\ session[s] \in {"in", "authorized"}
    /\ handler[s] = NotBusy
    /\ toPool[s] = <<>>
    /\ ~Open(s)
    /\ session' = [session EXCEPT ![s] = "gone"]
    /\ UNCHANGED <<tip, current, announce, handler, shares, earnings, total, found, lineVars,
                   clientVars, raced, overtaken>>
-----------------------------------------------------------------------------
(* The client                                                              *)

\* connectAndWork, and listen at the server: the client subscribes.  Sessions
\* are numbered in the order in which they are made.
ConnectAndWork(c, s) ==
    /\ client[c] = "down"
    /\ \A t \in Sessions : (session[t] = "unused") <=> (t >= s)
    /\ client' = [client EXCEPT ![c] = "subscribing"]
    /\ conn' = [conn EXCEPT ![c] = s]
    /\ session' = [session EXCEPT ![s] = "in"]
    /\ toPool' = [toPool EXCEPT ![s] = <<Ask("subscribe")>>]
    /\ UNCHANGED <<tip, current, announce, handler, shares, earnings, total, found,
                   toClient, job, sent, raced, overtaken>>

Line(c) == Head(toClient[conn[c]])

Reads(c) ==
    /\ conn[c] # 0
    /\ toClient[conn[c]] # <<>>

HangUp(c) ==
    /\ client' = [client EXCEPT ![c] = "down"]
    /\ conn' = [conn EXCEPT ![c] = 0]
    /\ toClient' = [toClient EXCEPT ![conn[c]] = <<>>]

\* Any line without an error will do for an answer to the subscription,
Subscribed(c) ==
    /\ Reads(c)
    /\ client[c] = "subscribing"
    /\ IF Line(c).is = "error" THEN HangUp(c) /\ UNCHANGED toPool
       ELSE /\ client' = [client EXCEPT ![c] = "authorizing"]
            /\ toPool' = [toPool EXCEPT ![conn[c]] = Append(@, Ask("authorize"))]
            /\ toClient' = [toClient EXCEPT ![conn[c]] = Tail(@)]
            /\ UNCHANGED conn
    /\ UNCHANGED <<tip, poolVars, job, sent, raced, overtaken>>

\* and to the authorization.
Authorized(c) ==
    /\ Reads(c)
    /\ client[c] = "authorizing"
    /\ IF Line(c).is = "error" THEN HangUp(c)
       ELSE /\ client' = [client EXCEPT ![c] = "working"]
            /\ toClient' = [toClient EXCEPT ![conn[c]] = Tail(@)]
            /\ UNCHANGED conn
    /\ UNCHANGED <<tip, poolVars, toPool, job, sent, raced, overtaken>>

\* handleNotify cancels the old job.  Other lines change nothing.
HandleNotify(c) ==
    /\ Reads(c)
    /\ client[c] = "working"
    /\ toClient' = [toClient EXCEPT ![conn[c]] = Tail(@)]
    /\ job' = IF Line(c).is = "notify"
              THEN [job EXCEPT ![c] = [job |-> Line(c).job, block |-> FALSE]]
              ELSE job
    /\ UNCHANGED <<tip, poolVars, toPool, client, conn, sent, raced, overtaken>>

\* mineForPool finds a share, or a block, and submits it on whatever connection
\* there is.  After a block it stops.
SubmitWork(c, block) ==
    /\ job[c] # NoShare /\ ~job[c].block
    /\ conn[c] # 0
    /\ sent < MaxShares
    /\ sent' = sent + 1
    /\ job' = [job EXCEPT ![c].block = block]
    /\ toPool' = [toPool EXCEPT ![conn[c]] = Append(@, Submit(job'[c]))]
    /\ UNCHANGED <<tip, poolVars, toClient, client, conn, raced, overtaken>>

\* The connection breaks; the mining goes on.
ConnectionLost(c) ==
    /\ conn[c] # 0
    /\ \E s \in Sessions : session[s] = "unused"
    /\ HangUp(c)
    /\ UNCHANGED <<tip, poolVars, toPool, job, sent, raced, overtaken>>
-----------------------------------------------------------------------------
HandleWorker(s) ==
    \/ HandleSubscribe(s) \/ HandleAuthorize(s) \/ HandleSubmit(s)
    \/ SendAuthorizedWork(s) \/ CountShare(s) \/ CountTotal(s)
    \/ \E b \in BOOLEAN : HandleBlockSolution(s, b)
    \/ BlockRefused(s) \/ DistributeRewards(s) \/ ResetShares(s) \/ ResetTotal(s)
    \/ WorkerLeaves(s)

MinerPoolNext ==
    \/ NodeAdvances
    \/ WorkFetcher \/ SendMiningWork \/ StatsPrinter
    \/ \E s \in Sessions : HandleWorker(s)
    \/ \E c \in Clients : \/ \E s \in Sessions : ConnectAndWork(c, s)
                          \/ Subscribed(c) \/ Authorized(c) \/ HandleNotify(c)
                          \/ \E b \in BOOLEAN : SubmitWork(c, b)
                          \/ ConnectionLost(c)

MinerPoolSpec == MinerPoolInit /\ [][MinerPoolNext]_minerPoolVars
-----------------------------------------------------------------------------
(* Properties                                                              *)

\* The workers are credited no more than the blocks brought, unless a share was
\* counted while a reward was being shared out: the total and the workers'
\* counts are read, and reset, one after the other.
CreditsBounded ==
    ~raced => SumFunction(earnings) <= Distributable * found

\* When nothing is under way to it, a client that went through the handshake mines
\* the current job, or has mined it to a block: although it may have taken the job
\* for an answer.  Not so when the work that handleAuthorize had read was sent after
\* a later one.
GivenCurrentJob ==
    \A c \in Clients :
        LET s == conn[c]
        IN (/\ client[c] = "working" /\ ~announce
            /\ toClient[s] = <<>> /\ toPool[s] = <<>> /\ handler[s] = NotBusy)
           => s \in overtaken \/ job[c].job = current

\* "if a share also meets the full block difficulty, the pool submits it to the
\* network" (whitepaper.md, 9.3): a block that a worker finds for the tip is not
\* refused.
SolvedIsAccepted ==
    \A s \in Sessions : ~(handler[s].does = "refused" /\ handler[s].share.job = tip)
=============================================================================
