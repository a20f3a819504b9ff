-------------------------------- MODULE Pool --------------------------------
(***************************************************************************)
(* The mining pool (cmd/dilithium-pool): workers submit shares, a share    *)
(* that solves the block is sent to the node, an accepted block's reward   *)
(* is credited over the last shares (PPLNS), and credits are paid out.     *)
(* The database is one structure in memory, guarded by one lock and saved  *)
(* whole to one file; every step here is one critical section, one request *)
(* to the node, or one system call.                                        *)
(*                                                                         *)
(* The goroutines are a handler per worker, which also handles the block   *)
(* its share solves; the fetcher of work; the payout engine; the           *)
(* autosaver; and main, which saves once more when all others are done.    *)
(* Four of them call Database.Save, which holds no lock while it writes.   *)
(***************************************************************************)
EXTENDS Integers, Sequences, FiniteSets, Functions, Sums

CONSTANTS
    Workers,      \* payout addresses, each with one connection
    Rewards,      \* what a block may pay: template reward and fees
    FeePercent,   \* the operator's fee
    MinPayout,    \* smallest balance that is paid out
    BlockBits,    \* difficulty of a block
    MinWindow, MaxWindow,  \* limits of the share window (100 and 1000000)
    MaxHeight,    \* bound: blocks of the node's chain
    MaxShares,    \* bound: shares accepted
    MaxAutosaves, \* bound: calls of Save by the autosaver, before the first restart
    MaxRestarts   \* bound: starts after a stop or a crash

ASSUME WorkersAssumption == IsFiniteSet(Workers)
ASSUME RewardsAssumption == /\ Rewards \subseteq Nat
                            /\ FeePercent \in 0..100
                            /\ MinPayout \in Nat \ {0}
ASSUME WindowAssumption == /\ BlockBits \in Nat
                           /\ MinWindow \in Nat \ {0}
                           /\ MaxWindow \in Nat
                           /\ MinWindow <= MaxWindow
ASSUME BoundsAssumption == /\ MaxHeight \in Nat
                           /\ MaxShares \in Nat
                           /\ MaxAutosaves \in Nat
                           /\ MaxRestarts \in Nat
ASSUME SaversAssumption == {"payout", "autosave", "main"} \cap Workers = {}

VARIABLES
    mode,       \* "running", "closing" (main saves), "stopped", or "down"
    db,         \* PoolDatabase in memory
    work,       \* currentWork: no job or one
    handler,    \* what each worker's handler does about a block it solved
    payout,     \* where the payout engine is in processPayouts
    save,       \* the calls of Database.Save
    file,       \* the database file
    height,     \* the height of the node's chain
    backed,     \* history: what the blocks the node accepted allow to credit
    delivered,  \* history: payments the node accepted
    forgotten,  \* history: the part of them that a start did not load
    crashed,    \* history: the pool stopped in another way than by a saved shutdown
    submitted, autosaves, restarts

vars == <<mode, db, work, handler, payout, save, file, height, backed,
          delivered, forgotten, crashed, submitted, autosaves, restarts>>

history == <<backed, delivered, forgotten, crashed>>
bounds == <<submitted, autosaves, restarts>>

Savers == Workers \cup {"payout", "autosave", "main"}

Database ==
    [shares : Seq(Workers), blocks : Seq(Rewards),
     balance : [Workers -> Int], earned : [Workers -> Nat], paid : [Workers -> Nat]]

NewDatabase ==
    [shares |-> <<>>, blocks |-> <<>>,
     balance |-> [w \in Workers |-> 0],
     earned |-> [w \in Workers |-> 0],
     paid |-> [w \in Workers |-> 0]]

INSTANCE DatabaseSaves WITH Data <- Database

Job == [height : Nat, reward : Rewards]

HandlerState ==
    {Idle} \cup [pc : {"solved", "accepted", "recorded", "credited", "saving"}, job : Job]

Payee == [to : Workers, amount : Nat]
PayoutState ==
    {Idle} \cup [pc : {"paying", "saving"}, todo : SUBSET Payee]
           \cup [pc : {"answered"}, todo : SUBSET Payee, payee : Payee]

TypeOK ==
    /\ mode \in {"running", "closing", "stopped", "down"}
    /\ db \in Database
    /\ work \in SUBSET Job
    /\ handler \in [Workers -> HandlerState]
    /\ payout \in PayoutState
    /\ save \in [Savers -> Save]
    /\ file \in File
    /\ height \in 0..MaxHeight
    /\ backed \in Nat
    /\ delivered \in [Workers -> Nat]
    /\ forgotten \in [Workers -> Nat]
    /\ crashed \in BOOLEAN
    /\ submitted \in 0..MaxShares
    /\ autosaves \in 0..MaxAutosaves
    /\ restarts \in 0..MaxRestarts
-----------------------------------------------------------------------------
\* pplns.go

\* The number of shares kept after a block.
GetPPLNSWindowSize(blockBits, shareBits) ==
    IF shareBits = 0 \/ blockBits = 0 THEN MinWindow * 10
    ELSE IF blockBits <= shareBits THEN MinWindow
    ELSE LET window == 2 * Pow2(blockBits - shareBits)
         IN IF window < MinWindow THEN MinWindow
            ELSE IF window > MaxWindow THEN MaxWindow ELSE window

\* What is left of a reward after the operator's fee.
Distributable(reward) == reward - (reward * FeePercent) \div 100

SharesOf(d, w) == Cardinality({i \in DOMAIN d.shares : d.shares[i] = w})

\* A worker's part of a reward; what rounding leaves stays with the operator.
Credit(d, reward, w) ==
    IF d.shares = <<>> THEN 0
    ELSE (Distributable(reward) * SharesOf(d, w)) \div Len(d.shares)

DistributePPLNS(d, reward) ==
    [d EXCEPT !.balance = [w \in Workers |-> @[w] + Credit(d, reward, w)],
              !.earned = [w \in Workers |-> @[w] + Credit(d, reward, w)]]

\* Faulty: the shares are used up by a block.
PruneShareWindowToNone(d, size) == [d EXCEPT !.shares = <<>>]

PruneShareWindow(d, size) ==
    IF Len(d.shares) <= size THEN d
    ELSE [d EXCEPT !.shares = SubSeq(@, Len(@) - size + 1, Len(@))]
-----------------------------------------------------------------------------
\* database.go: the operations on the database

RecordShare(d, w) == [d EXCEPT !.shares = Append(@, w)]

RecordBlock(d, reward) == [d EXCEPT !.blocks = Append(@, reward)]

\* Faulty: nothing is left after a payout.
RecordPayoutClears(d, p) ==
    [d EXCEPT !.paid[p.to] = @ + p.amount, !.balance[p.to] = 0]

RecordPayout(d, p) ==
    [d EXCEPT !.paid[p.to] = @ + p.amount,
              !.balance[p.to] = IF @ < p.amount THEN 0 ELSE @ - p.amount]

GetWorkersForPayout(d) ==
    {[to |-> w, amount |-> d.balance[w]] : w \in {v \in Workers : d.balance[v] >= MinPayout}}
-----------------------------------------------------------------------------
Init ==
    /\ mode = "running"
    /\ db = NewDatabase
    /\ work = {}
    /\ handler = [w \in Workers |-> Idle]
    /\ payout = Idle
    /\ save = [s \in Savers |-> Idle]
    /\ file = NoFile
    /\ height = 0
    /\ backed = 0
    /\ delivered = [w \in Workers |-> 0]
    /\ forgotten = [w \in Workers |-> 0]
    /\ crashed = FALSE
    /\ submitted = 0
    /\ autosaves = 0
    /\ restarts = 0

\* The difficulty of a share, as workFetcher sets it.
ShareBits == IF BlockBits < 12 THEN 4 ELSE BlockBits - 8

\* One tick of workFetcher: a new job, unless the height is the last job's.
FetchWork(reward) ==
    /\ mode = "running"
    /\ \A job \in work : job.height # height
    /\ work' = {[height |-> height, reward |-> reward]}
    /\ UNCHANGED <<mode, db, handler, payout, save, file, height, history,
                   bounds>>

\* handleSubmit for the current job: a share, which may solve the block.
HandleSubmit(w, solves) ==
    /\ mode = "running"
    /\ handler[w] = Idle
    /\ submitted < MaxShares
    /\ submitted' = submitted + 1
    /\ \E job \in work :
          /\ db' = RecordShare(db, w)
          /\ handler' = [handler EXCEPT ![w] = IF solves THEN [pc |-> "solved", job |-> job] ELSE Idle]
    /\ UNCHANGED <<mode, work, payout, save, file, height, history, autosaves, restarts>>

\* The node's handleBlockSubmit.  The pool puts its own time into the block
\* it sends with the worker's hash; only if its clock shows the second in
\* which the worker began does the hash fit.
NodeAccepts(job, sameSecond) == sameSecond /\ job.height = height /\ height < MaxHeight

\* Faulty: goes on whatever the node answers.
SubmitBlockUnchecked(w, sameSecond, answered) ==
    /\ mode = "running"
    /\ handler[w].pc = "solved"
    /\ LET job == handler[w].job
           accepted == NodeAccepts(job, sameSecond)
       IN /\ height' = IF accepted THEN height + 1 ELSE height
          /\ backed' = IF accepted THEN backed + Distributable(job.reward) ELSE backed
          /\ handler' = [handler EXCEPT ![w] = [@ EXCEPT !.pc = "accepted"]]
    /\ UNCHANGED <<mode, db, work, payout, save, file, delivered, forgotten,
                   crashed, bounds>>

\* handleBlockSolution up to submitBlock's answer, which may be lost.
SubmitBlock(w, sameSecond, answered) ==
    /\ mode = "running"
    /\ handler[w].pc = "solved"
    /\ LET job == handler[w].job
           accepted == NodeAccepts(job, sameSecond)
       IN /\ height' = IF accepted THEN height + 1 ELSE height
          /\ backed' = IF accepted THEN backed + Distributable(job.reward) ELSE backed
          /\ handler' = [handler EXCEPT ![w] =
                IF accepted /\ answered THEN [@ EXCEPT !.pc = "accepted"] ELSE Idle]
    /\ UNCHANGED <<mode, db, work, payout, save, file, delivered, forgotten,
                   crashed, bounds>>

\* The rest of handleBlockSolution, each step in its own critical section.
AfterBlock(w, from, to, d) ==
    /\ mode = "running"
    /\ handler[w].pc = from
    /\ handler' = [handler EXCEPT ![w].pc = to]
    /\ db' = d
    /\ UNCHANGED <<mode, work, payout, save, file, height, history, bounds>>

RecordsBlock(w) == AfterBlock(w, "accepted", "recorded", RecordBlock(db, handler[w].job.reward))

CreditsBlock(w) == AfterBlock(w, "recorded", "credited", DistributePPLNS(db, handler[w].job.reward))

PrunesShares(w) ==
    AfterBlock(w, "credited", "saving", PruneShareWindow(db, GetPPLNSWindowSize(BlockBits, ShareBits)))
-----------------------------------------------------------------------------
\* payout.go

\* processPayouts works on copies of the workers.
StartPayouts ==
    /\ mode = "running"
    /\ payout = Idle
    /\ GetWorkersForPayout(db) # {}
    /\ payout' = [pc |-> "paying", todo |-> GetWorkersForPayout(db)]
    /\ UNCHANGED <<mode, db, work, handler, save, file, height, history, bounds>>

\* Faulty: without an answer the payment is sent again.
SendPayoutAgain(p, accepted) ==
    /\ mode = "running"
    /\ payout.pc = "paying"
    /\ p \in payout.todo
    /\ payout' \in {payout, [pc |-> "answered", todo |-> payout.todo \ {p}, payee |-> p]}
    /\ delivered' = IF accepted THEN [delivered EXCEPT ![p.to] = @ + p.amount] ELSE delivered
    /\ UNCHANGED <<mode, db, work, handler, save, file, height, backed, forgotten,
                   crashed, bounds>>

\* sendPayout's request: the node takes the payment or not, and its answer
\* comes back or not.
SendPayout(p, accepted) ==
    /\ mode = "running"
    /\ payout.pc = "paying"
    /\ p \in payout.todo
    /\ payout' = [pc |-> "answered", todo |-> payout.todo \ {p}, payee |-> p]
    /\ delivered' = IF accepted THEN [delivered EXCEPT ![p.to] = @ + p.amount] ELSE delivered
    /\ UNCHANGED <<mode, db, work, handler, save, file, height, backed, forgotten,
                   crashed, bounds>>

\* The payment is recorded as "sent" or as "failed", and debited either way.
RecordsPayout ==
    /\ mode = "running"
    /\ payout.pc = "answered"
    /\ db' = RecordPayout(db, payout.payee)
    /\ payout' = [pc |-> IF payout.todo = {} THEN "saving" ELSE "paying", todo |-> payout.todo]
    /\ UNCHANGED <<mode, work, handler, save, file, height, history, bounds>>
-----------------------------------------------------------------------------
\* Database.Save

\* Who may call Save: the autosaver at any time, the others where they do.
Calls(s) ==
    CASE s = "autosave" -> mode = "running" /\ autosaves < MaxAutosaves
      [] s = "payout"   -> payout.pc = "saving"
      [] s = "main"     -> mode = "closing"
      [] OTHER          -> handler[s].pc = "saving"

\* The database is marshalled under the read lock.
BeginSave(s) ==
    /\ Calls(s)
    /\ save[s] = Idle
    /\ save' = Begun(save, s, db)
    /\ autosaves' = IF s = "autosave" THEN autosaves + 1 ELSE autosaves
    /\ UNCHANGED <<mode, db, work, handler, payout, file, height, history, submitted, restarts>>

\* Saves that overlap write to one temporary file; see PoolDatabase.
SavesCollide ==
    /\ Overlap(save)
    /\ file' \in Disturbed(save, file) \ {file}
    /\ UNCHANGED <<mode, db, work, handler, payout, save, height, history, bounds>>

\* Save returns, and its caller goes on.  An error is only logged; that of an
\* overlapping call says nothing of the file.
EndSave(s, saved) ==
    /\ save[s] # Idle
    /\ save[s].alone \/ ~saved
    /\ file' \in Outcomes(save, s, saved, file)
    /\ save' = Ended(save, s)
    /\ handler' = IF s \in Workers THEN [handler EXCEPT ![s] = Idle] ELSE handler
    /\ payout' = IF s = "payout" THEN Idle ELSE payout
    /\ mode' = IF s # "main" THEN mode ELSE IF saved THEN "stopped" ELSE "down"
    /\ crashed' = (crashed \/ (s = "main" /\ ~saved))
    /\ UNCHANGED <<db, work, height, backed, delivered, forgotten, bounds>>
-----------------------------------------------------------------------------
\* main.go

\* Faulty: leaves the last save to the autosaver.
ShutdownUnsaved ==
    /\ mode = "running"
    /\ \A w \in Workers : handler[w] = Idle
    /\ payout = Idle
    /\ \A s \in Savers : save[s] = Idle
    /\ mode' = "stopped"
    /\ UNCHANGED <<db, work, handler, payout, save, file, height, history, bounds>>

\* After a signal main waits for every goroutine and saves.
Shutdown ==
    /\ mode = "running"
    /\ \A w \in Workers : handler[w] = Idle
    /\ payout = Idle
    /\ \A s \in Savers : save[s] = Idle
    /\ mode' = "closing"
    /\ UNCHANGED <<db, work, handler, payout, save, file, height, history, bounds>>

\* The process is killed.
Crash ==
    /\ mode \in {"running", "closing"}
    /\ mode' = "down"
    /\ db' = NewDatabase
    /\ work' = {}
    /\ handler' = [w \in Workers |-> Idle]
    /\ payout' = Idle
    /\ save' = [s \in Savers |-> Idle]
    /\ crashed' = TRUE
    /\ UNCHANGED <<file, height, backed, delivered, forgotten, bounds>>

\* NewDatabase: without a file an empty one, and no start with one that does
\* not parse.
Load == IF file = NoFile THEN NewDatabase ELSE file.data

Excess(n, m) == IF n > m THEN n - m ELSE 0

Restart ==
    /\ mode \in {"stopped", "down"}
    /\ file # Broken
    /\ restarts < MaxRestarts
    /\ restarts' = restarts + 1
    /\ autosaves' = MaxAutosaves
    /\ mode' = "running"
    /\ db' = Load
    /\ forgotten' = [w \in Workers |-> Excess(delivered[w], Load.paid[w])]
    /\ work' = {}
    /\ UNCHANGED <<handler, payout, save, file, height, backed, delivered, crashed,
                   submitted>>

\* The node's chain grows by another miner's block.
NodeAppends ==
    /\ height < MaxHeight
    /\ height' = height + 1
    /\ UNCHANGED <<mode, db, work, handler, payout, save, file, history, bounds>>

Next ==
    \/ \E r \in Rewards : FetchWork(r)
    \/ \E w \in Workers :
          \/ \E solves \in BOOLEAN : HandleSubmit(w, solves)
          \/ \E sameSecond, answered \in BOOLEAN : SubmitBlock(w, sameSecond, answered)
          \/ RecordsBlock(w)
          \/ CreditsBlock(w)
          \/ PrunesShares(w)
    \/ StartPayouts
    \/ payout.pc = "paying" /\ \E p \in payout.todo, accepted \in BOOLEAN : SendPayout(p, accepted)
    \/ RecordsPayout
    \/ \E s \in Savers : BeginSave(s) \/ \E saved \in BOOLEAN : EndSave(s, saved)
    \/ SavesCollide
    \/ Shutdown
    \/ Crash
    \/ Restart
    \/ NodeAppends

Spec == Init /\ [][Next]_vars
-----------------------------------------------------------------------------
\* A database whose balances are what was earned and not yet paid.
Balanced(d) == \A w \in Workers : d.balance[w] >= 0 /\ d.balance[w] = d.earned[w] - d.paid[w]

\* Every worker's balance is what it earned less what was recorded as paid, in
\* memory and in every database a save has marshalled or a start would load,
\* although a payout debits the copy of a balance that blocks go on crediting.
BooksBalance ==
    /\ Balanced(db)
    /\ \A s \in Savers : save[s] # Idle => Balanced(save[s].data)
    /\ file \notin {NoFile, Broken} => Balanced(file.data)

\* Workers are never credited more than the blocks the node accepted pay.
CreditsBacked == SumFunction(db.earned) <= backed

\* Until a start after a crash, every recorded block that no handler is about
\* to credit was credited in full, up to what rounding leaves.
BlocksCredited ==
    (~crashed /\ \A w \in Workers : handler[w].pc # "recorded")
    => LET due == SumSeq([i \in DOMAIN db.blocks |-> Distributable(db.blocks[i])])
       IN due - SumFunction(db.earned) <= Len(db.blocks) * (Cardinality(Workers) - 1)

\* No worker gets more than it earned, lost answers and retries included,
\* except for payments whose record a crash undid.
PaidOnce == mode # "down" => \A w \in Workers : delivered[w] <= db.earned[w] + forgotten[w]

\* After a stop by signal the file holds all there was in memory.
CleanStopSaves == mode = "stopped" => file = Whole(db)
=============================================================================
