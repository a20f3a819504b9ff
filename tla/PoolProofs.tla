----------------------------- MODULE PoolProofs -----------------------------
(***************************************************************************)
(* The pool's books, for every finite set of workers, every reward and     *)
(* fee: the types, that balances are what was earned less what was paid,   *)
(* that no worker is paid twice, that a stop by signal saves everything,   *)
(* that no more is credited than accepted blocks pay, and that recorded    *)
(* blocks are credited up to what rounding leaves.                         *)
(***************************************************************************)
EXTENDS Pool, SumsProofs

LEMMA DistributableNat ==
  ASSUME NEW r \in Rewards
  PROVE  Distributable(r) \in Nat
<1>1. r \in Nat /\ FeePercent \in 0..100
  BY RewardsAssumption
<1>2. r * FeePercent \in Nat /\ r * FeePercent <= r * 100
  <2>1. (r * (100 - FeePercent)) \in Nat
    BY <1>1
  <2>2. r * (100 - FeePercent) = r * 100 - r * FeePercent
    BY <1>1
  <2>3. r * FeePercent \in Nat /\ r * 100 \in Nat
    BY <1>1
  <2>. QED
    BY <2>1, <2>2, <2>3
<1>3. (r * FeePercent) \div 100 \in Nat /\ (r * FeePercent) \div 100 <= r
  <2>. DEFINE x == r * FeePercent
  <2>1. x \in Nat /\ x <= r * 100
    BY <1>2
  <2>. HIDE DEF x
  <2>2. x \div 100 \in Nat /\ x \div 100 <= r
    BY <2>1, <1>1, SMT
  <2>. QED
    BY <2>2 DEF x
<1>. QED
  BY <1>1, <1>3 DEF Distributable

LEMMA CreditNat ==
  ASSUME NEW d \in Database, NEW r \in Rewards, NEW w \in Workers
  PROVE  Credit(d, r, w) \in Nat
<1>1. d.shares \in Seq(Workers)
  BY DEF Database
<1>2. CASE d.shares = <<>>
  BY <1>2 DEF Credit
<1>3. CASE d.shares # <<>>
  <2>1. SharesOf(d, w) \in Nat
    <3>1. IsFiniteSet(DOMAIN d.shares)
      BY <1>1, FS_Interval
    <3>2. IsFiniteSet({i \in DOMAIN d.shares : d.shares[i] = w})
      BY <3>1, FS_Subset
    <3>. QED
      BY <3>2, FS_CardinalityType DEF SharesOf
  <2>2. Len(d.shares) \in Nat /\ Len(d.shares) > 0
    BY <1>1, <1>3
  <2>3. Distributable(r) * SharesOf(d, w) \in Nat
    BY <2>1, DistributableNat
  <2>4. (Distributable(r) * SharesOf(d, w)) \div Len(d.shares) \in Nat
    <3>. DEFINE x == Distributable(r) * SharesOf(d, w)
                n == Len(d.shares)
    <3>1. x \in Nat /\ n \in Nat /\ n > 0
      BY <2>2, <2>3
    <3>. HIDE DEF x, n
    <3>2. x \div n \in Nat
      BY <3>1, SMT
    <3>. QED
      BY <3>2 DEF x, n
  <2>. QED
    BY <2>4, <1>3 DEF Credit
<1>. QED
  BY <1>2, <1>3

\* The operations on the database keep its type.
LEMMA DistributeType ==
  ASSUME NEW d \in Database, NEW r \in Rewards
  PROVE  /\ DistributePPLNS(d, r) \in Database
         /\ DistributePPLNS(d, r).shares = d.shares
         /\ DistributePPLNS(d, r).blocks = d.blocks
         /\ DistributePPLNS(d, r).paid = d.paid
         /\ \A w \in Workers :
              /\ DistributePPLNS(d, r).balance[w] = d.balance[w] + Credit(d, r, w)
              /\ DistributePPLNS(d, r).earned[w] = d.earned[w] + Credit(d, r, w)
<1>. DEFINE c == [w \in Workers |-> Credit(d, r, w)]
            bal == [w \in Workers |-> d.balance[w] + c[w]]
            ear == [w \in Workers |-> d.earned[w] + c[w]]
<1>1. c \in [Workers -> Nat]
  BY CreditNat
<1>2. DistributePPLNS(d, r) = [d EXCEPT !.balance = bal, !.earned = ear]
  BY Zenon DEF DistributePPLNS, Database
<1>. HIDE DEF c
<1>3. bal \in [Workers -> Int] /\ ear \in [Workers -> Nat]
  BY <1>1 DEF Database
<1>. HIDE DEF bal, ear
<1>4. /\ [d EXCEPT !.balance = bal, !.earned = ear] \in Database
      /\ [d EXCEPT !.balance = bal, !.earned = ear].shares = d.shares
      /\ [d EXCEPT !.balance = bal, !.earned = ear].blocks = d.blocks
      /\ [d EXCEPT !.balance = bal, !.earned = ear].paid = d.paid
      /\ [d EXCEPT !.balance = bal, !.earned = ear].balance = bal
      /\ [d EXCEPT !.balance = bal, !.earned = ear].earned = ear
  BY <1>3 DEF Database
<1>. QED
  BY <1>2, <1>4 DEF bal, ear, c

LEMMA PruneType ==
  ASSUME NEW d \in Database, NEW size \in Nat
  PROVE  /\ PruneShareWindow(d, size) \in Database
         /\ PruneShareWindow(d, size).blocks = d.blocks
         /\ PruneShareWindow(d, size).balance = d.balance
         /\ PruneShareWindow(d, size).earned = d.earned
         /\ PruneShareWindow(d, size).paid = d.paid
<1>1. CASE Len(d.shares) <= size
  BY <1>1 DEF PruneShareWindow
<1>2. CASE ~(Len(d.shares) <= size)
  <2>. DEFINE s == SubSeq(d.shares, Len(d.shares) - size + 1, Len(d.shares))
  <2>1. s \in Seq(Workers)
    <3>1. d.shares \in Seq(Workers) /\ Len(d.shares) \in Nat
      BY DEF Database
    <3>2. /\ Len(d.shares) - size + 1 \in 1..(Len(d.shares) + 1)
          /\ Len(d.shares) \in (Len(d.shares) - size + 1 - 1)..Len(d.shares)
      BY <3>1, <1>2
    <3>. QED
      BY <3>1, <3>2, SubSeqProperties
  <2>2. PruneShareWindow(d, size) = [d EXCEPT !.shares = s]
    BY <1>2 DEF PruneShareWindow, Database
  <2>. HIDE DEF s
  <2>. QED
    BY <2>1, <2>2 DEF Database
<1>. QED
  BY <1>1, <1>2

LEMMA WindowSizeNat == GetPPLNSWindowSize(BlockBits, ShareBits) \in Nat
<1>1. BlockBits \in Nat /\ ShareBits \in Nat /\ MinWindow \in Nat /\ MaxWindow \in Nat
  BY WindowAssumption DEF ShareBits
<1>2. CASE ShareBits = 0 \/ BlockBits = 0 \/ BlockBits <= ShareBits
  BY <1>1, <1>2 DEF GetPPLNSWindowSize
<1>3. CASE ~(ShareBits = 0 \/ BlockBits = 0 \/ BlockBits <= ShareBits)
  <2>1. BlockBits - ShareBits \in Nat
    BY <1>1, <1>3
  <2>2. Pow2(BlockBits - ShareBits) \in Nat
    BY <2>1, Pow2Positive
  <2>. QED
    BY <1>1, <1>3, <2>2 DEF GetPPLNSWindowSize
<1>. QED
  BY <1>2, <1>3

LEMMA RecordTypes ==
  ASSUME NEW d \in Database
  PROVE  /\ \A w \in Workers :
              /\ RecordShare(d, w) \in Database
              /\ RecordShare(d, w).balance = d.balance
              /\ RecordShare(d, w).earned = d.earned
              /\ RecordShare(d, w).paid = d.paid
         /\ \A r \in Rewards :
              /\ RecordBlock(d, r) \in Database
              /\ RecordBlock(d, r).balance = d.balance
              /\ RecordBlock(d, r).earned = d.earned
              /\ RecordBlock(d, r).paid = d.paid
<1>1. ASSUME NEW w \in Workers
      PROVE  /\ RecordShare(d, w) \in Database
             /\ RecordShare(d, w).balance = d.balance
             /\ RecordShare(d, w).earned = d.earned
             /\ RecordShare(d, w).paid = d.paid
  <2>1. Append(d.shares, w) \in Seq(Workers)
    BY DEF Database
  <2>2. RecordShare(d, w) = [d EXCEPT !.shares = Append(d.shares, w)]
    BY Zenon DEF RecordShare
  <2>. QED
    BY <2>1, <2>2 DEF Database
<1>2. ASSUME NEW r \in Rewards
      PROVE  /\ RecordBlock(d, r) \in Database
             /\ RecordBlock(d, r).balance = d.balance
             /\ RecordBlock(d, r).earned = d.earned
             /\ RecordBlock(d, r).paid = d.paid
  <2>1. Append(d.blocks, r) \in Seq(Rewards)
    BY DEF Database
  <2>2. RecordBlock(d, r) = [d EXCEPT !.blocks = Append(d.blocks, r)]
    BY Zenon DEF RecordBlock
  <2>. QED
    BY <2>1, <2>2 DEF Database
<1>. QED
  BY <1>1, <1>2

LEMMA RecordPayoutType ==
  ASSUME NEW d \in Database, NEW p \in Payee
  PROVE  /\ RecordPayout(d, p) \in Database
         /\ RecordPayout(d, p).earned = d.earned
         /\ \A w \in Workers :
              /\ RecordPayout(d, p).paid[w] =
                   IF w = p.to THEN d.paid[w] + p.amount ELSE d.paid[w]
              /\ RecordPayout(d, p).balance[w] =
                   IF w # p.to THEN d.balance[w]
                   ELSE IF d.balance[w] < p.amount THEN 0 ELSE d.balance[w] - p.amount
<1>. DEFINE left == IF d.balance[p.to] < p.amount THEN 0 ELSE d.balance[p.to] - p.amount
            bal == [d.balance EXCEPT ![p.to] = left]
            paid == [d.paid EXCEPT ![p.to] = d.paid[p.to] + p.amount]
<1>1. p.to \in Workers /\ p.amount \in Nat
  BY DEF Payee
<1>2. RecordPayout(d, p) = [d EXCEPT !.paid = paid, !.balance = bal]
  BY DEF RecordPayout, Database
<1>3. bal \in [Workers -> Int] /\ paid \in [Workers -> Nat]
  BY <1>1 DEF Database
<1>4. \A w \in Workers :
         /\ paid[w] = IF w = p.to THEN d.paid[w] + p.amount ELSE d.paid[w]
         /\ bal[w] = IF w # p.to THEN d.balance[w] ELSE left
  BY <1>1 DEF Database
<1>. HIDE DEF bal, paid
<1>5. /\ [d EXCEPT !.paid = paid, !.balance = bal] \in Database
      /\ [d EXCEPT !.paid = paid, !.balance = bal].earned = d.earned
      /\ [d EXCEPT !.paid = paid, !.balance = bal].paid = paid
      /\ [d EXCEPT !.paid = paid, !.balance = bal].balance = bal
  BY <1>3 DEF Database
<1>. QED
  BY <1>2, <1>4, <1>5

LEMMA NewDatabaseType == NewDatabase \in Database
<1>1. <<>> \in Seq(Workers) /\ <<>> \in Seq(Rewards)
  OBVIOUS
<1>2. [w \in Workers |-> 0] \in [Workers -> Int] /\ [w \in Workers |-> 0] \in [Workers -> Nat]
  OBVIOUS
<1>. QED
  BY <1>1, <1>2 DEF NewDatabase, Database

\* Who is paid: at most one entry for a worker, never more than its balance.
LEMMA PayeesType ==
  ASSUME NEW d \in Database
  PROVE  /\ GetWorkersForPayout(d) \subseteq Payee
         /\ \A p \in GetWorkersForPayout(d) : p.amount <= d.balance[p.to]
         /\ \A p, q \in GetWorkersForPayout(d) : p.to = q.to => p = q
<1>1. ASSUME NEW p \in GetWorkersForPayout(d)
      PROVE  /\ p.to \in Workers
             /\ p = [to |-> p.to, amount |-> d.balance[p.to]]
             /\ d.balance[p.to] \in Nat
  <2>1. PICK w \in Workers : d.balance[w] >= MinPayout /\ p = [to |-> w, amount |-> d.balance[w]]
    BY DEF GetWorkersForPayout
  <2>2. d.balance[w] \in Int /\ MinPayout \in Nat
    BY RewardsAssumption DEF Database
  <2>. QED
    BY <2>1, <2>2
<1>. QED
  BY <1>1 DEF Payee

\* What a save returns and what others see of it.
LEMMA SaveTypes ==
  ASSUME NEW calls \in [Savers -> Save], NEW s \in Savers, NEW d \in Database, NEW f \in File
  PROVE  /\ Begun(calls, s, d) \in [Savers -> Save]
         /\ Ended(calls, s) \in [Savers -> Save]
         /\ Disturbed(calls, f) \subseteq File
         /\ \A saved \in BOOLEAN : calls[s] # Idle => Outcomes(calls, s, saved, f) \subseteq File
<1>1. \A t \in Savers : calls[t] # Idle =>
         /\ calls[t].pc = "saving" /\ calls[t].data \in Database /\ calls[t].alone \in BOOLEAN
         /\ calls[t] = [pc |-> "saving", data |-> calls[t].data, alone |-> calls[t].alone]
  BY DEF Save, Idle
<1>2. Begun(calls, s, d) \in [Savers -> Save]
  <2>1. \A t \in Savers : calls[t] # Idle => Saving(calls[t].data, FALSE) \in Save
    BY <1>1 DEF Save, Saving
  <2>2. \A b \in BOOLEAN : Saving(d, b) \in Save
    BY DEF Save, Saving
  <2>. QED
    BY <2>1, <2>2 DEF Begun, Save
<1>3. Ended(calls, s) \in [Savers -> Save]
  BY DEF Ended, Save
<1>4. Disturbed(calls, f) \subseteq File
  BY <1>1 DEF Disturbed, File, Whole
<1>5. \A saved \in BOOLEAN : calls[s] # Idle => Outcomes(calls, s, saved, f) \subseteq File
  BY <1>1, <1>4 DEF Outcomes, File, Whole
<1>. QED
  BY <1>2, <1>3, <1>4, <1>5

LEMMA LoadType ==
  ASSUME file \in File, file # Broken
  PROVE  /\ Load \in Database
         /\ file # NoFile => file = Whole(Load)
<1>1. CASE file = NoFile
  BY <1>1, NewDatabaseType DEF Load
<1>2. CASE file # NoFile
  BY <1>2 DEF Load, File, Whole, Broken, NoFile
<1>. QED
  BY <1>1, <1>2
-----------------------------------------------------------------------------
\* The record fields of the program counters.
LEMMA HandlerFields ==
  ASSUME handler \in [Workers -> HandlerState], NEW w \in Workers
  PROVE  /\ handler[w] = Idle <=> handler[w].pc = "idle"
         /\ handler[w] # Idle =>
              /\ handler[w].job \in Job
              /\ \A pc \in {"solved", "accepted", "recorded", "credited", "saving"} :
                    [handler[w] EXCEPT !.pc = pc] \in HandlerState
<1>1. CASE handler[w] = Idle
  BY <1>1 DEF Idle
<1>2. CASE handler[w] # Idle
  BY <1>2 DEF HandlerState, Idle
<1>. QED
  BY <1>1, <1>2

LEMMA PayoutFields ==
  ASSUME payout \in PayoutState
  PROVE  /\ payout = Idle <=> payout.pc = "idle"
         /\ payout # Idle => payout.todo \subseteq Payee
         /\ payout.pc = "answered" => payout.payee \in Payee
BY DEF PayoutState, Idle

LEMMA TypeInit ==
  Init => TypeOK
<1>. SUFFICES ASSUME Init PROVE TypeOK
  OBVIOUS
<1>1. db \in Database
  BY NewDatabaseType DEF Init
<1>2. handler \in [Workers -> HandlerState] /\ payout \in PayoutState /\ save \in [Savers -> Save]
      /\ file \in File
  BY DEF Init, HandlerState, PayoutState, Save, File
<1>3. work \in SUBSET Job /\ backed \in Nat /\ crashed \in BOOLEAN
      /\ delivered \in [Workers -> Nat] /\ forgotten \in [Workers -> Nat]
  BY DEF Init
<1>4. height \in 0..MaxHeight /\ submitted \in 0..MaxShares /\ autosaves \in 0..MaxAutosaves
      /\ restarts \in 0..MaxRestarts
  BY BoundsAssumption DEF Init
<1>. QED
  BY <1>1, <1>2, <1>3, <1>4 DEF Init, TypeOK

LEMMA TypeNext ==
  TypeOK /\ [Next]_vars => TypeOK'
<1>. SUFFICES ASSUME TypeOK, [Next]_vars PROVE TypeOK'
  OBVIOUS
<1>0. /\ handler \in [Workers -> HandlerState] /\ payout \in PayoutState
      /\ save \in [Savers -> Save] /\ file \in File /\ db \in Database
      /\ work \subseteq Job
  BY DEF TypeOK
<1>1. ASSUME NEW r \in Rewards, FetchWork(r) PROVE TypeOK'
  <2>1. [height |-> height, reward |-> r] \in Job
    BY <1>1 DEF TypeOK, Job
  <2>. QED
    BY <1>1, <2>1 DEF FetchWork, TypeOK, history, bounds
<1>2. ASSUME NEW w \in Workers, NEW solves \in BOOLEAN, HandleSubmit(w, solves) PROVE TypeOK'
  <2>1. PICK job \in work :
           /\ db' = RecordShare(db, w)
           /\ handler' = [handler EXCEPT ![w] = IF solves THEN [pc |-> "solved", job |-> job] ELSE Idle]
    BY <1>2 DEF HandleSubmit
  <2>2. db' \in Database
    BY <1>0, <2>1, RecordTypes
  <2>3. (IF solves THEN [pc |-> "solved", job |-> job] ELSE Idle) \in HandlerState
    BY <1>0 DEF HandlerState
  <2>4. handler' \in [Workers -> HandlerState]
    BY <1>0, <2>1, <2>3
  <2>5. submitted' \in 0..MaxShares
    BY <1>2, BoundsAssumption DEF HandleSubmit, TypeOK
  <2>. QED
    BY <1>2, <2>2, <2>4, <2>5 DEF HandleSubmit, TypeOK, history
<1>3. ASSUME NEW w \in Workers, NEW sameSecond \in BOOLEAN, NEW answered \in BOOLEAN,
             SubmitBlock(w, sameSecond, answered)
      PROVE  TypeOK'
  <2>. DEFINE job == handler[w].job
              accepted == NodeAccepts(job, sameSecond)
  <2>1. job \in Job /\ [handler[w] EXCEPT !.pc = "accepted"] \in HandlerState
    BY <1>0, <1>3, HandlerFields DEF SubmitBlock
  <2>2. height' \in 0..MaxHeight
    BY <1>3, BoundsAssumption DEF SubmitBlock, NodeAccepts, TypeOK
  <2>3. backed' \in Nat
    <3>1. Distributable(job.reward) \in Nat
      BY <2>1, DistributableNat DEF Job
    <3>. QED
      BY <1>3, <3>1 DEF SubmitBlock, TypeOK
  <2>4. handler' \in [Workers -> HandlerState]
    <3>1. Idle \in HandlerState
      BY DEF HandlerState
    <3>2. handler' = [handler EXCEPT ![w] =
             IF accepted /\ answered THEN [handler[w] EXCEPT !.pc = "accepted"] ELSE Idle]
      BY <1>0, <1>3, Zenon DEF SubmitBlock
    <3>. QED
      BY <1>0, <2>1, <3>1, <3>2
  <2>. QED
    BY <1>3, <2>2, <2>3, <2>4 DEF SubmitBlock, TypeOK, bounds
<1>4. ASSUME NEW w \in Workers, NEW from,
             NEW to \in {"recorded", "credited", "saving"}, NEW d \in Database,
             from # "idle", AfterBlock(w, from, to, d)
      PROVE  TypeOK'
  <2>1. [handler[w] EXCEPT !.pc = to] \in HandlerState
    BY <1>0, <1>4, HandlerFields DEF AfterBlock
  <2>2. handler' = [handler EXCEPT ![w] = [handler[w] EXCEPT !.pc = to]]
    BY <1>0, <1>4 DEF AfterBlock
  <2>3. handler' \in [Workers -> HandlerState]
    BY <1>0, <2>1, <2>2
  <2>. QED
    BY <1>4, <2>3 DEF AfterBlock, TypeOK, history, bounds
<1>5. ASSUME NEW w \in Workers, RecordsBlock(w) \/ CreditsBlock(w) \/ PrunesShares(w)
      PROVE  TypeOK'
  <2>1. CASE RecordsBlock(w)
    <3>1. handler[w].job.reward \in Rewards
      BY <1>0, <2>1, HandlerFields DEF RecordsBlock, AfterBlock, Job
    <3>. QED
      BY <1>0, <1>4, <2>1, <3>1, RecordTypes DEF RecordsBlock
  <2>2. CASE CreditsBlock(w)
    <3>1. handler[w].job.reward \in Rewards
      BY <1>0, <2>2, HandlerFields DEF CreditsBlock, AfterBlock, Job
    <3>. QED
      BY <1>0, <1>4, <2>2, <3>1, DistributeType DEF CreditsBlock
  <2>3. CASE PrunesShares(w)
    BY <1>0, <1>4, <2>3, PruneType, WindowSizeNat DEF PrunesShares
  <2>. QED
    BY <1>5, <2>1, <2>2, <2>3
<1>6. CASE StartPayouts
  <2>1. [pc |-> "paying", todo |-> GetWorkersForPayout(db)] \in PayoutState
    BY <1>0, PayeesType DEF PayoutState
  <2>. QED
    BY <1>6, <2>1 DEF StartPayouts, TypeOK, history, bounds
<1>7. ASSUME NEW p \in payout.todo, NEW accepted \in BOOLEAN, SendPayout(p, accepted)
      PROVE  TypeOK'
  <2>1. p \in Payee /\ payout.todo \ {p} \subseteq Payee
    BY <1>0, <1>7, PayoutFields DEF SendPayout, Idle
  <2>2. payout' \in PayoutState
    BY <1>7, <2>1 DEF SendPayout, PayoutState
  <2>3. delivered' \in [Workers -> Nat]
    BY <1>7, <2>1 DEF SendPayout, TypeOK, Payee
  <2>. QED
    BY <1>7, <2>2, <2>3 DEF SendPayout, TypeOK, bounds
<1>8. CASE RecordsPayout
  <2>1. payout.payee \in Payee /\ payout.todo \subseteq Payee
    BY <1>0, <1>8, PayoutFields DEF RecordsPayout, Idle
  <2>2. payout' \in PayoutState
    BY <1>8, <2>1 DEF RecordsPayout, PayoutState
  <2>3. db' \in Database
    BY <1>0, <1>8, <2>1, RecordPayoutType DEF RecordsPayout
  <2>. QED
    BY <1>8, <2>2, <2>3 DEF RecordsPayout, TypeOK, history, bounds
<1>9. ASSUME NEW s \in Savers, BeginSave(s) PROVE TypeOK'
  <2>1. save' \in [Savers -> Save]
    BY <1>0, <1>9, SaveTypes DEF BeginSave
  <2>2. autosaves' \in 0..MaxAutosaves
    BY <1>9, BoundsAssumption DEF BeginSave, Calls, TypeOK
  <2>. QED
    BY <1>9, <2>1, <2>2 DEF BeginSave, TypeOK, history
<1>10. CASE SavesCollide
  <2>1. PICK s \in Savers : TRUE
    BY DEF Savers
  <2>2. file' \in File
    BY <1>0, <1>10, <2>1, SaveTypes DEF SavesCollide
  <2>. QED
    BY <1>10, <2>2 DEF SavesCollide, TypeOK, history, bounds
<1>11. ASSUME NEW s \in Savers, NEW saved \in BOOLEAN, EndSave(s, saved) PROVE TypeOK'
  <2>1. save' \in [Savers -> Save] /\ file' \in File
    BY <1>0, <1>11, SaveTypes DEF EndSave
  <2>2. handler' \in [Workers -> HandlerState]
    <3>1. Idle \in HandlerState
      BY DEF HandlerState
    <3>. QED
      BY <1>0, <1>11, <3>1 DEF EndSave
  <2>3. payout' \in PayoutState
    BY <1>0, <1>11 DEF EndSave, PayoutState
  <2>4. mode' \in {"running", "closing", "stopped", "down"} /\ crashed' \in BOOLEAN
    BY <1>11 DEF EndSave, TypeOK
  <2>. QED
    BY <1>11, <2>1, <2>2, <2>3, <2>4 DEF EndSave, TypeOK, bounds
<1>12. CASE Shutdown
  BY <1>12 DEF Shutdown, TypeOK, history, bounds
<1>13. CASE Crash
  <2>1. handler' \in [Workers -> HandlerState] /\ payout' \in PayoutState /\ save' \in [Savers -> Save]
    BY <1>13 DEF Crash, HandlerState, PayoutState, Save
  <2>. QED
    BY <1>13, <2>1, NewDatabaseType DEF Crash, TypeOK, bounds
<1>14. CASE Restart
  <2>1. db' \in Database
    BY <1>0, <1>14, LoadType DEF Restart
  <2>2. forgotten' \in [Workers -> Nat]
    <3>1. \A w \in Workers : delivered[w] \in Nat /\ Load.paid[w] \in Nat
      BY <2>1, <1>14 DEF TypeOK, Database, Restart
    <3>2. \A w \in Workers : Excess(delivered[w], Load.paid[w]) \in Nat
      BY <3>1 DEF Excess
    <3>. QED
      BY <1>14, <3>2 DEF Restart
  <2>3. restarts' \in 0..MaxRestarts /\ autosaves' \in 0..MaxAutosaves
    BY <1>14, BoundsAssumption DEF Restart, TypeOK
  <2>. QED
    BY <1>14, <2>1, <2>2, <2>3 DEF Restart, TypeOK
<1>15. CASE NodeAppends
  BY <1>15, BoundsAssumption DEF NodeAppends, TypeOK, history, bounds
<1>16. CASE UNCHANGED vars
  BY <1>16 DEF vars, TypeOK
<1>. QED
  BY <1>1, <1>2, <1>3, <1>5, <1>6, <1>7, <1>8, <1>9, <1>10, <1>11, <1>12, <1>13, <1>14, <1>15, <1>16
     DEF Next

\* Every variable of the pool keeps its type: nothing a worker submits, the
\* node answers or a file holds makes an amount negative or a state undefined.
THEOREM TypeCorrect == Spec => []TypeOK
<1>. QED
  BY TypeInit, TypeNext, PTL DEF Spec
-----------------------------------------------------------------------------
\* When main saves for the last time, nobody else is left to change the
\* database or to save it, so that its call is alone.
Quiet ==
    /\ mode # "running" =>
          /\ \A w \in Workers : handler[w] = Idle
          /\ payout = Idle
          /\ \A s \in Savers \ {"main"} : save[s] = Idle
    /\ mode # "closing" => save["main"] = Idle
    /\ mode = "closing" => save["main"] \in {Idle, Saving(db, TRUE)}
    /\ mode = "stopped" => file = Whole(db)

\* The steps that leave what Quiet speaks of, and those only taken while the
\* pool runs.
LEMMA QuietSteps ==
  ASSUME Quiet,
         \/ mode = "running" /\ mode' = "running" /\ save["main"]' = save["main"]
         \/ UNCHANGED <<mode, db, handler, payout, save, file>>
  PROVE  Quiet'
BY DEF Quiet

LEMMA QuietNext ==
  TypeOK /\ Quiet /\ [Next]_vars => Quiet'
<1>. SUFFICES ASSUME TypeOK, Quiet, [Next]_vars PROVE Quiet'
  OBVIOUS
<1>0. save \in [Savers -> Save] /\ "main" \in Savers /\ "main" \notin Workers
  BY SaversAssumption DEF TypeOK, Savers
<1>1. ASSUME NEW r \in Rewards, FetchWork(r) PROVE Quiet'
  BY <1>1, QuietSteps DEF FetchWork
<1>2. ASSUME NEW w \in Workers, NEW solves \in BOOLEAN, HandleSubmit(w, solves) PROVE Quiet'
  BY <1>2, QuietSteps DEF HandleSubmit
<1>3. ASSUME NEW w \in Workers, NEW sameSecond \in BOOLEAN, NEW answered \in BOOLEAN,
             SubmitBlock(w, sameSecond, answered)
      PROVE  Quiet'
  BY <1>3, QuietSteps DEF SubmitBlock
<1>4. ASSUME NEW w \in Workers, RecordsBlock(w) \/ CreditsBlock(w) \/ PrunesShares(w)
      PROVE  Quiet'
  <2>1. mode = "running" /\ mode' = "running" /\ save' = save
    BY <1>4 DEF RecordsBlock, CreditsBlock, PrunesShares, AfterBlock
  <2>. QED
    BY <2>1, QuietSteps
<1>5. CASE StartPayouts
  BY <1>5, QuietSteps DEF StartPayouts
<1>6. ASSUME NEW p \in payout.todo, NEW accepted \in BOOLEAN, SendPayout(p, accepted)
      PROVE  Quiet'
  BY <1>6, QuietSteps DEF SendPayout
<1>7. CASE RecordsPayout
  BY <1>7, QuietSteps DEF RecordsPayout
<1>8. ASSUME NEW s \in Savers, BeginSave(s) PROVE Quiet'
  <2>1. CASE s = "main"
    <3>1. mode = "closing" /\ \A u \in Savers \ {s} : save[u] = Idle
      BY <1>8, <2>1 DEF BeginSave, Calls, Quiet
    <3>2. DOMAIN save = Savers
      BY <1>0
    <3>3. /\ save'[s] = Saving(db, TRUE)
          /\ \A u \in Savers \ {s} : save'[u] = Idle
      BY <1>8, <3>1, <3>2 DEF BeginSave, Begun
    <3>. QED
      BY <1>8, <2>1, <3>1, <3>3 DEF BeginSave, Quiet, history
  <2>2. CASE s # "main"
    <3>1. mode = "running"
      BY <1>8, <2>2 DEF BeginSave, Calls, Quiet, Savers, Idle
    <3>2. save["main"] = Idle
      BY <3>1 DEF Quiet
    <3>3. save'["main"] = Idle
      BY <1>0, <1>8, <2>2, <3>2 DEF BeginSave, Begun
    <3>. QED
      BY <1>8, <3>1, <3>2, <3>3, QuietSteps DEF BeginSave
  <2>. QED
    BY <2>1, <2>2
<1>9. CASE SavesCollide
  <2>1. mode = "running"
    <3>1. PICK s \in Savers : save[s] # Idle /\ ~save[s].alone
      BY <1>0, <1>9 DEF SavesCollide, Overlap
    <3>2. ASSUME mode # "running" PROVE FALSE
      <4>1. s = "main" /\ save[s] = Saving(db, TRUE)
        BY <3>1, <3>2 DEF Quiet
      <4>. QED
        BY <3>1, <4>1 DEF Saving
    <3>. QED
      BY <3>2
  <2>. QED
    BY <1>9, <2>1, QuietSteps DEF SavesCollide
<1>10. ASSUME NEW s \in Savers, NEW saved \in BOOLEAN, EndSave(s, saved) PROVE Quiet'
  <2>1. CASE s = "main"
    <3>1. mode = "closing" /\ save[s] = Saving(db, TRUE)
      BY <1>10, <2>1 DEF EndSave, Quiet
    <3>2. save[s].alone /\ save[s].data = db
      BY <3>1 DEF Saving
    <3>3. saved => file' = Whole(db)
      BY <1>10, <3>2 DEF EndSave, Outcomes
    <3>4. save'[s] = Idle /\ \A u \in Savers \ {s} : save'[u] = save[u]
      BY <1>0, <1>10 DEF EndSave, Ended
    <3>5. /\ handler' = handler /\ payout' = payout /\ db' = db
          /\ mode' = IF saved THEN "stopped" ELSE "down"
      BY <1>0, <1>10, <2>1 DEF EndSave
    <3>. QED
      BY <2>1, <3>1, <3>3, <3>4, <3>5 DEF Quiet
  <2>2. CASE s # "main"
    <3>1. mode = "running"
      BY <1>10, <2>2 DEF EndSave, Quiet
    <3>2. save'["main"] = save["main"] /\ mode' = mode
      BY <1>0, <1>10, <2>2 DEF EndSave, Ended
    <3>. QED
      BY <3>1, <3>2, QuietSteps
  <2>. QED
    BY <2>1, <2>2
<1>11. CASE Shutdown
  BY <1>0, <1>11 DEF Shutdown, Quiet
<1>12. CASE Crash
  BY <1>0, <1>12 DEF Crash, Quiet
<1>13. CASE Restart
  BY <1>0, <1>13 DEF Restart, Quiet
<1>14. CASE NodeAppends
  BY <1>14, QuietSteps DEF NodeAppends
<1>15. CASE UNCHANGED vars
  BY <1>15, QuietSteps DEF vars
<1>. QED
  BY <1>1, <1>2, <1>3, <1>4, <1>5, <1>6, <1>7, <1>8, <1>9, <1>10, <1>11, <1>12, <1>13, <1>14, <1>15
     DEF Next

LEMMA QuietAlways == Spec => []Quiet
<1>1. Init => Quiet
  BY SaversAssumption DEF Init, Quiet, Savers
<1>. QED
  BY <1>1, QuietNext, TypeCorrect, PTL DEF Spec

\* A shutdown waits for every goroutine before it saves, so the database in
\* the file is the one that was in memory, whatever saves ran before.
THEOREM CleanStopCorrect == Spec => []CleanStopSaves
<1>1. Quiet => CleanStopSaves
  BY DEF Quiet, CleanStopSaves
<1>. QED
  BY <1>1, QuietAlways, PTL
-----------------------------------------------------------------------------
\* What the payout engine is about to debit is covered: it works on copies of
\* the balances, no worker is in its list twice, and nobody else debits.
PayoutsCovered ==
    /\ payout # Idle =>
          /\ \A p \in payout.todo : p.amount <= db.balance[p.to]
          /\ \A p, q \in payout.todo : p.to = q.to => p = q
    /\ payout.pc = "answered" =>
          /\ payout.payee.amount <= db.balance[payout.payee.to]
          /\ \A p \in payout.todo : p.to # payout.payee.to

\* The part of the books in the database.
LEMMA BalancedOps ==
  ASSUME NEW d \in Database, Balanced(d)
  PROVE  /\ Balanced(NewDatabase)
         /\ \A w \in Workers : Balanced(RecordShare(d, w))
         /\ \A r \in Rewards : Balanced(RecordBlock(d, r)) /\ Balanced(DistributePPLNS(d, r))
         /\ \A size \in Nat : Balanced(PruneShareWindow(d, size))
         /\ \A p \in Payee : p.amount <= d.balance[p.to] => Balanced(RecordPayout(d, p))
<1>1. Balanced(NewDatabase)
  BY DEF Balanced, NewDatabase
<1>2. \A w \in Workers : Balanced(RecordShare(d, w))
  BY RecordTypes DEF Balanced
<1>3. \A r \in Rewards : Balanced(RecordBlock(d, r))
  BY RecordTypes DEF Balanced
<1>4. ASSUME NEW r \in Rewards PROVE Balanced(DistributePPLNS(d, r))
  <2>. SUFFICES ASSUME NEW w \in Workers
                PROVE  /\ DistributePPLNS(d, r).balance[w] >= 0
                       /\ DistributePPLNS(d, r).balance[w] =
                            DistributePPLNS(d, r).earned[w] - DistributePPLNS(d, r).paid[w]
    BY DEF Balanced
  <2>1. d.balance[w] \in Int /\ d.earned[w] \in Nat /\ d.paid[w] \in Nat
    BY DEF Database
  <2>2. Credit(d, r, w) \in Nat
    BY CreditNat
  <2>3. d.balance[w] >= 0 /\ d.balance[w] = d.earned[w] - d.paid[w]
    BY DEF Balanced
  <2>. QED
    BY <2>1, <2>2, <2>3, DistributeType
<1>5. \A size \in Nat : Balanced(PruneShareWindow(d, size))
  BY PruneType DEF Balanced
<1>6. ASSUME NEW p \in Payee, p.amount <= d.balance[p.to] PROVE Balanced(RecordPayout(d, p))
  <2>. SUFFICES ASSUME NEW w \in Workers
                PROVE  /\ RecordPayout(d, p).balance[w] >= 0
                       /\ RecordPayout(d, p).balance[w] =
                            RecordPayout(d, p).earned[w] - RecordPayout(d, p).paid[w]
    BY DEF Balanced
  <2>1. d.balance[w] \in Int /\ d.earned[w] \in Nat /\ d.paid[w] \in Nat /\ p.amount \in Nat
    BY DEF Database, Payee
  <2>2. d.balance[w] >= 0 /\ d.balance[w] = d.earned[w] - d.paid[w]
    BY DEF Balanced
  <2>. QED
    BY <1>6, <2>1, <2>2, RecordPayoutType
<1>. QED
  BY <1>1, <1>2, <1>3, <1>4, <1>5, <1>6

\* A database that credits what the list was made from still covers it.
LEMMA CoveredSteps ==
  ASSUME TypeOK, PayoutsCovered, UNCHANGED payout, NEW d \in Database, db' = d,
         \A w \in Workers : d.balance[w] >= db.balance[w]
  PROVE  PayoutsCovered'
<1>1. payout # Idle => payout.todo \subseteq Payee
  BY PayoutFields DEF TypeOK
<1>2. payout.pc = "answered" => payout.payee \in Payee
  BY PayoutFields DEF TypeOK
<1>3. \A p \in Payee : p.to \in Workers /\ p.amount \in Nat
  BY DEF Payee
<1>4. \A w \in Workers : db.balance[w] \in Int /\ d.balance[w] \in Int
  BY DEF TypeOK, Database
<1>. QED
  BY <1>1, <1>2, <1>3, <1>4 DEF PayoutsCovered

LEMMA BooksSteps ==
  ASSUME BooksBalance, UNCHANGED <<save, file>>, NEW d, db' = d, Balanced(d)
  PROVE  BooksBalance'
BY DEF BooksBalance, Balanced

LEMMA BooksNext ==
  TypeOK /\ Quiet /\ BooksBalance /\ PayoutsCovered /\ [Next]_vars
    => BooksBalance' /\ PayoutsCovered'
<1>. SUFFICES ASSUME TypeOK, Quiet, BooksBalance, PayoutsCovered, [Next]_vars
              PROVE  BooksBalance' /\ PayoutsCovered'
  OBVIOUS
<1>0. /\ handler \in [Workers -> HandlerState] /\ payout \in PayoutState
      /\ save \in [Savers -> Save] /\ file \in File /\ db \in Database
      /\ Balanced(db)
      /\ \A w \in Workers : db.balance[w] \in Int
  BY DEF TypeOK, BooksBalance, Database
\* Steps that leave the books alone.
<1>1. ASSUME UNCHANGED <<db, payout, save, file>> PROVE BooksBalance' /\ PayoutsCovered'
  <2>1. \A w \in Workers : db.balance[w] >= db.balance[w]
    BY <1>0
  <2>. QED
    BY <1>0, <1>1, <2>1, BooksSteps, CoveredSteps
\* Steps that only credit.
<1>2. ASSUME NEW d \in Database, db' = d, UNCHANGED <<payout, save, file>>, Balanced(d),
             \A w \in Workers : d.balance[w] >= db.balance[w]
      PROVE  BooksBalance' /\ PayoutsCovered'
  BY <1>0, <1>2, BooksSteps, CoveredSteps
<1>3. ASSUME NEW r \in Rewards, FetchWork(r) PROVE BooksBalance' /\ PayoutsCovered'
  BY <1>1, <1>3 DEF FetchWork
<1>4. ASSUME NEW w \in Workers, NEW solves \in BOOLEAN, HandleSubmit(w, solves)
      PROVE  BooksBalance' /\ PayoutsCovered'
  <2>1. db' = RecordShare(db, w) /\ UNCHANGED <<payout, save, file>>
    BY <1>4 DEF HandleSubmit
  <2>. QED
    BY <1>0, <1>2, <2>1, RecordTypes, BalancedOps
<1>5. ASSUME NEW w \in Workers, NEW sameSecond \in BOOLEAN, NEW answered \in BOOLEAN,
             SubmitBlock(w, sameSecond, answered)
      PROVE  BooksBalance' /\ PayoutsCovered'
  BY <1>1, <1>5 DEF SubmitBlock
<1>6. ASSUME NEW w \in Workers, RecordsBlock(w) PROVE BooksBalance' /\ PayoutsCovered'
  <2>1. handler[w].job.reward \in Rewards
    BY <1>0, <1>6, HandlerFields DEF RecordsBlock, AfterBlock, Job
  <2>2. db' = RecordBlock(db, handler[w].job.reward) /\ UNCHANGED <<payout, save, file>>
    BY <1>6 DEF RecordsBlock, AfterBlock
  <2>3. /\ RecordBlock(db, handler[w].job.reward) \in Database
        /\ RecordBlock(db, handler[w].job.reward).balance = db.balance
    BY <1>0, <2>1, RecordTypes
  <2>4. Balanced(RecordBlock(db, handler[w].job.reward))
    BY <1>0, <2>1, BalancedOps
  <2>. QED
    BY <1>0, <1>2, <2>2, <2>3, <2>4
<1>7. ASSUME NEW w \in Workers, CreditsBlock(w) PROVE BooksBalance' /\ PayoutsCovered'
  <2>. DEFINE r == handler[w].job.reward
  <2>1. r \in Rewards
    BY <1>0, <1>7, HandlerFields DEF CreditsBlock, AfterBlock, Job
  <2>2. db' = DistributePPLNS(db, r) /\ UNCHANGED <<payout, save, file>>
    BY <1>7 DEF CreditsBlock, AfterBlock
  <2>3. DistributePPLNS(db, r) \in Database /\ Balanced(DistributePPLNS(db, r))
    BY <1>0, <2>1, DistributeType, BalancedOps
  <2>4. \A v \in Workers : DistributePPLNS(db, r).balance[v] >= db.balance[v]
    <3>1. \A v \in Workers : Credit(db, r, v) \in Nat
      BY <1>0, <2>1, CreditNat
    <3>2. \A v \in Workers : DistributePPLNS(db, r).balance[v] = db.balance[v] + Credit(db, r, v)
      BY <1>0, <2>1, DistributeType
    <3>. QED
      BY <1>0, <3>1, <3>2
  <2>. QED
    BY <1>2, <2>2, <2>3, <2>4
<1>8. ASSUME NEW w \in Workers, PrunesShares(w) PROVE BooksBalance' /\ PayoutsCovered'
  <2>1. /\ db' = PruneShareWindow(db, GetPPLNSWindowSize(BlockBits, ShareBits))
        /\ UNCHANGED <<payout, save, file>>
    BY <1>8 DEF PrunesShares, AfterBlock
  <2>. QED
    BY <1>0, <1>2, <2>1, WindowSizeNat, PruneType, BalancedOps
<1>9. CASE StartPayouts
  <2>1. UNCHANGED <<db, save, file>> /\ payout' = [pc |-> "paying", todo |-> GetWorkersForPayout(db)]
    BY <1>9 DEF StartPayouts
  <2>2. PayoutsCovered'
    BY <1>0, <2>1, PayeesType DEF PayoutsCovered
  <2>. QED
    BY <1>0, <2>1, <2>2, BooksSteps
<1>10. ASSUME NEW p \in payout.todo, NEW accepted \in BOOLEAN, SendPayout(p, accepted)
       PROVE  BooksBalance' /\ PayoutsCovered'
  <2>1. /\ UNCHANGED <<db, save, file>> /\ payout # Idle
        /\ payout' = [pc |-> "answered", todo |-> payout.todo \ {p}, payee |-> p]
    BY <1>10 DEF SendPayout, Idle
  <2>2. PayoutsCovered'
    BY <1>0, <2>1 DEF PayoutsCovered
  <2>. QED
    BY <1>0, <2>1, <2>2, BooksSteps
<1>11. CASE RecordsPayout
  <2>1. /\ db' = RecordPayout(db, payout.payee) /\ UNCHANGED <<save, file>>
        /\ payout.pc = "answered" /\ payout # Idle
        /\ payout'.todo = payout.todo /\ payout'.pc \in {"saving", "paying"}
    BY <1>11 DEF RecordsPayout, Idle
  <2>2. /\ payout.payee \in Payee /\ payout.todo \subseteq Payee
        /\ payout.payee.amount <= db.balance[payout.payee.to]
        /\ \A p \in payout.todo : p.to # payout.payee.to
    BY <1>0, <2>1, PayoutFields DEF PayoutsCovered
  <2>3. \A p \in payout.todo : RecordPayout(db, payout.payee).balance[p.to] = db.balance[p.to]
    <3>1. \A p \in payout.todo : p.to \in Workers
      BY <2>2 DEF Payee
    <3>. QED
      BY <1>0, <2>2, <3>1, RecordPayoutType
  <2>4. PayoutsCovered'
    BY <2>1, <2>3 DEF PayoutsCovered
  <2>. QED
    BY <1>0, <2>1, <2>2, <2>4, BalancedOps, BooksSteps
<1>12. ASSUME NEW s \in Savers, BeginSave(s) PROVE BooksBalance' /\ PayoutsCovered'
  <2>1. save' = Begun(save, s, db) /\ UNCHANGED <<db, payout, file>>
    BY <1>12 DEF BeginSave
  <2>2. \A t \in Savers : save'[t] # Idle => save'[t].data = db \/ (save[t] # Idle /\ save'[t].data = save[t].data)
    <3>. SUFFICES ASSUME NEW t \in Savers, save'[t] # Idle
                  PROVE  save'[t].data = db \/ (save[t] # Idle /\ save'[t].data = save[t].data)
      OBVIOUS
    <3>1. \A d, alone : Saving(d, alone).data = d
      BY DEF Saving
    <3>2. CASE t = s
      <4>1. save'[t] = Saving(db, \A u \in DOMAIN save \ {s} : save[u] = Idle)
        BY <1>0, <2>1, <3>2, Zenon DEF Begun
      <4>. QED
        BY <3>1, <4>1, Zenon
    <3>3. CASE t # s
      <4>1. save'[t] = IF save[t] = Idle THEN Idle ELSE Saving(save[t].data, FALSE)
        BY <1>0, <2>1, <3>3, Zenon DEF Begun
      <4>2. save[t] # Idle /\ save'[t] = Saving(save[t].data, FALSE)
        BY <4>1
      <4>. QED
        BY <3>1, <4>2, Zenon
    <3>. QED
      BY <3>2, <3>3
  <2>3. BooksBalance'
    BY <2>1, <2>2 DEF BooksBalance, Balanced
  <2>4. \A w \in Workers : db.balance[w] >= db.balance[w]
    BY <1>0
  <2>. QED
    BY <1>0, <2>1, <2>3, <2>4, CoveredSteps
<1>13. CASE SavesCollide
  <2>1. file' \in Disturbed(save, file) /\ UNCHANGED <<db, payout, save>>
    BY <1>13 DEF SavesCollide
  <2>2. \/ file' \in {file, Broken}
        \/ \E s \in Savers : save[s] # Idle /\ file' = Whole(save[s].data)
    BY <1>0, <2>1 DEF Disturbed
  <2>3. BooksBalance'
    BY <2>1, <2>2 DEF BooksBalance, Balanced, Whole
  <2>4. \A w \in Workers : db.balance[w] >= db.balance[w]
    BY <1>0
  <2>. QED
    BY <1>0, <2>1, <2>3, <2>4, CoveredSteps
<1>14. ASSUME NEW s \in Savers, NEW saved \in BOOLEAN, EndSave(s, saved)
       PROVE  BooksBalance' /\ PayoutsCovered'
  <2>1. /\ save[s] # Idle /\ file' \in Outcomes(save, s, saved, file)
        /\ save' = Ended(save, s) /\ db' = db /\ payout' \in {payout, Idle}
    BY <1>14 DEF EndSave
  <2>2. \/ file' \in {file, Broken}
        \/ \E t \in Savers : save[t] # Idle /\ file' = Whole(save[t].data)
    BY <1>0, <2>1 DEF Outcomes, Disturbed
  <2>3. \A t \in Savers : save'[t] # Idle => save[t] # Idle /\ save'[t] = save[t]
    BY <1>0, <2>1 DEF Ended
  <2>4. BooksBalance'
    BY <2>1, <2>2, <2>3 DEF BooksBalance, Balanced, Whole
  <2>5. PayoutsCovered'
    BY <2>1 DEF PayoutsCovered, Idle
  <2>. QED
    BY <2>4, <2>5
<1>15. CASE Shutdown
  BY <1>1, <1>15 DEF Shutdown
<1>16. CASE Crash
  <2>1. BooksBalance'
    BY <1>0, <1>16, BalancedOps DEF Crash, BooksBalance, Balanced
  <2>2. PayoutsCovered'
    BY <1>16 DEF Crash, PayoutsCovered, Idle
  <2>. QED
    BY <2>1, <2>2
<1>17. CASE Restart
  <2>1. payout' = Idle /\ UNCHANGED <<save, file>> /\ db' = Load /\ file # Broken
    BY <1>17 DEF Restart, Quiet
  <2>2. Balanced(Load)
    <3>1. CASE file = NoFile
      BY <1>0, <3>1, BalancedOps DEF Load
    <3>2. CASE file # NoFile
      BY <2>1, <3>2 DEF Load, BooksBalance
    <3>. QED
      BY <3>1, <3>2
  <2>3. PayoutsCovered'
    BY <2>1 DEF PayoutsCovered, Idle
  <2>. QED
    BY <2>1, <2>2, <2>3, BooksSteps
<1>18. CASE NodeAppends
  BY <1>1, <1>18 DEF NodeAppends
<1>19. CASE UNCHANGED vars
  BY <1>1, <1>19 DEF vars
<1>. QED
  BY <1>3, <1>4, <1>5, <1>6, <1>7, <1>8, <1>9, <1>10, <1>11, <1>12, <1>13, <1>14, <1>15, <1>16, <1>17, <1>18, <1>19
     DEF Next

LEMMA BooksAlways == Spec => [](BooksBalance /\ PayoutsCovered)
<1>1. Init => BooksBalance /\ PayoutsCovered
  <2>. SUFFICES ASSUME Init PROVE BooksBalance /\ PayoutsCovered
    OBVIOUS
  <2>1. Balanced(NewDatabase)
    BY NewDatabaseType DEF Balanced, NewDatabase
  <2>. QED
    BY <2>1 DEF Init, BooksBalance, PayoutsCovered, Idle
<1>. QED
  BY <1>1, BooksNext, TypeCorrect, QuietAlways, PTL DEF Spec

\* Balances are what was earned less what was paid, although a payout debits
\* what it copied while blocks credit the same workers: in memory, in every
\* database a save has marshalled, and in every file a start would load.
THEOREM BooksBalanceCorrect == Spec => []BooksBalance
<1>. QED
  BY BooksAlways, PTL
-----------------------------------------------------------------------------
\* The payout engine does not go on before its save has returned.
EngineWaits == save["payout"] # Idle => payout.pc = "saving"

LEMMA EngineWaitsAlways == Spec => []EngineWaits
<1>1. Init => EngineWaits
  BY DEF Init, EngineWaits, Savers
<1>2. TypeOK /\ Quiet /\ EngineWaits /\ [Next]_vars => EngineWaits'
  <2>. SUFFICES ASSUME TypeOK, Quiet, EngineWaits, [Next]_vars PROVE EngineWaits'
    OBVIOUS
  <2>0. save \in [Savers -> Save] /\ "payout" \in Savers /\ "payout" \notin Workers
    BY SaversAssumption DEF TypeOK, Savers
  <2>1. ASSUME UNCHANGED <<payout, save>> PROVE EngineWaits'
    BY <2>1 DEF EngineWaits
  <2>2. ASSUME UNCHANGED save, payout.pc # "saving" PROVE EngineWaits'
    BY <2>2 DEF EngineWaits
  <2>3. ASSUME NEW s \in Savers, BeginSave(s) PROVE EngineWaits'
    <3>1. CASE s = "payout"
      BY <2>3, <3>1 DEF BeginSave, Calls, EngineWaits
    <3>2. CASE s # "payout"
      <4>1. save["payout"] = Idle => save'["payout"] = Idle
        BY <2>0, <2>3, <3>2 DEF BeginSave, Begun
      <4>. QED
        BY <2>3, <4>1 DEF BeginSave, EngineWaits
    <3>. QED
      BY <3>1, <3>2
  <2>4. ASSUME NEW s \in Savers, NEW saved \in BOOLEAN, EndSave(s, saved) PROVE EngineWaits'
    BY <2>0, <2>4 DEF EndSave, Ended, EngineWaits
  <2>5. CASE Crash
    BY <2>0, <2>5 DEF Crash, EngineWaits
  <2>6. CASE StartPayouts \/ RecordsPayout
    BY <2>2, <2>6 DEF StartPayouts, RecordsPayout, Idle
  <2>7. ASSUME NEW p \in payout.todo, NEW accepted \in BOOLEAN, SendPayout(p, accepted)
        PROVE  EngineWaits'
    BY <2>2, <2>7 DEF SendPayout
  <2>8. ASSUME NEW r \in Rewards, FetchWork(r) PROVE EngineWaits'
    BY <2>1, <2>8 DEF FetchWork
  <2>9. ASSUME NEW w \in Workers, NEW solves \in BOOLEAN, HandleSubmit(w, solves) PROVE EngineWaits'
    BY <2>1, <2>9 DEF HandleSubmit
  <2>10. ASSUME NEW w \in Workers, NEW sameSecond \in BOOLEAN, NEW answered \in BOOLEAN,
                SubmitBlock(w, sameSecond, answered)
         PROVE  EngineWaits'
    BY <2>1, <2>10 DEF SubmitBlock
  <2>11. ASSUME NEW w \in Workers, RecordsBlock(w) \/ CreditsBlock(w) \/ PrunesShares(w)
         PROVE  EngineWaits'
    BY <2>1, <2>11 DEF RecordsBlock, CreditsBlock, PrunesShares, AfterBlock
  <2>12. CASE SavesCollide \/ Shutdown \/ Restart \/ NodeAppends \/ UNCHANGED vars
    BY <2>1, <2>12 DEF SavesCollide, Shutdown, Restart, NodeAppends, vars
  <2>. QED
    BY <2>3, <2>4, <2>5, <2>6, <2>7, <2>8, <2>9, <2>10, <2>11, <2>12 DEF Next
<1>. QED
  BY <1>1, <1>2, TypeCorrect, QuietAlways, PTL DEF Spec
-----------------------------------------------------------------------------
\* A payment between the node's answer and the record of it.
Pending(w) ==
    IF payout.pc = "answered" /\ payout.payee.to = w THEN payout.payee.amount ELSE 0

\* Payments are recorded, about to be, or forgotten by a start.
PaymentsRecorded ==
    mode # "down" => \A w \in Workers : delivered[w] <= db.paid[w] + forgotten[w] + Pending(w)

LEMMA PaymentTypes ==
  ASSUME TypeOK, NEW w \in Workers
  PROVE  /\ db.paid[w] \in Nat /\ forgotten[w] \in Nat /\ delivered[w] \in Nat
         /\ payout.pc = "answered" => payout.payee \in Payee
         /\ Pending(w) \in Nat
<1>1. db.paid[w] \in Nat /\ forgotten[w] \in Nat /\ delivered[w] \in Nat
  BY DEF TypeOK, Database
<1>2. payout.pc = "answered" => payout.payee \in Payee
  BY PayoutFields DEF TypeOK
<1>3. Pending(w) \in Nat
  BY <1>2 DEF Pending, Payee
<1>. QED
  BY <1>1, <1>2, <1>3

\* Steps that neither pay nor record a payment.
LEMMA PaymentsSteps ==
  ASSUME PaymentsRecorded, mode' # "down" => mode # "down", UNCHANGED <<delivered, forgotten>>,
         \A w \in Workers : db'.paid[w] = db.paid[w] /\ Pending(w)' = Pending(w)
  PROVE  PaymentsRecorded'
BY DEF PaymentsRecorded

LEMMA PaymentsNext ==
  TypeOK /\ Quiet /\ EngineWaits /\ PaymentsRecorded /\ [Next]_vars => PaymentsRecorded'
<1>. SUFFICES ASSUME TypeOK, Quiet, EngineWaits, PaymentsRecorded, [Next]_vars
              PROVE  PaymentsRecorded'
  OBVIOUS
<1>0. /\ handler \in [Workers -> HandlerState] /\ payout \in PayoutState
      /\ file \in File /\ db \in Database
  BY DEF TypeOK
<1>1. ASSUME NEW d, db' = d, d.paid = db.paid, UNCHANGED <<delivered, forgotten>>,
             payout' = payout \/ (payout.pc # "answered" /\ payout'.pc # "answered"),
             mode' # "down" => mode # "down"
      PROVE  PaymentsRecorded'
  BY <1>1, PaymentsSteps DEF Pending
<1>2. ASSUME NEW r \in Rewards, FetchWork(r) PROVE PaymentsRecorded'
  BY <1>1, <1>2 DEF FetchWork, history
<1>3. ASSUME NEW w \in Workers, NEW solves \in BOOLEAN, HandleSubmit(w, solves)
      PROVE  PaymentsRecorded'
  <2>1. db' = RecordShare(db, w) /\ UNCHANGED <<payout, delivered, forgotten, mode>>
    BY <1>3 DEF HandleSubmit, history
  <2>. QED
    BY <1>0, <1>1, <2>1, RecordTypes
<1>4. ASSUME NEW w \in Workers, NEW sameSecond \in BOOLEAN, NEW answered \in BOOLEAN,
             SubmitBlock(w, sameSecond, answered)
      PROVE  PaymentsRecorded'
  BY <1>1, <1>4 DEF SubmitBlock
<1>5. ASSUME NEW w \in Workers, RecordsBlock(w) \/ CreditsBlock(w) \/ PrunesShares(w)
      PROVE  PaymentsRecorded'
  <2>1. handler[w].job.reward \in Rewards
    BY <1>0, <1>5, HandlerFields DEF RecordsBlock, CreditsBlock, PrunesShares, AfterBlock, Job
  <2>2. UNCHANGED <<payout, delivered, forgotten, mode>>
    BY <1>5 DEF RecordsBlock, CreditsBlock, PrunesShares, AfterBlock, history
  <2>3. \/ db' = RecordBlock(db, handler[w].job.reward)
        \/ db' = DistributePPLNS(db, handler[w].job.reward)
        \/ db' = PruneShareWindow(db, GetPPLNSWindowSize(BlockBits, ShareBits))
    BY <1>5 DEF RecordsBlock, CreditsBlock, PrunesShares, AfterBlock
  <2>4. db'.paid = db.paid
    <3>1. RecordBlock(db, handler[w].job.reward).paid = db.paid
      BY <1>0, <2>1, RecordTypes
    <3>2. DistributePPLNS(db, handler[w].job.reward).paid = db.paid
      BY <1>0, <2>1, DistributeType
    <3>3. PruneShareWindow(db, GetPPLNSWindowSize(BlockBits, ShareBits)).paid = db.paid
      BY <1>0, PruneType, WindowSizeNat
    <3>. QED
      BY <2>3, <3>1, <3>2, <3>3
  <2>. QED
    BY <1>1, <2>2, <2>4
<1>6. CASE StartPayouts
  BY <1>1, <1>6 DEF StartPayouts, Idle, history
<1>7. ASSUME NEW p \in payout.todo, NEW accepted \in BOOLEAN, SendPayout(p, accepted)
      PROVE  PaymentsRecorded'
  <2>1. /\ mode = "running" /\ payout.pc = "paying" /\ UNCHANGED <<db, forgotten>>
        /\ payout'.pc = "answered" /\ payout'.payee = p
        /\ delivered' \in {delivered, [delivered EXCEPT ![p.to] = delivered[p.to] + p.amount]}
    BY <1>7 DEF SendPayout
  <2>2. p \in Payee
    BY <1>0, <2>1, PayoutFields DEF Idle
  <2>. SUFFICES ASSUME NEW w \in Workers
                PROVE  delivered'[w] <= db.paid[w] + forgotten[w] + Pending(w)'
    BY <2>1 DEF PaymentsRecorded
  <2>3. delivered[w] <= db.paid[w] + forgotten[w]
    BY <2>1, PaymentTypes DEF PaymentsRecorded, Pending
  <2>4. Pending(w)' = IF p.to = w THEN p.amount ELSE 0
    BY <2>1 DEF Pending
  <2>5. delivered'[w] <= delivered[w] + Pending(w)'
    BY <2>1, <2>2, <2>4 DEF TypeOK, Payee
  <2>6. p.amount \in Nat /\ delivered'[w] \in Nat
    BY <2>1, <2>2 DEF TypeOK, Payee
  <2>. QED
    BY <2>3, <2>4, <2>5, <2>6, PaymentTypes
<1>8. CASE RecordsPayout
  <2>1. /\ mode = "running" /\ payout.pc = "answered" /\ payout'.pc # "answered"
        /\ db' = RecordPayout(db, payout.payee) /\ UNCHANGED <<delivered, forgotten>>
    BY <1>8 DEF RecordsPayout, history
  <2>. SUFFICES ASSUME NEW w \in Workers
                PROVE  delivered[w] <= db'.paid[w] + forgotten[w] + Pending(w)'
    BY <2>1 DEF PaymentsRecorded
  <2>2. delivered[w] <= db.paid[w] + forgotten[w] + Pending(w)
    BY <2>1 DEF PaymentsRecorded
  <2>3. Pending(w)' = 0
    BY <2>1 DEF Pending
  <2>4. db'.paid[w] = db.paid[w] + Pending(w)
    <3>1. payout.payee \in Payee
      BY <1>0, <2>1, PayoutFields
    <3>2. db'.paid[w] = IF w = payout.payee.to THEN db.paid[w] + payout.payee.amount ELSE db.paid[w]
      BY <1>0, <2>1, <3>1, RecordPayoutType
    <3>. QED
      BY <2>1, <3>2, PaymentTypes DEF Pending
  <2>. QED
    BY <2>2, <2>3, <2>4, PaymentTypes
<1>9. ASSUME NEW s \in Savers, BeginSave(s) PROVE PaymentsRecorded'
  BY <1>1, <1>9 DEF BeginSave, history
<1>10. CASE SavesCollide
  BY <1>1, <1>10 DEF SavesCollide, history
<1>11. ASSUME NEW s \in Savers, NEW saved \in BOOLEAN, EndSave(s, saved) PROVE PaymentsRecorded'
  <2>1. UNCHANGED <<db, delivered, forgotten>> /\ (mode' # "down" => mode' \in {mode, "stopped"})
    BY <1>11 DEF EndSave
  <2>2. mode' = "stopped" => mode = "closing" \/ mode = mode'
    BY <1>11 DEF EndSave, Quiet
  <2>3. CASE payout' = payout
    BY <1>1, <2>1, <2>2, <2>3
  <2>4. CASE payout' # payout
    <3>1. s = "payout" /\ payout' = Idle
      BY <1>11, <2>4 DEF EndSave
    <3>2. payout.pc = "saving"
      BY <1>11, <3>1 DEF EndSave, EngineWaits
    <3>. QED
      BY <1>1, <2>1, <2>2, <3>1, <3>2 DEF Idle
  <2>. QED
    BY <2>3, <2>4
<1>12. CASE Shutdown
  BY <1>1, <1>12 DEF Shutdown, history
<1>13. CASE Crash
  BY <1>13 DEF Crash, PaymentsRecorded
<1>14. CASE Restart
  <2>1. /\ db' = Load /\ payout' = Idle /\ file # Broken
        /\ forgotten' = [w \in Workers |-> Excess(delivered[w], Load.paid[w])]
        /\ UNCHANGED delivered
    BY <1>14 DEF Restart, Quiet
  <2>. SUFFICES ASSUME NEW w \in Workers
                PROVE  delivered[w] <= Load.paid[w] + forgotten'[w] + Pending(w)'
    BY <2>1 DEF PaymentsRecorded
  <2>2. Pending(w)' = 0
    BY <2>1 DEF Pending, Idle
  <2>3. Load.paid[w] \in Nat /\ delivered[w] \in Nat
    BY <1>0, <2>1, LoadType, PaymentTypes DEF Database
  <2>4. forgotten'[w] = Excess(delivered[w], Load.paid[w])
    BY <2>1
  <2>. QED
    BY <2>2, <2>3, <2>4 DEF Excess
<1>15. CASE NodeAppends
  BY <1>1, <1>15 DEF NodeAppends, history
<1>16. CASE UNCHANGED vars
  BY <1>1, <1>16 DEF vars, history
<1>. QED
  BY <1>2, <1>3, <1>4, <1>5, <1>6, <1>7, <1>8, <1>9, <1>10, <1>11, <1>12, <1>13, <1>14, <1>15, <1>16
     DEF Next

LEMMA PaymentsAlways == Spec => []PaymentsRecorded
<1>1. Init => PaymentsRecorded
  BY DEF Init, PaymentsRecorded, NewDatabase, Pending, Idle
<1>. QED
  BY <1>1, PaymentsNext, TypeCorrect, QuietAlways, EngineWaitsAlways, PTL DEF Spec

\* No worker is paid more than it earned while the pool's record of payments
\* is not lost: a payment is in the record, or its record is the next step, and
\* what is in the record came out of the balance.
THEOREM PaidOnceCorrect == Spec => []PaidOnce
<1>1. TypeOK /\ BooksBalance /\ PayoutsCovered /\ PaymentsRecorded => PaidOnce
  <2>. SUFFICES ASSUME TypeOK, BooksBalance, PayoutsCovered, PaymentsRecorded,
                       mode # "down", NEW w \in Workers
                PROVE  delivered[w] <= db.earned[w] + forgotten[w]
    BY DEF PaidOnce
  <2>1. /\ db.balance[w] \in Int /\ db.earned[w] \in Nat
        /\ db.balance[w] >= 0 /\ db.balance[w] = db.earned[w] - db.paid[w]
    BY DEF TypeOK, Database, BooksBalance, Balanced
  <2>2. Pending(w) <= db.balance[w]
    BY <2>1 DEF Pending, PayoutsCovered
  <2>3. delivered[w] <= db.paid[w] + forgotten[w] + Pending(w)
    BY DEF PaymentsRecorded
  <2>. QED
    BY <2>1, <2>2, <2>3, PaymentTypes
<1>. QED
  BY <1>1, TypeCorrect, BooksAlways, PaymentsAlways, PTL
-----------------------------------------------------------------------------
(* Credits and rewards                                                     *)

LEMMA TotalPlus ==
  ASSUME NEW f \in [Workers -> Int], NEW g \in [Workers -> Int], NEW h \in [Workers -> Int],
         \A w \in Workers : h[w] = f[w] + g[w]
  PROVE  SumFunction(h) = SumFunction(f) + SumFunction(g)
BY WorkersAssumption, SumFunctionPlus

\* Every share is some worker's.
Count(s, w) == Cardinality({i \in DOMAIN s : s[i] = w})

LEMMA CountNat ==
  ASSUME NEW s \in Seq(Workers), NEW w
  PROVE  IsFiniteSet({i \in DOMAIN s : s[i] = w}) /\ Count(s, w) \in Nat
<1>1. IsFiniteSet(DOMAIN s)
  BY LenProperties, FS_Interval
<1>2. IsFiniteSet({i \in DOMAIN s : s[i] = w})
  BY <1>1, FS_Subset
<1>. QED
  BY <1>2, FS_CardinalityType DEF Count

LEMMA CountAppend ==
  ASSUME NEW s \in Seq(Workers), NEW x \in Workers, NEW w
  PROVE  Count(Append(s, x), w) = Count(s, w) + (IF w = x THEN 1 ELSE 0)
<1>. DEFINE more == Append(s, x)
            n == Len(s)
            A == {i \in DOMAIN s : s[i] = w}
            B == {i \in DOMAIN more : more[i] = w}
<1>1. /\ n \in Nat /\ DOMAIN s = 1..n /\ DOMAIN more = 1..(n + 1)
      /\ \A i \in 1..n : more[i] = s[i]
      /\ more[n + 1] = x
  BY LenProperties, AppendProperties
<1>2. IsFiniteSet(A) /\ Cardinality(A) \in Nat /\ Count(s, w) = Cardinality(A)
  BY CountNat DEF Count
<1>3. Count(more, w) = Cardinality(B)
  BY DEF Count
<1>. HIDE DEF more, n
<1>4. CASE w = x
  <2>1. B = A \cup {n + 1} /\ n + 1 \notin A
    BY <1>1, <1>4
  <2>. HIDE DEF A, B
  <2>2. Cardinality(B) = Cardinality(A) + 1
    BY <1>2, <2>1, FS_AddElement
  <2>. QED
    BY <1>2, <1>3, <1>4, <2>2 DEF more
<1>5. CASE w # x
  <2>1. A = B
    BY <1>1, <1>5
  <2>. HIDE DEF A, B
  <2>. QED
    BY <1>2, <1>3, <1>5, <2>1 DEF more
<1>. QED
  BY <1>4, <1>5

Counts(s) == [w \in Workers |-> Count(s, w)]

LEMMA SharesCounted ==
  ASSUME NEW s \in Seq(Workers)
  PROVE  SumFunction(Counts(s)) = Len(s)
<1>. DEFINE Q == {t \in Seq(Workers) : SumFunction(Counts(t)) = Len(t)}
<1>1. <<>> \in Q
  <2>1. <<>> \in Seq(Workers) /\ Len(<<>>) = 0
    BY EmptySeq
  <2>2. ASSUME NEW w \in Workers PROVE Count(<<>>, w) = 0
    <3>1. {i \in DOMAIN <<>> : <<>>[i] = w} = {}
      OBVIOUS
    <3>. QED
      BY <3>1, FS_EmptySet DEF Count
  <2>3. Counts(<<>>) = [w \in Workers |-> 0]
    BY <2>2 DEF Counts
  <2>4. SumFunction([w \in Workers |-> 0]) = 0
    BY WorkersAssumption, SumFunctionZero
  <2>5. SumFunction(Counts(<<>>)) = Len(<<>>)
    BY <2>1, <2>3, <2>4, Zenon
  <2>. QED
    BY <2>1, <2>5, Zenon
<1>2. ASSUME NEW t \in Seq(Workers), NEW x \in Workers, t \in Q PROVE Append(t, x) \in Q
  <2>. DEFINE u == Append(t, x)
              e == [w \in Workers |-> IF w = x THEN 1 ELSE 0]
  <2>1. u \in Seq(Workers) /\ Len(t) \in Nat /\ Len(u) = Len(t) + 1
    BY LenProperties, AppendProperties
  <2>2. Counts(t) \in [Workers -> Int] /\ Counts(u) \in [Workers -> Int] /\ e \in [Workers -> Int]
    <3>. HIDE DEF u
    <3>1. ASSUME NEW w \in Workers PROVE Count(t, w) \in Nat /\ Count(u, w) \in Nat
      BY <2>1, CountNat
    <3>. QED
      BY <3>1 DEF Counts
  <2>3. \A w \in Workers : Counts(u)[w] = Counts(t)[w] + e[w]
    BY CountAppend DEF Counts
  <2>4. SumFunction(e) = 1
    BY WorkersAssumption, SumFunctionPoint
  <2>5. SumFunction(Counts(t)) = Len(t)
    BY <1>2
  <2>. HIDE DEF e, u
  <2>6. SumFunction(Counts(u)) = SumFunction(Counts(t)) + SumFunction(e)
    BY <2>2, <2>3, TotalPlus
  <2>7. SumFunction(Counts(u)) = Len(u)
    BY <2>1, <2>4, <2>5, <2>6
  <2>. QED
    BY <2>1, <2>7 DEF u
<1>3. Seq(Workers) \subseteq Q
  <2>. HIDE DEF Q
  <2>. QED
    BY <1>1, <1>2, AppendInduction
<1>. QED
  BY <1>3

\* What a block credits in all: no more than it pays, and less only by what
\* rounding leaves, under one unit a worker.
Credits(d, r) == [w \in Workers |-> Credit(d, r, w)]

LEMMA CreditsSum ==
  ASSUME NEW d \in Database, NEW r \in Rewards
  PROVE  /\ Credits(d, r) \in [Workers -> Nat]
         /\ SumFunction(Credits(d, r)) \in Nat
         /\ SumFunction(Credits(d, r)) <= Distributable(r)
         /\ d.shares # <<>>
              => SumFunction(Credits(d, r)) >= Distributable(r) - (Cardinality(Workers) - 1)
<1>. DEFINE D == Distributable(r)
            n == Cardinality(Workers)
            f == Credits(d, r)
            s == [w \in Workers |-> SharesOf(d, w)]
            l == Len(d.shares)
<1>1. D \in Nat /\ n \in Nat /\ d.shares \in Seq(Workers) /\ l \in Nat
  BY DistributableNat, WorkersAssumption, FS_CardinalityType, LenProperties DEF Database
<1>2. f \in [Workers -> Nat]
  BY CreditNat DEF Credits
<1>3. SumFunction(f) \in Nat
  BY <1>2, WorkersAssumption, SumFunctionNat
<1>4. CASE d.shares = <<>>
  <2>1. f = [w \in Workers |-> 0]
    BY <1>4 DEF Credits, Credit
  <2>2. SumFunction([w \in Workers |-> 0]) = 0
    BY WorkersAssumption, SumFunctionZero
  <2>3. SumFunction(f) = 0
    BY <2>1, <2>2, Zenon
  <2>. QED
    BY <1>1, <1>2, <1>4, <2>3
<1>5. CASE d.shares # <<>>
  <2>1. l > 0 /\ n > 0
    <3>1. l > 0
      BY <1>1, <1>5, EmptySeq
    <3>2. d.shares[1] \in Workers
      BY <1>1, <3>1, ElementOfSeq
    <3>3. n # 0
      BY <3>2, WorkersAssumption, FS_EmptySet
    <3>. QED
      BY <1>1, <3>1, <3>3
  <2>2. \A w \in Workers : s[w] \in Nat /\ s[w] = Count(d.shares, w)
    BY <1>1, CountNat DEF SharesOf, Count
  <2>3. SumFunction(s) = l
    <3>1. s = Counts(d.shares)
      BY <2>2 DEF Counts
    <3>. QED
      BY <1>1, <3>1, SharesCounted
  <2>4. \A w \in Workers : f[w] = (D * s[w]) \div l
    BY <1>5 DEF Credits, Credit
  <2>. HIDE DEF D, n, f, s, l
  <2>5. s \in [Workers -> Nat]
    BY <2>2 DEF s
  <2>6. /\ l * SumFunction(f) <= D * l
        /\ D * l <= l * SumFunction(f) + (l - 1) * n
    BY <1>1, <1>2, <2>1, <2>3, <2>4, <2>5, WorkersAssumption, SharesRounded DEF n
  <2>7. PICK c \in Nat : c = SumFunction(f)
    BY <1>3
  <2>8. c <= D /\ c >= D - (n - 1)
    BY <1>1, <2>1, <2>6, <2>7, SharedOut
  <2>. QED
    BY <1>2, <1>3, <2>7, <2>8 DEF D, n, f
<1>. QED
  BY <1>4, <1>5
-----------------------------------------------------------------------------
\* A handler goes on with the block it solved.
LEMMA HandlerGoesOn ==
  ASSUME NEW h \in HandlerState, h # Idle,
         NEW to \in {"solved", "accepted", "recorded", "credited", "saving"}
  PROVE  /\ [h EXCEPT !.pc = to] \in HandlerState
         /\ [h EXCEPT !.pc = to].pc = to
         /\ [h EXCEPT !.pc = to].job = h.job
         /\ h.job \in Job /\ h.job.reward \in Rewards
BY DEF HandlerState, Idle, Job

Earned(d) == SumFunction(d.earned)

LEMMA EarnedNat ==
  ASSUME NEW d \in Database
  PROVE  Earned(d) \in Nat
BY WorkersAssumption, SumFunctionNat DEF Database, Earned

LEMMA EarnedNothing == Earned(NewDatabase) = 0
<1>1. NewDatabase.earned = [w \in Workers |-> 0]
  BY DEF NewDatabase
<1>2. SumFunction([w \in Workers |-> 0]) = 0
  BY WorkersAssumption, SumFunctionZero
<1>. QED
  BY <1>1, <1>2, Zenon DEF Earned

LEMMA EarnedMore ==
  ASSUME NEW d \in Database, NEW r \in Rewards
  PROVE  Earned(DistributePPLNS(d, r)) = Earned(d) + SumFunction(Credits(d, r))
<1>. DEFINE e == DistributePPLNS(d, r)
<1>1. /\ d.earned \in [Workers -> Int] /\ e.earned \in [Workers -> Int]
      /\ Credits(d, r) \in [Workers -> Int]
  <2>1. e \in Database /\ Credits(d, r) \in [Workers -> Nat]
    BY DistributeType, CreditsSum
  <2>. HIDE DEF e
  <2>. QED
    BY <2>1 DEF Database
<1>2. \A w \in Workers : e.earned[w] = d.earned[w] + Credits(d, r)[w]
  BY DistributeType DEF Credits
<1>. HIDE DEF e
<1>3. SumFunction(e.earned) = SumFunction(d.earned) + SumFunction(Credits(d, r))
  BY <1>1, <1>2, TotalPlus
<1>. QED
  BY <1>3 DEF e, Earned

\* What an accepted block is still to credit.
OwedBy(h) == IF h.pc \in {"accepted", "recorded"} THEN Distributable(h.job.reward) ELSE 0

Owed(hs) == [w \in Workers |-> OwedBy(hs[w])]

LEMMA OwedNat ==
  ASSUME NEW h \in HandlerState
  PROVE  OwedBy(h) \in Nat
<1>1. h.pc \in {"accepted", "recorded"} => h.job.reward \in Rewards
  BY DEF HandlerState, Idle, Job
<1>. QED
  BY <1>1, DistributableNat DEF OwedBy

LEMMA OwedType ==
  ASSUME NEW hs \in [Workers -> HandlerState]
  PROVE  Owed(hs) \in [Workers -> Nat] /\ SumFunction(Owed(hs)) \in Nat
<1>1. Owed(hs) \in [Workers -> Nat]
  BY OwedNat DEF Owed
<1>. QED
  BY <1>1, WorkersAssumption, SumFunctionNat

LEMMA OwedChange ==
  ASSUME NEW hs \in [Workers -> HandlerState], NEW w \in Workers, NEW h \in HandlerState
  PROVE  SumFunction(Owed([hs EXCEPT ![w] = h])) = SumFunction(Owed(hs)) + OwedBy(h) - OwedBy(hs[w])
<1>. DEFINE f == Owed(hs)
            g == Owed([hs EXCEPT ![w] = h])
<1>1. f \in [Workers -> Int] /\ g \in [Workers -> Int]
  <2>1. [hs EXCEPT ![w] = h] \in [Workers -> HandlerState]
    OBVIOUS
  <2>2. f \in [Workers -> Nat] /\ g \in [Workers -> Nat]
    BY <2>1, OwedType
  <2>. HIDE DEF f, g
  <2>. QED
    BY <2>2
<1>2. /\ \A v \in Workers \ {w} : g[v] = f[v]
      /\ g[w] = OwedBy(h) /\ f[w] = OwedBy(hs[w])
  BY DEF Owed
<1>. HIDE DEF f, g
<1>3. SumFunction(g) = SumFunction(f) + g[w] - f[w]
  BY <1>1, <1>2, WorkersAssumption, SumFunctionChange
<1>. QED
  BY <1>2, <1>3 DEF f, g

LEMMA OwedIdle ==
  ASSUME NEW hs \in [Workers -> HandlerState], \A w \in Workers : hs[w] = Idle
  PROVE  SumFunction(Owed(hs)) = 0
<1>1. Owed(hs) = [w \in Workers |-> 0]
  BY DEF Owed, OwedBy, Idle
<1>2. SumFunction([w \in Workers |-> 0]) = 0
  BY WorkersAssumption, SumFunctionZero
<1>. QED
  BY <1>1, <1>2, Zenon

\* What was earned and what accepted blocks are still to credit, the blocks
\* pay; what was earned in a database that was saved, they paid.
EarningsBacked ==
    /\ Earned(db) + SumFunction(Owed(handler)) <= backed
    /\ \A s \in Savers : save[s] # Idle => Earned(save[s].data) <= backed
    /\ file \notin {NoFile, Broken} => Earned(file.data) <= backed

LEMMA SavedTypes ==
  ASSUME TypeOK
  PROVE  /\ \A s \in Savers : save[s] # Idle => save[s].data \in Database
         /\ file \notin {NoFile, Broken} => file.data \in Database
<1>1. save \in [Savers -> Save] /\ file \in File
  BY DEF TypeOK
<1>. QED
  BY <1>1 DEF Save, File

LEMMA BackedNext ==
  TypeOK /\ TypeOK' /\ Quiet /\ EarningsBacked /\ [Next]_vars => EarningsBacked'
<1>. SUFFICES ASSUME TypeOK, TypeOK', Quiet, EarningsBacked, [Next]_vars
              PROVE  EarningsBacked'
  OBVIOUS
<1>0. /\ handler \in [Workers -> HandlerState] /\ handler' \in [Workers -> HandlerState]
      /\ db \in Database /\ db' \in Database /\ backed \in Nat /\ backed' \in Nat
      /\ save \in [Savers -> Save] /\ file \in File
      /\ Earned(db) \in Nat /\ Earned(db') \in Nat
      /\ SumFunction(Owed(handler)) \in Nat
      /\ Earned(db) + SumFunction(Owed(handler)) <= backed
  BY EarnedNat, OwedType DEF TypeOK, EarningsBacked
\* Steps that leave the saves and the file alone.
<1>1. ASSUME UNCHANGED <<save, file>>, backed' >= backed,
             Earned(db') + SumFunction(Owed(handler')) <= backed'
      PROVE  EarningsBacked'
  <2>1. ASSUME NEW s \in Savers, save'[s] # Idle PROVE Earned(save'[s].data) <= backed'
    <3>1. save[s] # Idle /\ save'[s] = save[s]
      BY <1>1, <2>1
    <3>2. Earned(save[s].data) \in Nat /\ Earned(save[s].data) <= backed
      BY <3>1, SavedTypes, EarnedNat DEF EarningsBacked
    <3>. QED
      BY <1>0, <1>1, <3>1, <3>2
  <2>2. ASSUME file' \notin {NoFile, Broken} PROVE Earned(file'.data) <= backed'
    <3>1. file \notin {NoFile, Broken} /\ file' = file
      BY <1>1, <2>2
    <3>2. Earned(file.data) \in Nat /\ Earned(file.data) <= backed
      BY <3>1, SavedTypes, EarnedNat DEF EarningsBacked
    <3>. QED
      BY <1>0, <1>1, <3>1, <3>2
  <2>. QED
    BY <1>1, <2>1, <2>2 DEF EarningsBacked
<1>2. ASSUME UNCHANGED <<save, file, backed, handler>>, db'.earned = db.earned
      PROVE  EarningsBacked'
  <2>1. Earned(db') = Earned(db)
    BY <1>2 DEF Earned
  <2>2. backed' >= backed /\ Earned(db') + SumFunction(Owed(handler')) <= backed'
    BY <1>0, <1>2, <2>1
  <2>. QED
    BY <1>1, <1>2, <2>2
<1>3. ASSUME NEW r \in Rewards, FetchWork(r) PROVE EarningsBacked'
  BY <1>2, <1>3 DEF FetchWork, history
<1>4. ASSUME NEW w \in Workers, NEW solves \in BOOLEAN, HandleSubmit(w, solves)
      PROVE  EarningsBacked'
  <2>1. PICK h : handler' = [handler EXCEPT ![w] = h] /\ (h = Idle \/ h.pc = "solved")
    BY <1>4 DEF HandleSubmit
  <2>2. /\ UNCHANGED <<save, file, backed>> /\ db' = RecordShare(db, w) /\ handler[w] = Idle
    BY <1>4 DEF HandleSubmit, history
  <2>3. h \in HandlerState /\ OwedBy(h) = 0 /\ OwedBy(handler[w]) = 0
    BY <1>0, <2>1, <2>2 DEF OwedBy, Idle
  <2>4. SumFunction(Owed(handler')) = SumFunction(Owed(handler))
    <3>1. SumFunction(Owed([handler EXCEPT ![w] = h]))
            = SumFunction(Owed(handler)) + OwedBy(h) - OwedBy(handler[w])
      BY <1>0, <2>3, OwedChange
    <3>. QED
      BY <1>0, <2>1, <2>3, <3>1
  <2>5. Earned(db') = Earned(db)
    BY <1>0, <2>2, RecordTypes DEF Earned
  <2>6. Earned(db') + SumFunction(Owed(handler')) <= backed' /\ backed' >= backed
    BY <1>0, <2>2, <2>4, <2>5
  <2>. QED
    BY <1>1, <2>2, <2>6
<1>5. ASSUME NEW w \in Workers, NEW sameSecond \in BOOLEAN, NEW answered \in BOOLEAN,
             SubmitBlock(w, sameSecond, answered)
      PROVE  EarningsBacked'
  <2>. DEFINE pays == Distributable(handler[w].job.reward)
              h == handler'[w]
  <2>1. handler[w] \in HandlerState /\ handler[w] # Idle /\ handler[w].pc = "solved"
    BY <1>0, <1>5 DEF SubmitBlock, Idle
  <2>2. pays \in Nat
    BY <2>1, HandlerGoesOn, DistributableNat
  <2>3. /\ \/ backed' = backed /\ h = Idle
           \/ backed' = backed + pays /\ h \in {Idle, [handler[w] EXCEPT !.pc = "accepted"]}
        /\ handler' = [handler EXCEPT ![w] = h]
        /\ UNCHANGED <<save, file, db>>
    BY <1>0, <1>5 DEF SubmitBlock
  <2>4. /\ OwedBy(handler[w]) = 0 /\ OwedBy(Idle) = 0
        /\ OwedBy([handler[w] EXCEPT !.pc = "accepted"]) = pays
    BY <2>1, HandlerGoesOn DEF OwedBy, Idle
  <2>5. h \in HandlerState
    BY <1>0
  <2>. HIDE DEF pays, h
  <2>6. SumFunction(Owed(handler')) = SumFunction(Owed(handler)) + OwedBy(h)
    <3>1. OwedBy(h) \in Nat
      BY <2>5, OwedNat
    <3>2. SumFunction(Owed([handler EXCEPT ![w] = h]))
            = SumFunction(Owed(handler)) + OwedBy(h) - OwedBy(handler[w])
      BY <1>0, <2>5, OwedChange
    <3>. QED
      BY <1>0, <2>3, <2>4, <3>1, <3>2
  <2>7. Earned(db') + SumFunction(Owed(handler')) <= backed' /\ backed' >= backed
    <3>1. CASE backed' = backed /\ h = Idle
      BY <1>0, <2>3, <2>4, <2>6, <3>1
    <3>2. CASE backed' = backed + pays /\ h \in {Idle, [handler[w] EXCEPT !.pc = "accepted"]}
      <4>1. OwedBy(h) \in {0, pays}
        BY <2>4, <3>2
      <4>. QED
        BY <1>0, <2>2, <2>3, <2>6, <3>2, <4>1
    <3>. QED
      BY <2>3, <3>1, <3>2
  <2>. QED
    BY <1>1, <2>3, <2>7
<1>6. ASSUME NEW w \in Workers, NEW from \in {"accepted", "recorded", "credited"},
             NEW to \in {"recorded", "credited", "saving"}, NEW d \in Database,
             AfterBlock(w, from, to, d),
             Earned(d) + OwedBy([handler[w] EXCEPT !.pc = to]) <= Earned(db) + OwedBy(handler[w])
      PROVE  EarningsBacked'
  <2>. DEFINE h == [handler[w] EXCEPT !.pc = to]
  <2>1. /\ db' = d /\ UNCHANGED <<save, file, backed>> /\ handler' = [handler EXCEPT ![w] = h]
        /\ handler[w] \in HandlerState /\ handler[w] # Idle
    BY <1>0, <1>6 DEF AfterBlock, Idle, history
  <2>2. h \in HandlerState
    BY <2>1, HandlerGoesOn
  <2>3. Earned(d) + OwedBy(h) <= Earned(db) + OwedBy(handler[w])
    BY <1>6
  <2>. HIDE DEF h
  <2>4. OwedBy(h) \in Nat /\ OwedBy(handler[w]) \in Nat
    BY <2>1, <2>2, OwedNat
  <2>5. SumFunction(Owed(handler')) = SumFunction(Owed(handler)) + OwedBy(h) - OwedBy(handler[w])
    BY <1>0, <2>1, <2>2, OwedChange
  <2>6. Earned(db') + SumFunction(Owed(handler')) <= backed' /\ backed' >= backed
    BY <1>0, <2>1, <2>3, <2>4, <2>5
  <2>. QED
    BY <1>1, <2>1, <2>6
<1>7. ASSUME NEW w \in Workers, RecordsBlock(w) \/ CreditsBlock(w) \/ PrunesShares(w)
      PROVE  EarningsBacked'
  <2>. DEFINE r == handler[w].job.reward
  <2>1. handler[w] \in HandlerState /\ handler[w] # Idle /\ r \in Rewards
    <3>1. handler[w].pc \in {"accepted", "recorded", "credited"}
      BY <1>7 DEF RecordsBlock, CreditsBlock, PrunesShares, AfterBlock
    <3>2. handler[w] \in HandlerState /\ handler[w] # Idle
      BY <1>0, <3>1 DEF Idle
    <3>. QED
      BY <1>0, <3>2, HandlerFields DEF Job
  <2>2. Distributable(r) \in Nat
    BY <2>1, DistributableNat
  <2>3. /\ OwedBy([handler[w] EXCEPT !.pc = "recorded"]) = Distributable(r)
        /\ OwedBy([handler[w] EXCEPT !.pc = "credited"]) = 0
        /\ OwedBy([handler[w] EXCEPT !.pc = "saving"]) = 0
    BY <2>1, HandlerGoesOn DEF OwedBy
  <2>4. CASE RecordsBlock(w)
    <3>1. RecordBlock(db, r) \in Database /\ Earned(RecordBlock(db, r)) = Earned(db)
      BY <1>0, <2>1, RecordTypes DEF Earned
    <3>2. OwedBy(handler[w]) = Distributable(r)
      BY <2>4 DEF RecordsBlock, AfterBlock, OwedBy
    <3>3. AfterBlock(w, "accepted", "recorded", RecordBlock(db, r))
      BY <2>4 DEF RecordsBlock
    <3>4. Earned(RecordBlock(db, r)) + OwedBy([handler[w] EXCEPT !.pc = "recorded"])
            <= Earned(db) + OwedBy(handler[w])
      BY <1>0, <2>2, <2>3, <3>1, <3>2
    <3>. HIDE DEF r
    <3>. QED
      BY <1>6, <3>1, <3>3, <3>4
  <2>5. CASE CreditsBlock(w)
    <3>1. /\ DistributePPLNS(db, r) \in Database
          /\ Earned(DistributePPLNS(db, r)) = Earned(db) + SumFunction(Credits(db, r))
      BY <1>0, <2>1, DistributeType, EarnedMore
    <3>2. SumFunction(Credits(db, r)) \in Nat /\ SumFunction(Credits(db, r)) <= Distributable(r)
      BY <1>0, <2>1, CreditsSum
    <3>3. OwedBy(handler[w]) = Distributable(r)
      BY <2>5 DEF CreditsBlock, AfterBlock, OwedBy
    <3>4. AfterBlock(w, "recorded", "credited", DistributePPLNS(db, r))
      BY <2>5 DEF CreditsBlock
    <3>5. Earned(DistributePPLNS(db, r)) + OwedBy([handler[w] EXCEPT !.pc = "credited"])
            <= Earned(db) + OwedBy(handler[w])
      BY <1>0, <2>2, <2>3, <3>1, <3>2, <3>3
    <3>. HIDE DEF r
    <3>. QED
      BY <1>6, <3>1, <3>4, <3>5
  <2>6. CASE PrunesShares(w)
    <3>. DEFINE d == PruneShareWindow(db, GetPPLNSWindowSize(BlockBits, ShareBits))
    <3>1. d \in Database /\ Earned(d) = Earned(db)
      BY <1>0, PruneType, WindowSizeNat DEF Earned
    <3>2. OwedBy(handler[w]) = 0
      BY <2>6 DEF PrunesShares, AfterBlock, OwedBy
    <3>3. AfterBlock(w, "credited", "saving", d)
      BY <2>6 DEF PrunesShares
    <3>. HIDE DEF d
    <3>4. Earned(d) + OwedBy([handler[w] EXCEPT !.pc = "saving"]) <= Earned(db) + OwedBy(handler[w])
      BY <1>0, <2>3, <3>1, <3>2
    <3>. QED
      BY <1>6, <3>1, <3>3, <3>4
  <2>. QED
    BY <1>7, <2>4, <2>5, <2>6
<1>8. CASE StartPayouts
  BY <1>2, <1>8 DEF StartPayouts, history
<1>9. ASSUME NEW p \in payout.todo, NEW accepted \in BOOLEAN, SendPayout(p, accepted)
      PROVE  EarningsBacked'
  BY <1>2, <1>9 DEF SendPayout
<1>10. CASE RecordsPayout
  <2>1. payout.payee \in Payee
    BY <1>10, PayoutFields DEF RecordsPayout, TypeOK
  <2>2. db'.earned = db.earned
    BY <1>0, <1>10, <2>1, RecordPayoutType DEF RecordsPayout
  <2>. QED
    BY <1>2, <1>10, <2>2 DEF RecordsPayout, history
<1>11. ASSUME NEW s \in Savers, BeginSave(s) PROVE EarningsBacked'
  <2>1. save' = Begun(save, s, db) /\ UNCHANGED <<db, handler, file, backed>>
    BY <1>11 DEF BeginSave, history
  <2>2. ASSUME NEW t \in Savers, save'[t] # Idle PROVE Earned(save'[t].data) <= backed
    <3>1. CASE t = s
      <4>1. save'[t].data = db
        BY <1>0, <2>1, <3>1 DEF Begun, Saving
      <4>. QED
        BY <1>0, <4>1
    <3>2. CASE t # s
      <4>1. save[t] # Idle /\ save'[t].data = save[t].data
        BY <1>0, <2>1, <2>2, <3>2 DEF Begun, Saving
      <4>. QED
        BY <4>1 DEF EarningsBacked
    <3>. QED
      BY <3>1, <3>2
  <2>. QED
    BY <1>0, <2>1, <2>2 DEF EarningsBacked
<1>12. ASSUME UNCHANGED <<db, backed>>, SumFunction(Owed(handler')) <= SumFunction(Owed(handler)),
              \A t \in Savers : save'[t] # Idle => save[t] # Idle /\ save'[t] = save[t],
              \/ file' \in {file, Broken}
              \/ \E t \in Savers : save[t] # Idle /\ file' = Whole(save[t].data)
       PROVE  EarningsBacked'
  <2>1. SumFunction(Owed(handler')) \in Nat
    BY <1>0, OwedType
  <2>2. Earned(db') + SumFunction(Owed(handler')) <= backed'
    BY <1>0, <1>12, <2>1
  <2>3. file' \notin {NoFile, Broken} => Earned(file'.data) <= backed'
    BY <1>12 DEF EarningsBacked, Whole
  <2>. QED
    BY <1>12, <2>2, <2>3 DEF EarningsBacked
<1>13. CASE SavesCollide
  <2>1. file' \in Disturbed(save, file) /\ UNCHANGED <<db, handler, save, backed>>
    BY <1>13 DEF SavesCollide, history
  <2>2. \/ file' \in {file, Broken}
        \/ \E s \in Savers : save[s] # Idle /\ file' = Whole(save[s].data)
    BY <1>0, <2>1 DEF Disturbed
  <2>3. SumFunction(Owed(handler')) <= SumFunction(Owed(handler))
    BY <1>0, <2>1
  <2>. QED
    BY <1>12, <2>1, <2>2, <2>3
<1>14. ASSUME NEW s \in Savers, NEW saved \in BOOLEAN, EndSave(s, saved) PROVE EarningsBacked'
  <2>1. /\ save[s] # Idle /\ file' \in Outcomes(save, s, saved, file)
        /\ save' = Ended(save, s) /\ UNCHANGED <<db, backed>>
    BY <1>14 DEF EndSave
  <2>2. \/ file' \in {file, Broken}
        \/ \E t \in Savers : save[t] # Idle /\ file' = Whole(save[t].data)
    BY <1>0, <2>1 DEF Outcomes, Disturbed
  <2>3. \A t \in Savers : save'[t] # Idle => save[t] # Idle /\ save'[t] = save[t]
    BY <1>0, <2>1 DEF Ended
  <2>4. SumFunction(Owed(handler')) <= SumFunction(Owed(handler))
    <3>1. CASE s \in Workers
      <4>1. handler' = [handler EXCEPT ![s] = Idle] /\ Idle \in HandlerState
        BY <1>14, <3>1 DEF EndSave, HandlerState
      <4>2. SumFunction(Owed(handler')) = SumFunction(Owed(handler)) + OwedBy(Idle) - OwedBy(handler[s])
        BY <1>0, <3>1, <4>1, OwedChange
      <4>3. OwedBy(Idle) = 0 /\ OwedBy(handler[s]) \in Nat
        BY <1>0, <3>1, OwedNat DEF OwedBy, Idle
      <4>. QED
        BY <1>0, <4>2, <4>3
    <3>2. CASE s \notin Workers
      BY <1>0, <1>14, <3>2 DEF EndSave
    <3>. QED
      BY <3>1, <3>2
  <2>. QED
    BY <1>12, <2>1, <2>2, <2>3, <2>4
<1>15. CASE Shutdown
  BY <1>2, <1>15 DEF Shutdown, history
<1>16. CASE Crash
  <2>1. /\ db' = NewDatabase /\ UNCHANGED <<file, backed>>
        /\ \A w \in Workers : handler'[w] = Idle
        /\ \A s \in Savers : save'[s] = Idle
    BY <1>16 DEF Crash
  <2>2. Earned(db') = 0 /\ SumFunction(Owed(handler')) = 0
    BY <1>0, <2>1, EarnedNothing, OwedIdle
  <2>. QED
    BY <1>0, <2>1, <2>2 DEF EarningsBacked
<1>17. CASE Restart
  <2>1. /\ db' = Load /\ file # Broken /\ UNCHANGED <<save, file, handler, backed>>
        /\ \A w \in Workers : handler[w] = Idle
    BY <1>17 DEF Restart, Quiet
  <2>2. SumFunction(Owed(handler')) = 0
    BY <1>0, <2>1, OwedIdle
  <2>3. Earned(db') <= backed
    <3>1. CASE file = NoFile
      BY <1>0, <2>1, <3>1, EarnedNothing DEF Load
    <3>2. CASE file # NoFile
      BY <2>1, <3>2 DEF Load, EarningsBacked
    <3>. QED
      BY <3>1, <3>2
  <2>4. Earned(db') + SumFunction(Owed(handler')) <= backed' /\ backed' >= backed
    BY <1>0, <2>1, <2>2, <2>3
  <2>. QED
    BY <1>1, <2>1, <2>4
<1>18. CASE NodeAppends
  BY <1>2, <1>18 DEF NodeAppends, history
<1>19. CASE UNCHANGED vars
  BY <1>2, <1>19 DEF vars
<1>. QED
  BY <1>3, <1>4, <1>5, <1>7, <1>8, <1>9, <1>10, <1>11, <1>13, <1>14, <1>15, <1>16, <1>17, <1>18, <1>19
     DEF Next

\* Workers are never credited more in all than the blocks that the node
\* accepted pay, whatever answers are lost, however often the pool crashes, and
\* whichever of its saves a start loads.
THEOREM CreditsBackedCorrect == Spec => []CreditsBacked
<1>1. Init => EarningsBacked
  <2>. SUFFICES ASSUME Init PROVE EarningsBacked
    OBVIOUS
  <2>1. handler \in [Workers -> HandlerState] /\ \A w \in Workers : handler[w] = Idle
    BY DEF Init, HandlerState
  <2>2. SumFunction(Owed(handler)) = 0
    BY <2>1, OwedIdle
  <2>. QED
    BY <2>2, EarnedNothing DEF Init, EarningsBacked
<1>2. TypeOK /\ EarningsBacked => CreditsBacked
  <2>. SUFFICES ASSUME TypeOK, EarningsBacked PROVE CreditsBacked
    OBVIOUS
  <2>1. Earned(db) \in Nat /\ SumFunction(Owed(handler)) \in Nat /\ backed \in Nat
    BY EarnedNat, OwedType DEF TypeOK
  <2>2. Earned(db) <= backed
    BY <2>1 DEF EarningsBacked
  <2>. QED
    BY <2>2 DEF Earned, CreditsBacked
<1>. QED
  BY <1>1, <1>2, BackedNext, TypeCorrect, QuietAlways, PTL DEF Spec
-----------------------------------------------------------------------------
\* A handler with a block has recorded its share, and every window that is kept
\* has a share; it does not go on before its save has returned.
SharesKept ==
    \A w \in Workers :
        /\ handler[w] # Idle => db.shares # <<>>
        /\ save[w] # Idle => handler[w].pc = "saving"

LEMMA WindowSizePositive == GetPPLNSWindowSize(BlockBits, ShareBits) > 0
<1>1. BlockBits \in Nat /\ ShareBits \in Nat /\ MinWindow \in Nat \ {0} /\ MaxWindow \in Nat
      /\ MinWindow <= MaxWindow
  BY WindowAssumption DEF ShareBits
<1>2. CASE ShareBits = 0 \/ BlockBits = 0 \/ BlockBits <= ShareBits
  BY <1>1, <1>2 DEF GetPPLNSWindowSize
<1>3. CASE ~(ShareBits = 0 \/ BlockBits = 0 \/ BlockBits <= ShareBits)
  <2>1. BlockBits - ShareBits \in Nat
    BY <1>1, <1>3
  <2>2. Pow2(BlockBits - ShareBits) \in Nat
    BY <2>1, Pow2Positive
  <2>. QED
    BY <1>1, <1>3, <2>2 DEF GetPPLNSWindowSize
<1>. QED
  BY <1>2, <1>3

LEMMA PrunedNotEmpty ==
  ASSUME NEW d \in Database, d.shares # <<>>, NEW size \in Nat, size > 0
  PROVE  PruneShareWindow(d, size).shares # <<>>
<1>1. d.shares \in Seq(Workers) /\ Len(d.shares) \in Nat
  BY LenProperties DEF Database
<1>2. CASE Len(d.shares) <= size
  BY <1>2 DEF PruneShareWindow
<1>3. CASE ~(Len(d.shares) <= size)
  <2>. DEFINE s == SubSeq(d.shares, Len(d.shares) - size + 1, Len(d.shares))
  <2>1. Len(s) = size
    <3>1. /\ Len(d.shares) - size + 1 \in 1..(Len(d.shares) + 1)
          /\ Len(d.shares) \in (Len(d.shares) - size + 1 - 1)..Len(d.shares)
      BY <1>1, <1>3
    <3>2. Len(s) = Len(d.shares) - (Len(d.shares) - size + 1) + 1
      BY <1>1, <3>1, SubSeqProperties
    <3>. QED
      BY <1>1, <3>2
  <2>2. PruneShareWindow(d, size) = [d EXCEPT !.shares = s]
    BY <1>3 DEF PruneShareWindow, Database
  <2>. HIDE DEF s
  <2>3. s # <<>>
    BY <2>1, EmptySeq
  <2>. QED
    BY <2>2, <2>3 DEF Database
<1>. QED
  BY <1>2, <1>3

LEMMA SharesKeptAlways == Spec => []SharesKept
<1>1. Init => SharesKept
  BY DEF Init, SharesKept, Savers
<1>2. TypeOK /\ Quiet /\ SharesKept /\ [Next]_vars => SharesKept'
  <2>. SUFFICES ASSUME TypeOK, Quiet, SharesKept, [Next]_vars PROVE SharesKept'
    OBVIOUS
  <2>0. /\ save \in [Savers -> Save] /\ handler \in [Workers -> HandlerState] /\ db \in Database
        /\ Workers \subseteq Savers /\ "main" \notin Workers
    BY SaversAssumption DEF TypeOK, Savers
  <2>1. ASSUME UNCHANGED <<handler, save>>, db'.shares = db.shares PROVE SharesKept'
    BY <2>1 DEF SharesKept
  <2>2. ASSUME NEW r \in Rewards, FetchWork(r) PROVE SharesKept'
    BY <2>1, <2>2 DEF FetchWork
  <2>3. ASSUME NEW w \in Workers, NEW solves \in BOOLEAN, HandleSubmit(w, solves) PROVE SharesKept'
    <3>1. /\ db' = RecordShare(db, w) /\ save' = save /\ handler[w] = Idle
          /\ \A v \in Workers \ {w} : handler'[v] = handler[v]
      BY <2>0, <2>3 DEF HandleSubmit
    <3>2. db'.shares # <<>>
      <4>1. db.shares \in Seq(Workers) /\ db'.shares = Append(db.shares, w)
        BY <2>0, <3>1 DEF RecordShare, Database
      <4>. QED
        BY <4>1, AppendProperties, EmptySeq
    <3>3. save[w] = Idle
      BY <3>1 DEF SharesKept, Idle
    <3>. QED
      BY <3>1, <3>2, <3>3 DEF SharesKept
  <2>4. ASSUME NEW w \in Workers, handler[w] # Idle, save[w] = Idle, save' = save,
               \A v \in Workers \ {w} : handler'[v] = handler[v],
               db'.shares # <<>>
        PROVE  SharesKept'
    BY <2>4 DEF SharesKept
  <2>5. ASSUME NEW w \in Workers, NEW sameSecond \in BOOLEAN, NEW answered \in BOOLEAN,
               SubmitBlock(w, sameSecond, answered)
        PROVE  SharesKept'
    <3>1. /\ handler[w].pc = "solved" /\ save' = save /\ db' = db
          /\ \A v \in Workers \ {w} : handler'[v] = handler[v]
      BY <2>0, <2>5 DEF SubmitBlock
    <3>2. handler[w] # Idle /\ save[w] = Idle /\ db'.shares # <<>>
      BY <3>1 DEF SharesKept, Idle
    <3>. QED
      BY <2>4, <3>1, <3>2
  <2>6. ASSUME NEW w \in Workers, RecordsBlock(w) \/ CreditsBlock(w) \/ PrunesShares(w)
        PROVE  SharesKept'
    <3>1. /\ handler[w].pc \in {"accepted", "recorded", "credited"} /\ save' = save
          /\ \A v \in Workers \ {w} : handler'[v] = handler[v]
      BY <2>0, <2>6 DEF RecordsBlock, CreditsBlock, PrunesShares, AfterBlock
    <3>2. handler[w] # Idle /\ save[w] = Idle /\ db.shares # <<>>
      BY <3>1 DEF SharesKept, Idle
    <3>3. handler[w].job.reward \in Rewards
      BY <2>0, <3>2, HandlerFields DEF Job
    <3>4. db'.shares # <<>>
      <4>1. CASE RecordsBlock(w)
        BY <2>0, <3>2, <4>1 DEF RecordsBlock, AfterBlock, RecordBlock, Database
      <4>2. CASE CreditsBlock(w)
        BY <2>0, <3>2, <3>3, <4>2, DistributeType DEF CreditsBlock, AfterBlock
      <4>3. CASE PrunesShares(w)
        BY <2>0, <3>2, <4>3, WindowSizeNat, WindowSizePositive, PrunedNotEmpty
           DEF PrunesShares, AfterBlock
      <4>. QED
        BY <2>6, <4>1, <4>2, <4>3
    <3>. QED
      BY <2>4, <3>1, <3>2, <3>4
  <2>7. CASE StartPayouts
    BY <2>1, <2>7 DEF StartPayouts
  <2>8. ASSUME NEW p \in payout.todo, NEW accepted \in BOOLEAN, SendPayout(p, accepted)
        PROVE  SharesKept'
    BY <2>1, <2>8 DEF SendPayout
  <2>9. CASE RecordsPayout
    <3>1. db'.shares = db.shares
      BY <2>0, <2>9 DEF RecordsPayout, RecordPayout, Database
    <3>. QED
      BY <2>1, <2>9, <3>1 DEF RecordsPayout
  <2>10. ASSUME NEW s \in Savers, BeginSave(s) PROVE SharesKept'
    <3>1. /\ UNCHANGED <<handler, db>> /\ save' = Begun(save, s, db) /\ Calls(s)
      BY <2>10 DEF BeginSave
    <3>2. ASSUME NEW w \in Workers, save'[w] # Idle PROVE handler[w].pc = "saving"
      <4>1. CASE w = s
        BY <3>1, <4>1, SaversAssumption DEF Calls
      <4>2. CASE w # s
        <5>1. save[w] # Idle
          BY <2>0, <3>1, <3>2, <4>2 DEF Begun
        <5>. QED
          BY <5>1 DEF SharesKept
      <4>. QED
        BY <4>1, <4>2
    <3>. QED
      BY <3>1, <3>2 DEF SharesKept
  <2>11. CASE SavesCollide
    BY <2>1, <2>11 DEF SavesCollide
  <2>12. ASSUME NEW s \in Savers, NEW saved \in BOOLEAN, EndSave(s, saved) PROVE SharesKept'
    <3>1. /\ db' = db /\ save' = [save EXCEPT ![s] = Idle]
          /\ handler' = IF s \in Workers THEN [handler EXCEPT ![s] = Idle] ELSE handler
      BY <2>12 DEF EndSave, Ended
    <3>. QED
      BY <2>0, <3>1 DEF SharesKept
  <2>13. CASE Shutdown
    BY <2>1, <2>13 DEF Shutdown
  <2>14. CASE Crash
    BY <2>0, <2>14 DEF Crash, SharesKept
  <2>15. CASE Restart
    BY <2>0, <2>15, SaversAssumption DEF Restart, Quiet, SharesKept
  <2>16. CASE NodeAppends
    BY <2>1, <2>16 DEF NodeAppends
  <2>17. CASE UNCHANGED vars
    BY <2>1, <2>17 DEF vars
  <2>. QED
    BY <2>2, <2>3, <2>5, <2>6, <2>7, <2>8, <2>9, <2>10, <2>11, <2>12, <2>13, <2>14, <2>15, <2>16, <2>17
       DEF Next
<1>. QED
  BY <1>1, <1>2, TypeCorrect, QuietAlways, PTL DEF Spec

\* What rounding may leave of a block.
Slack == Cardinality(Workers) - 1

LEMMA SlackInt == Slack \in Int
BY WorkersAssumption, FS_CardinalityType DEF Slack

\* The least that a recorded block is about to credit.
WaitingBy(h) == IF h.pc = "recorded" THEN Distributable(h.job.reward) - Slack ELSE 0

Waiting(hs) == [w \in Workers |-> WaitingBy(hs[w])]

LEMMA WaitingType ==
  ASSUME NEW hs \in [Workers -> HandlerState]
  PROVE  Waiting(hs) \in [Workers -> Int] /\ SumFunction(Waiting(hs)) \in Int
<1>1. ASSUME NEW w \in Workers PROVE WaitingBy(hs[w]) \in Int
  <2>1. hs[w].pc = "recorded" => hs[w].job.reward \in Rewards
    BY DEF HandlerState, Idle, Job
  <2>. QED
    BY <2>1, DistributableNat, SlackInt DEF WaitingBy
<1>2. Waiting(hs) \in [Workers -> Int]
  BY <1>1 DEF Waiting
<1>. QED
  BY <1>2, WorkersAssumption, SumFunctionInt

LEMMA WaitingChange ==
  ASSUME NEW hs \in [Workers -> HandlerState], NEW w \in Workers, NEW h \in HandlerState
  PROVE  SumFunction(Waiting([hs EXCEPT ![w] = h]))
           = SumFunction(Waiting(hs)) + WaitingBy(h) - WaitingBy(hs[w])
<1>. DEFINE f == Waiting(hs)
            g == Waiting([hs EXCEPT ![w] = h])
<1>1. f \in [Workers -> Int] /\ g \in [Workers -> Int]
  <2>1. [hs EXCEPT ![w] = h] \in [Workers -> HandlerState]
    OBVIOUS
  <2>. QED
    BY <2>1, WaitingType
<1>2. /\ \A v \in Workers \ {w} : g[v] = f[v]
      /\ g[w] = WaitingBy(h) /\ f[w] = WaitingBy(hs[w])
  BY DEF Waiting
<1>. HIDE DEF f, g
<1>3. SumFunction(g) = SumFunction(f) + g[w] - f[w]
  BY <1>1, <1>2, WorkersAssumption, SumFunctionChange
<1>. QED
  BY <1>2, <1>3 DEF f, g

LEMMA NobodyWaits ==
  ASSUME NEW hs \in [Workers -> HandlerState], \A w \in Workers : hs[w].pc # "recorded"
  PROVE  SumFunction(Waiting(hs)) = 0
<1>1. Waiting(hs) = [w \in Workers |-> 0]
  BY DEF Waiting, WaitingBy
<1>2. SumFunction([w \in Workers |-> 0]) = 0
  BY WorkersAssumption, SumFunctionZero
<1>. QED
  BY <1>1, <1>2, Zenon

\* What the recorded blocks are to credit.
Due(d) == SumSeq([i \in DOMAIN d.blocks |-> Distributable(d.blocks[i])])

LEMMA DueInt ==
  ASSUME NEW d \in Database
  PROVE  Due(d) \in Int /\ Len(d.blocks) \in Nat
<1>. DEFINE u == [i \in DOMAIN d.blocks |-> Distributable(d.blocks[i])]
<1>1. /\ Len(d.blocks) \in Nat /\ DOMAIN d.blocks = 1..Len(d.blocks)
      /\ \A i \in 1..Len(d.blocks) : d.blocks[i] \in Rewards
  BY LenProperties DEF Database
<1>2. \A i \in 1..Len(d.blocks) : Distributable(d.blocks[i]) \in Int
  BY <1>1, DistributableNat
<1>3. u \in Seq(Int)
  BY <1>1, <1>2
<1>. HIDE DEF u
<1>4. SumSeq(u) \in Int
  BY <1>3, SumInt
<1>. QED
  BY <1>1, <1>4 DEF u, Due

LEMMA DueAppend ==
  ASSUME NEW d \in Database, NEW r \in Rewards
  PROVE  /\ Due(RecordBlock(d, r)) = Due(d) + Distributable(r)
         /\ Len(RecordBlock(d, r).blocks) = Len(d.blocks) + 1
<1>. DEFINE n == Len(d.blocks)
            more == Append(d.blocks, r)
            u == [i \in DOMAIN d.blocks |-> Distributable(d.blocks[i])]
            v == [i \in DOMAIN more |-> Distributable(more[i])]
<1>1. d.blocks \in Seq(Rewards) /\ RecordBlock(d, r).blocks = more
  BY DEF Database, RecordBlock
<1>2. /\ n \in Nat /\ DOMAIN d.blocks = 1..n /\ Len(more) = n + 1 /\ DOMAIN more = 1..(n + 1)
      /\ \A i \in 1..n : more[i] = d.blocks[i] /\ d.blocks[i] \in Rewards
      /\ more[n + 1] = r
  BY <1>1, LenProperties, AppendProperties
<1>. HIDE DEF n, more
<1>3. \A i \in 1..n : Distributable(d.blocks[i]) \in Int
  BY <1>2, DistributableNat
<1>4. \A i \in 1..(n + 1) : Distributable(more[i]) \in Int
  BY <1>2, <1>3, DistributableNat
<1>5. u \in Seq(Int) /\ Len(u) = n /\ v \in Seq(Int) /\ Len(v) = n + 1
  BY <1>2, <1>3, <1>4
<1>6. (\A i \in 1..n : v[i] = u[i]) /\ v[n + 1] = Distributable(r)
  BY <1>2
<1>7. SumSeq(u) = Due(d) /\ SumSeq(v) = Due(RecordBlock(d, r))
  BY <1>1 DEF Due
<1>. HIDE DEF u, v
<1>8. SumSeq(v) = SumSeq(u) + v[n + 1]
  BY <1>5, <1>6, SumLonger
<1>. QED
  BY <1>1, <1>2, <1>6, <1>7, <1>8 DEF n
-----------------------------------------------------------------------------
\* Until a crash, what recorded blocks have not credited is what rounding left
\* and what handlers are about to credit.
RewardsCredited ==
    ~crashed =>
        /\ mode # "down"
        /\ Due(db) - Earned(db) <= Len(db.blocks) * Slack + SumFunction(Waiting(handler))

LEMMA CreditedNext ==
  TypeOK /\ TypeOK' /\ Quiet /\ SharesKept /\ RewardsCredited /\ [Next]_vars => RewardsCredited'
<1>. SUFFICES ASSUME TypeOK, TypeOK', Quiet, SharesKept, RewardsCredited, [Next]_vars
              PROVE  RewardsCredited'
  OBVIOUS
<1>0. /\ handler \in [Workers -> HandlerState] /\ handler' \in [Workers -> HandlerState]
      /\ db \in Database /\ db' \in Database /\ Slack \in Int
      /\ Earned(db) \in Nat /\ Due(db) \in Int /\ Len(db.blocks) \in Nat
      /\ SumFunction(Waiting(handler)) \in Int
  BY EarnedNat, DueInt, SlackInt, WaitingType DEF TypeOK
<1>1. ASSUME crashed' = crashed, mode' # "down",
             db'.blocks = db.blocks, db'.earned = db.earned,
             SumFunction(Waiting(handler')) = SumFunction(Waiting(handler))
      PROVE  RewardsCredited'
  BY <1>1 DEF RewardsCredited, Due, Earned
<1>2. ASSUME UNCHANGED <<crashed, handler, db>>, mode' = mode PROVE RewardsCredited'
  BY <1>2 DEF RewardsCredited
<1>3. ASSUME NEW r \in Rewards, FetchWork(r) PROVE RewardsCredited'
  BY <1>2, <1>3 DEF FetchWork, history
\* A handler that neither had nor has a block to credit.
<1>4. ASSUME NEW w \in Workers, NEW h \in HandlerState, handler' = [handler EXCEPT ![w] = h],
             handler[w].pc # "recorded", h.pc # "recorded"
      PROVE  SumFunction(Waiting(handler')) = SumFunction(Waiting(handler))
  <2>1. WaitingBy(h) = 0 /\ WaitingBy(handler[w]) = 0
    BY <1>4 DEF WaitingBy
  <2>2. SumFunction(Waiting([handler EXCEPT ![w] = h]))
          = SumFunction(Waiting(handler)) + WaitingBy(h) - WaitingBy(handler[w])
    BY <1>0, WaitingChange
  <2>. QED
    BY <1>0, <1>4, <2>1, <2>2
<1>5. ASSUME NEW w \in Workers, NEW solves \in BOOLEAN, HandleSubmit(w, solves)
      PROVE  RewardsCredited'
  <2>1. PICK h : handler' = [handler EXCEPT ![w] = h] /\ (h = Idle \/ h.pc = "solved")
    BY <1>5 DEF HandleSubmit
  <2>2. /\ mode = "running" /\ mode' = mode /\ crashed' = crashed /\ db' = RecordShare(db, w)
        /\ handler[w] = Idle
    BY <1>5 DEF HandleSubmit, history
  <2>3. h \in HandlerState /\ h.pc # "recorded" /\ handler[w].pc # "recorded"
    BY <1>0, <2>1, <2>2 DEF Idle
  <2>4. SumFunction(Waiting(handler')) = SumFunction(Waiting(handler))
    BY <1>4, <2>1, <2>3
  <2>5. db'.blocks = db.blocks /\ db'.earned = db.earned
    BY <1>0, <2>2 DEF RecordShare, Database
  <2>. QED
    BY <1>1, <2>2, <2>4, <2>5
<1>6. ASSUME NEW w \in Workers, NEW sameSecond \in BOOLEAN, NEW answered \in BOOLEAN,
             SubmitBlock(w, sameSecond, answered)
      PROVE  RewardsCredited'
  <2>. DEFINE h == handler'[w]
  <2>1. /\ mode = "running" /\ mode' = mode /\ crashed' = crashed /\ db' = db
        /\ handler[w].pc = "solved"
        /\ handler' = [handler EXCEPT ![w] = h]
        /\ h \in {Idle, [handler[w] EXCEPT !.pc = "accepted"]}
    BY <1>0, <1>6 DEF SubmitBlock
  <2>2. handler[w] \in HandlerState /\ handler[w] # Idle
    BY <1>0, <2>1 DEF Idle
  <2>3. h \in HandlerState /\ h.pc # "recorded"
    <3>1. [handler[w] EXCEPT !.pc = "accepted"].pc = "accepted"
      BY <2>2, HandlerGoesOn
    <3>2. Idle.pc = "idle"
      BY DEF Idle
    <3>. HIDE DEF h
    <3>3. h \in HandlerState
      BY <1>0 DEF h
    <3>. QED
      BY <2>1, <3>1, <3>2, <3>3
  <2>. HIDE DEF h
  <2>4. SumFunction(Waiting(handler')) = SumFunction(Waiting(handler))
    BY <1>4, <2>1, <2>3
  <2>. QED
    BY <1>1, <2>1, <2>4
<1>7. ASSUME NEW w \in Workers, RecordsBlock(w) PROVE RewardsCredited'
  <2>. DEFINE r == handler[w].job.reward
              h == [handler[w] EXCEPT !.pc = "recorded"]
  <2>1. /\ mode = "running" /\ mode' = mode /\ crashed' = crashed /\ db' = RecordBlock(db, r)
        /\ handler[w].pc = "accepted" /\ handler' = [handler EXCEPT ![w] = h]
    BY <1>0, <1>7 DEF RecordsBlock, AfterBlock, history
  <2>2. handler[w] \in HandlerState /\ handler[w] # Idle
    BY <1>0, <2>1 DEF Idle
  <2>3. h \in HandlerState /\ h.pc = "recorded" /\ h.job = handler[w].job /\ r \in Rewards
    BY <2>2, HandlerGoesOn
  <2>4. Distributable(r) \in Nat
    BY <2>3, DistributableNat
  <2>5. WaitingBy(h) = Distributable(r) - Slack /\ WaitingBy(handler[w]) = 0
    BY <2>1, <2>3 DEF WaitingBy
  <2>6. /\ Due(db') = Due(db) + Distributable(r) /\ Len(db'.blocks) = Len(db.blocks) + 1
        /\ Earned(db') = Earned(db)
    BY <1>0, <2>1, <2>3, DueAppend, RecordTypes DEF Earned
  <2>. HIDE DEF r, h
  <2>7. SumFunction(Waiting(handler')) = SumFunction(Waiting(handler)) + Distributable(r) - Slack
    <3>1. SumFunction(Waiting([handler EXCEPT ![w] = h]))
            = SumFunction(Waiting(handler)) + WaitingBy(h) - WaitingBy(handler[w])
      BY <1>0, <2>3, WaitingChange
    <3>. QED
      BY <1>0, <2>1, <2>4, <2>5, <3>1
  <2>8. Len(db'.blocks) * Slack = Len(db.blocks) * Slack + Slack /\ Len(db.blocks) * Slack \in Int
    BY <1>0, <2>6
  <2>9. ASSUME ~crashed
        PROVE  Due(db') - Earned(db') <= Len(db'.blocks) * Slack + SumFunction(Waiting(handler'))
    <3>1. Due(db) - Earned(db) <= Len(db.blocks) * Slack + SumFunction(Waiting(handler))
      BY <2>9 DEF RewardsCredited
    <3>. QED
      BY <1>0, <2>4, <2>6, <2>7, <2>8, <3>1
  <2>. QED
    BY <2>1, <2>9 DEF RewardsCredited
<1>8. ASSUME NEW w \in Workers, CreditsBlock(w) PROVE RewardsCredited'
  <2>. DEFINE r == handler[w].job.reward
              h == [handler[w] EXCEPT !.pc = "credited"]
  <2>1. /\ mode = "running" /\ mode' = mode /\ crashed' = crashed /\ db' = DistributePPLNS(db, r)
        /\ handler[w].pc = "recorded" /\ handler' = [handler EXCEPT ![w] = h]
    BY <1>0, <1>8 DEF CreditsBlock, AfterBlock, history
  <2>2. handler[w] \in HandlerState /\ handler[w] # Idle
    BY <1>0, <2>1 DEF Idle
  <2>3. h \in HandlerState /\ h.pc = "credited" /\ r \in Rewards
    BY <2>2, HandlerGoesOn
  <2>4. Distributable(r) \in Nat
    BY <2>3, DistributableNat
  <2>5. WaitingBy(h) = 0 /\ WaitingBy(handler[w]) = Distributable(r) - Slack
    BY <2>1, <2>3 DEF WaitingBy
  <2>6. PICK c \in Nat : c = SumFunction(Credits(db, r)) /\ c >= Distributable(r) - Slack
    <3>1. db.shares # <<>>
      BY <2>2 DEF SharesKept
    <3>. QED
      BY <1>0, <2>3, <3>1, CreditsSum DEF Slack
  <2>7. /\ Due(db') = Due(db) /\ db'.blocks = db.blocks
        /\ Earned(db') = Earned(db) + c
    BY <1>0, <2>1, <2>3, <2>6, DistributeType, EarnedMore DEF Due
  <2>. HIDE DEF r, h
  <2>8. SumFunction(Waiting(handler')) = SumFunction(Waiting(handler)) - (Distributable(r) - Slack)
    <3>1. SumFunction(Waiting([handler EXCEPT ![w] = h]))
            = SumFunction(Waiting(handler)) + WaitingBy(h) - WaitingBy(handler[w])
      BY <1>0, <2>3, WaitingChange
    <3>. QED
      BY <1>0, <2>1, <2>4, <2>5, <3>1
  <2>9. Len(db.blocks) * Slack \in Int
    BY <1>0
  <2>10. ASSUME ~crashed
         PROVE  Due(db') - Earned(db') <= Len(db'.blocks) * Slack + SumFunction(Waiting(handler'))
    <3>1. Due(db) - Earned(db) <= Len(db.blocks) * Slack + SumFunction(Waiting(handler))
      BY <2>10 DEF RewardsCredited
    <3>. QED
      BY <1>0, <2>4, <2>6, <2>7, <2>8, <2>9, <3>1
  <2>. QED
    BY <2>1, <2>10 DEF RewardsCredited
<1>9. ASSUME NEW w \in Workers, PrunesShares(w) PROVE RewardsCredited'
  <2>. DEFINE h == [handler[w] EXCEPT !.pc = "saving"]
  <2>1. /\ mode = "running" /\ mode' = mode /\ crashed' = crashed
        /\ db' = PruneShareWindow(db, GetPPLNSWindowSize(BlockBits, ShareBits))
        /\ handler[w].pc = "credited" /\ handler' = [handler EXCEPT ![w] = h]
    BY <1>0, <1>9 DEF PrunesShares, AfterBlock, history
  <2>2. handler[w] \in HandlerState /\ handler[w] # Idle
    BY <1>0, <2>1 DEF Idle
  <2>3. h \in HandlerState /\ h.pc = "saving"
    BY <2>2, HandlerGoesOn
  <2>. HIDE DEF h
  <2>4. SumFunction(Waiting(handler')) = SumFunction(Waiting(handler))
    BY <1>4, <2>1, <2>3
  <2>5. db'.blocks = db.blocks /\ db'.earned = db.earned
    BY <1>0, <2>1, PruneType, WindowSizeNat
  <2>. QED
    BY <1>1, <2>1, <2>4, <2>5
<1>10. CASE StartPayouts
  BY <1>2, <1>10 DEF StartPayouts, history
<1>11. ASSUME NEW p \in payout.todo, NEW accepted \in BOOLEAN, SendPayout(p, accepted)
       PROVE  RewardsCredited'
  BY <1>2, <1>11 DEF SendPayout
<1>12. CASE RecordsPayout
  <2>1. /\ mode = "running" /\ UNCHANGED <<mode, crashed, handler>>
        /\ db' = RecordPayout(db, payout.payee)
    BY <1>12 DEF RecordsPayout, history
  <2>2. db'.blocks = db.blocks /\ db'.earned = db.earned
    BY <1>0, <2>1 DEF RecordPayout, Database
  <2>. QED
    BY <1>1, <2>1, <2>2
<1>13. ASSUME NEW s \in Savers, BeginSave(s) PROVE RewardsCredited'
  BY <1>2, <1>13 DEF BeginSave, history
<1>14. CASE SavesCollide
  BY <1>2, <1>14 DEF SavesCollide, history
<1>15. ASSUME NEW s \in Savers, NEW saved \in BOOLEAN, EndSave(s, saved) PROVE RewardsCredited'
  <2>1. db' = db /\ save[s] # Idle
    BY <1>15 DEF EndSave
  <2>2. SumFunction(Waiting(handler')) = SumFunction(Waiting(handler))
    <3>1. CASE s \in Workers
      <4>1. handler' = [handler EXCEPT ![s] = Idle] /\ Idle \in HandlerState
            /\ Idle.pc # "recorded" /\ handler[s].pc # "recorded"
        BY <1>15, <2>1, <3>1 DEF EndSave, HandlerState, SharesKept, Idle
      <4>. QED
        BY <1>4, <3>1, <4>1
    <3>2. CASE s \notin Workers
      BY <1>15, <3>2 DEF EndSave
    <3>. QED
      BY <3>1, <3>2
  <2>3. CASE s = "main" /\ ~saved
    BY <1>15, <2>3 DEF EndSave, RewardsCredited
  <2>4. CASE ~(s = "main" /\ ~saved)
    <3>1. crashed' = crashed /\ mode' \in {mode, "stopped"}
      BY <1>15, <2>4 DEF EndSave, TypeOK
    <3>2. CASE mode' = "down"
      <4>1. mode = "down" /\ crashed
        BY <3>1, <3>2 DEF RewardsCredited
      <4>. QED
        BY <3>1, <4>1 DEF RewardsCredited
    <3>3. CASE mode' # "down"
      BY <1>1, <2>1, <2>2, <3>1, <3>3
    <3>. QED
      BY <3>2, <3>3
  <2>. QED
    BY <2>3, <2>4
<1>16. CASE Shutdown
  BY <1>1, <1>16 DEF Shutdown, history
<1>17. CASE Crash
  BY <1>17 DEF Crash, RewardsCredited
<1>18. CASE Restart
  <2>1. /\ mode \in {"stopped", "down"} /\ mode' = "running" /\ db' = Load
        /\ UNCHANGED <<handler, crashed>>
    BY <1>18 DEF Restart
  <2>2. CASE mode = "down"
    BY <2>1, <2>2 DEF RewardsCredited
  <2>3. CASE mode = "stopped"
    <3>1. file = Whole(db) /\ file # NoFile
      BY <2>3 DEF Quiet, Whole, NoFile
    <3>2. db' = db
      BY <2>1, <3>1 DEF Load, Whole
    <3>. QED
      BY <1>1, <2>1, <3>2
  <2>. QED
    BY <2>1, <2>2, <2>3
<1>19. CASE NodeAppends
  BY <1>2, <1>19 DEF NodeAppends, history
<1>20. CASE UNCHANGED vars
  BY <1>2, <1>20 DEF vars
<1>. QED
  BY <1>3, <1>5, <1>6, <1>7, <1>8, <1>9, <1>10, <1>11, <1>12, <1>13, <1>14, <1>15, <1>16, <1>17, <1>18,
     <1>19, <1>20
     DEF Next

\* A recorded block is credited in full, up to less than one unit a worker that
\* rounding leaves, unless a handler is about to credit it or the pool crashed:
\* no share is lost or pruned away between the block and its credit, and a stop
\* by signal waits for every handler.
THEOREM BlocksCreditedCorrect == Spec => []BlocksCredited
<1>1. Init => RewardsCredited
  <2>. SUFFICES ASSUME Init PROVE RewardsCredited
    OBVIOUS
  <2>1. handler \in [Workers -> HandlerState] /\ \A w \in Workers : handler[w].pc # "recorded"
    BY DEF Init, HandlerState, Idle
  <2>2. SumFunction(Waiting(handler)) = 0 /\ Earned(db) = 0 /\ mode = "running"
    BY <2>1, NobodyWaits, EarnedNothing DEF Init
  <2>3. Due(db) = 0
    <3>1. [i \in DOMAIN <<>> |-> Distributable(<<>>[i])] = <<>>
      OBVIOUS
    <3>2. db.blocks = <<>>
      BY DEF Init, NewDatabase
    <3>. QED
      BY <3>1, <3>2, SumEmpty DEF Due
  <2>4. Len(db.blocks) = 0
    BY EmptySeq DEF Init, NewDatabase
  <2>5. 0 * Slack = 0
    BY SlackInt
  <2>. QED
    BY <2>2, <2>3, <2>4, <2>5 DEF RewardsCredited
<1>2. TypeOK /\ RewardsCredited => BlocksCredited
  <2>. SUFFICES ASSUME TypeOK, RewardsCredited, ~crashed,
                       \A w \in Workers : handler[w].pc # "recorded"
                PROVE  Due(db) - SumFunction(db.earned) <= Len(db.blocks) * Slack
    BY DEF BlocksCredited, Due, Slack
  <2>1. SumFunction(Waiting(handler)) = 0
    BY NobodyWaits DEF TypeOK
  <2>2. Len(db.blocks) * Slack \in Int
    BY DueInt, SlackInt DEF TypeOK
  <2>3. Due(db) - SumFunction(db.earned) <= Len(db.blocks) * Slack + SumFunction(Waiting(handler))
    BY DEF RewardsCredited, Earned
  <2>. QED
    BY <2>1, <2>2, <2>3
<1>. QED
  BY <1>1, <1>2, CreditedNext, TypeCorrect, QuietAlways, SharesKeptAlways, PTL DEF Spec
=============================================================================
