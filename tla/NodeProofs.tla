----------------------------- MODULE NodeProofs -----------------------------
(***************************************************************************)
(* Theorems about Node, for every value of its constants: types, the index *)
(* of mined transactions, no transaction twice, the balance cache, the     *)
(* work of the chain, the block files, the supply, and that no block of    *)
(* others leaves a sender in debt.                                         *)
(***************************************************************************)
EXTENDS Node, SumsProofs

-----------------------------------------------------------------------------
(* Types of the operators                                                  *)

LEMMA TxFields ==
  ASSUME NEW t \in TxType
  PROVE  /\ t.sig \in STRING
         /\ t.from \in Addr \cup {System} /\ t.to \in Addr \cup {System}
         /\ t.amount \in Nat /\ t.amount > 0 /\ t.fee \in Nat
         /\ Cost(t) = t.amount + t.fee /\ Cost(t) \in Nat
BY LimitAssumption DEF TxType, Cost

\* Division by a positive number.
LEMMA Division ==
  ASSUME NEW n \in Int, NEW d \in Nat \ {0}
  PROVE  /\ n % d \in 0..(d - 1)
         /\ n \div d \in Int
         /\ n = d * (n \div d) + (n % d)
OBVIOUS

LEMMA Remainder ==
  ASSUME NEW d \in Nat \ {0}, NEW q \in Int, NEW k \in 0..(d - 1)
  PROVE  (d * q + k) % d = k
OBVIOUS

\* The width of an int64.
Width == 2 * Int64Limit

LEMMA WidthNat == Width \in Nat \ {0}
BY LimitAssumption DEF Width

\* Wrapping yields an int64, which differs from the exact result by a multiple of
\* the width.
LEMMA Int64Range ==
  ASSUME NEW n \in Int
  PROVE  /\ Int64(n) \in Int /\ Int64(n) >= -Int64Limit /\ Int64(n) < Int64Limit
         /\ \E k \in Int : n = Int64(n) + Width * k
<1>. DEFINE m == n + Int64Limit
<1>1. m \in Int /\ Int64Limit \in Nat
  BY LimitAssumption
<1>2. m % Width \in 0..(Width - 1) /\ m \div Width \in Int
      /\ m = Width * (m \div Width) + (m % Width)
  BY <1>1, WidthNat, Division
<1>3. Int64(n) = (m % Width) - Int64Limit
  BY DEF Int64, Width
<1>4. Width = Int64Limit + Int64Limit /\ m - Int64Limit = n
  BY <1>1 DEF Width
<1>. DEFINE q == m \div Width
            r == m % Width
<1>5. r \in 0..(Width - 1) /\ q \in Int /\ m = Width * q + r /\ Int64(n) = r - Int64Limit
  BY <1>2, <1>3
<1>. HIDE DEF m, q, r
<1>6. Width * q \in Int
  BY <1>5, WidthNat
<1>7. Int64(n) \in Int /\ Int64(n) >= -Int64Limit /\ Int64(n) < Int64Limit
  BY <1>1, <1>4, <1>5
<1>8. n = Int64(n) + Width * q
  BY <1>1, <1>4, <1>5, <1>6
<1>. QED
  BY <1>5, <1>7, <1>8

LEMMA Int64Unique ==
  ASSUME NEW n \in Int, NEW i \in Int, i >= -Int64Limit, i < Int64Limit,
         NEW k \in Int, n = i + Width * k
  PROVE  Int64(n) = i
<1>. DEFINE j == i + Int64Limit
<1>1. Int64Limit \in Nat /\ Width = Int64Limit + Int64Limit /\ Width \in Nat \ {0}
  BY LimitAssumption, WidthNat DEF Width
<1>2. j \in 0..(Width - 1) /\ Width * k \in Int
  BY <1>1
<1>3. (Width * k + j) % Width = j
  BY <1>1, <1>2, Remainder
<1>4. n + Int64Limit = Width * k + j
  BY <1>1, <1>2
<1>5. Int64(n) = ((n + Int64Limit) % Width) - Int64Limit
  BY DEF Int64, Width
<1>. QED
  BY <1>1, <1>3, <1>4, <1>5

LEMMA Int64Fits ==
  ASSUME NEW n \in Int, n >= -Int64Limit, n < Int64Limit
  PROVE  Int64(n) = n
<1>1. n = n + Width * 0
  BY WidthNat
<1>. QED
  BY <1>1, Int64Unique

\* Results that differ by a multiple of the width wrap to the same.
LEMMA Int64Same ==
  ASSUME NEW n \in Int, NEW m \in Int, NEW k \in Int, m = n + Width * k
  PROVE  Int64(m) = Int64(n)
<1>1. PICK l \in Int : n = Int64(n) + Width * l
  BY Int64Range
<1>2. /\ Int64(n) \in Int /\ Int64(n) >= -Int64Limit /\ Int64(n) < Int64Limit
      /\ Width \in Nat
  BY Int64Range, WidthNat
<1>3. m = Int64(n) + Width * (l + k) /\ l + k \in Int
  BY <1>1, <1>2
<1>. QED
  BY <1>2, <1>3, Int64Unique

\* Nothing that is not below the least int64 wraps to more than itself.
LEMMA Int64Low ==
  ASSUME NEW n \in Int, n >= -Int64Limit
  PROVE  Int64(n) <= n
<1>1. PICK k \in Int : n = Int64(n) + Width * k
  BY Int64Range
<1>2. /\ Int64(n) \in Int /\ Int64(n) < Int64Limit
      /\ Int64Limit \in Nat /\ Width = Int64Limit + Int64Limit /\ Width \in Nat \ {0}
  BY Int64Range, LimitAssumption, WidthNat DEF Width
<1>3. k >= 0
  <2>. SUFFICES ASSUME k <= -1 PROVE FALSE
    OBVIOUS
  <2>1. Width * k <= -Width
    BY <1>2
  <2>. QED
    BY <1>1, <1>2, <2>1
<1>4. Width * k >= 0
  BY <1>2, <1>3
<1>. QED
  BY <1>1, <1>2, <1>4

LEMMA FeesNat ==
  ASSUME NEW txs \in Seq(TxType)
  PROVE  Fees(txs) \in Nat
<1>1. [i \in DOMAIN txs |-> txs[i].fee] \in Seq(Nat)
  BY TxFields
<1>. QED
  BY <1>1, SumNat DEF Fees

LEMMA RewardNat ==
  ASSUME NEW h \in Nat
  PROVE  BlockReward(h) \in Nat
<1>1. h \div HalvingInterval \in Nat
  BY RewardAssumption
<1>2. Halve(InitialReward, h \div HalvingInterval) \in Nat
  BY <1>1, RewardAssumption, HalveNat
<1>. QED
  BY <1>2 DEF BlockReward

LEMMA CoinbaseInt ==
  ASSUME NEW h \in Nat, NEW txs \in Seq(TxType)
  PROVE  CoinbaseOf(h, txs) \in Int /\ BlockReward(h) \in Int /\ Fees(txs) \in Int
<1>1. BlockReward(h) \in Nat /\ Fees(txs) \in Nat
  BY RewardNat, FeesNat
<1>. QED
  BY <1>1, Int64Range DEF CoinbaseOf

LEMMA NetInt ==
  ASSUME NEW txs \in Seq(TxType), NEW a
  PROVE  Net(txs, a) \in Int
<1>1. \A t \in TxType : Effect(t, a) \in Int
  BY TxFields DEF Effect
<1>2. [i \in DOMAIN txs |-> Effect(txs[i], a)] \in Seq(Int)
  BY <1>1
<1>. QED
  BY <1>2, SumInt DEF Net

LEMMA OwnsInt ==
  ASSUME NEW c \in Seq(Body), NEW a
  PROVE  Owns(c, a) \in Int
<1>1. \A b \in Body : Gain(b, a) \in Int
  BY NetInt DEF Gain, Body
<1>2. [i \in DOMAIN c |-> Gain(c[i], a)] \in Seq(Int)
  BY <1>1
<1>. QED
  BY <1>2, SumInt DEF Owns

LEMMA BalanceInt ==
  ASSUME NEW c \in Seq(Body), NEW a
  PROVE  Balance(c, a) \in Int
BY OwnsInt, Int64Range DEF Balance

LEMMA BodyOfType ==
  ASSUME NEW o \in PeerOffer, NEW h \in Nat
  PROVE  BodyOf(o, h) \in Body
<1>1. /\ o.miner \in Addr \cup {System} /\ o.sig \in STRING /\ o.bits \in Bits
      /\ o.stamp \in Bits /\ o.txs \in Seq(TxType) /\ o.extra \in Nat
  BY OfferAssumption DEF OfferType
<1>2. Int64(CoinbaseOf(h, o.txs) + o.extra) \in Int
  <2>1. CoinbaseOf(h, o.txs) + o.extra \in Int
    BY <1>1, CoinbaseInt
  <2>. QED
    BY <2>1, Int64Range
<1>. QED
  BY <1>1, <1>2 DEF BodyOf, Body

LEMMA WalletSigsType ==
  ASSUME NEW txs \in Seq(TxType)
  PROVE  WalletSigs(txs) \subseteq STRING
<1>1. \A t \in ToSet(txs) : t \in TxType
  BY DEF ToSet
<1>. QED
  BY <1>1, TxFields DEF WalletSigs, Sigs

LEMMA SigsOfType ==
  ASSUME NEW c \in Seq(Body)
  PROVE  SigsOf(c) \subseteq STRING
<1>1. ASSUME NEW i \in DOMAIN c PROVE WalletSigs(c[i].txs) \subseteq STRING
  <2>1. c[i] \in Body
    BY ElementOfSeq, LenProperties
  <2>. QED
    BY <2>1, WalletSigsType DEF Body
<1>. QED
  BY <1>1 DEF SigsOf

LEMMA ExpectedBitsType ==
  ASSUME NEW c \in Seq(Body)
  PROVE  ExpectedBits(c) \in Bits
<1>1. CASE c = <<>>
  BY <1>1, BitsAssumption DEF ExpectedBits
<1>2. CASE c # <<>>
  <2>1. c[Len(c)] \in Body
    BY <1>2, EmptySeq, LenProperties
  <2>. QED
    BY <1>2, <2>1 DEF ExpectedBits, Last, Body
<1>. QED
  BY <1>1, <1>2

LEMMA ListingsType ==
  ASSUME NEW S \in SUBSET Tx, IsFiniteSet(S), NEW s \in Listings(S)
  PROVE  /\ s \in Seq(TxType)
         /\ \A i, j \in DOMAIN s : s[i] = s[j] => i = j
         /\ ToSet(s) \subseteq S
<1>1. Cardinality(S) \in Nat
  BY FS_CardinalityType
<1>2. s \in [1..Cardinality(S) -> S] /\ S \subseteq TxType
  BY TxAssumption DEF Listings
<1>. QED
  BY <1>1, <1>2 DEF Listings, ToSet

LEMMA PeerSuffixType ==
  ASSUME NEW f \in 0..MaxHeight, NEW s \in PeerSuffix(f)
  PROVE  s \in Seq(Body) /\ Len(s) \in 1..(MaxHeight - f)
<1>0. PICK n \in 1..(MaxHeight - f) :
          s \in {[i \in 1..n |-> BodyOf(os[i], f + i)] : os \in [1..n -> PeerOffer]}
  BY DEF PeerSuffix
<1>1. PICK os \in [1..n -> PeerOffer] : s = [i \in 1..n |-> BodyOf(os[i], f + i)]
  BY <1>0
<1>2. n \in Nat /\ f \in Nat
  BY HeightAssumption
<1>3. \A i \in 1..n : BodyOf(os[i], f + i) \in Body
  BY <1>2, BodyOfType
<1>. QED
  BY <1>1, <1>2, <1>3

\* The chain a reorganisation builds is a chain, within the bound.
LEMMA ForkChainType ==
  ASSUME NEW f \in 0..Len(chain), chain \in Seq(Body), Len(chain) <= MaxHeight,
         NEW s \in PeerSuffix(f)
  PROVE  /\ ForkChain(f, s) \in Seq(Body)
         /\ Len(ForkChain(f, s)) = f + Len(s)
         /\ Len(ForkChain(f, s)) \in 1..MaxHeight
         /\ SubSeq(chain, 1, f) \in Seq(Body) /\ Len(SubSeq(chain, 1, f)) = f
         /\ s \in Seq(Body)
<1>1. f \in 0..MaxHeight /\ f \in Nat
  BY HeightAssumption
<1>2. s \in Seq(Body) /\ Len(s) \in 1..(MaxHeight - f)
  BY <1>1, PeerSuffixType
<1>3. SubSeq(chain, 1, f) \in Seq(Body) /\ Len(SubSeq(chain, 1, f)) = f
  BY <1>1, SubSeqProperties
<1>4. /\ SubSeq(chain, 1, f) \o s \in Seq(Body)
      /\ Len(SubSeq(chain, 1, f) \o s) = f + Len(s)
  BY <1>2, <1>3, ConcatProperties
<1>. QED
  BY <1>1, <1>2, <1>3, <1>4, HeightAssumption DEF ForkChain

LEMMA WantedForkType ==
  ASSUME NEW fork \in WantedForks, chain \in Seq(Body)
  PROVE  /\ fork.at \in 0..Len(chain)
         /\ fork.blocks \in PeerSuffix(fork.at)
         /\ ReorgWanted(fork.at, fork.blocks)
BY DEF WantedForks

\* d holds, at each height, no block or one of that height.
Files(d) ==
    /\ d \in [Height -> Seq(Body)]
    /\ \A i \in Height : d[i] # <<>> => Len(d[i]) = i

\* Writing blocks of a chain to the files of their heights keeps Files.
LEMMA PrefixFile ==
  ASSUME NEW c \in Seq(Body), NEW i \in 1..Len(c)
  PROVE  SubSeq(c, 1, i) \in Seq(Body) /\ Len(SubSeq(c, 1, i)) = i
BY SubSeqProperties

LEMMA WriteAllFiles ==
  ASSUME NEW d, Files(d), NEW c \in Seq(Body), NEW from \in Nat
  PROVE  Files(WriteAll(d, c, from))
<1>1. \A i \in Height : i \in Nat /\ i > 0
  BY HeightAssumption DEF Height
<1>2. \A i \in Height : i <= Len(c) =>
          SubSeq(c, 1, i) \in Seq(Body) /\ Len(SubSeq(c, 1, i)) = i
  BY <1>1, PrefixFile
<1>. QED
  BY <1>1, <1>2 DEF Files, WriteAll

LEMMA WriteSomeFiles ==
  ASSUME NEW d, Files(d), NEW c \in Seq(Body), NEW from \in Nat, NEW k \in Nat,
         from + k <= Len(c)
  PROVE  Files(WriteSome(d, c, from, k))
<1>1. \A i \in Height : i \in Nat /\ i > 0
  BY HeightAssumption DEF Height
<1>2. \A i \in Height : i <= Len(c) =>
          SubSeq(c, 1, i) \in Seq(Body) /\ Len(SubSeq(c, 1, i)) = i
  BY <1>1, PrefixFile
<1>. QED
  BY <1>1, <1>2 DEF Files, WriteSome

\* LoadChain returns the block of the last file up to which all files link.
LEMMA LoadDepth ==
  ASSUME NEW d
  PROVE  \E n \in 0..MaxHeight :
            /\ Linked(d, n)
            /\ n < MaxHeight => ~Linked(d, n + 1)
            /\ LoadChain(d) = IF n = 0 THEN <<>> ELSE d[n]
<1>. DEFINE Good(n) == Linked(d, n) /\ (n < MaxHeight => ~Linked(d, n + 1))
<1>1. \E n \in 0..MaxHeight : Good(n)
  <2>. DEFINE S == {n \in 0..MaxHeight : Linked(d, n)}
  <2>1. 0 \in S
    BY HeightAssumption DEF Linked
  <2>2. PICK n \in 0..MaxHeight : n \in S /\ (n < MaxHeight => n + 1 \notin S)
    <3>. HIDE DEF S
    <3>. QED
      BY <2>1, HeightAssumption, LastInside
  <2>. QED
    BY <2>2, HeightAssumption
<1>2. LET n == CHOOSE n \in 0..MaxHeight : Good(n)
      IN  n \in 0..MaxHeight /\ Good(n)
  BY <1>1
<1>. QED
  BY <1>2 DEF LoadChain

LEMMA LoadChainType ==
  ASSUME NEW d, Files(d)
  PROVE  LoadChain(d) \in Seq(Body) /\ Len(LoadChain(d)) <= MaxHeight
<1>1. PICK n \in 0..MaxHeight :
          Linked(d, n) /\ LoadChain(d) = IF n = 0 THEN <<>> ELSE d[n]
  BY LoadDepth
<1>2. CASE n = 0
  BY <1>1, <1>2, HeightAssumption
<1>3. CASE n # 0
  <2>1. n \in Height /\ n \in 1..n
    BY <1>3, HeightAssumption DEF Height
  <2>2. d[n] \in Seq(Body) /\ Len(d[n]) = n
    BY <1>1, <2>1 DEF Files, Linked
  <2>. QED
    BY <1>1, <1>3, <2>2, HeightAssumption
<1>. QED
  BY <1>2, <1>3
-----------------------------------------------------------------------------
(* Type correctness                                                        *)

\* TypeOK with what its own preservation needs: PendingTransactions is finite,
\* and a worker mines within the bound.
TypeInv ==
    /\ TypeOK
    /\ IsFiniteSet(mempool)
    /\ \A w \in Worker : job[w] # NoJob => Len(job[w].base) < MaxHeight

LEMMA EnsuredCacheType ==
  ASSUME TypeOK
  PROVE  EnsuredCache \in [height : Nat, bal : [Addr -> Int]]
<1>1. Balances(chain) \in [Addr -> Int]
  BY BalanceInt DEF TypeOK, Balances
<1>2. Len(chain) + 1 \in Nat
  BY DEF TypeOK
<1>. QED
  BY <1>1, <1>2 DEF EnsuredCache, TypeOK

\* What AppendBlock does to the types of what it changes.
LEMMA AppendBlockType ==
  ASSUME TypeInv, Len(chain) < MaxHeight, NEW b \in Body, AppendBlock(b)
  PROVE  /\ up' = up /\ cache' = cache /\ torn' = torn
         /\ chain' \in Seq(Body) /\ Len(chain') = Len(chain) + 1
         /\ mined' \subseteq STRING
         /\ mempool' \subseteq Tx /\ IsFiniteSet(mempool')
         /\ Files(disk')
<1>1. chain' \in Seq(Body) /\ Len(chain') = Len(chain) + 1
  BY AppendProperties DEF TypeInv, TypeOK, AppendBlock
<1>2. WalletSigs(b.txs) \subseteq STRING
  BY WalletSigsType DEF Body
<1>3. IsFiniteSet(mempool')
  BY FS_Subset DEF AppendBlock, ClearMined, TypeInv
<1>4. Files(disk')
  <2>1. Len(chain) + 1 \in Height
    BY HeightAssumption DEF TypeInv, TypeOK, Height
  <2>2. disk' = [disk EXCEPT ![Len(chain) + 1] = chain']
    BY DEF AppendBlock, Persisted
  <2>. QED
    BY <1>1, <2>1, <2>2 DEF Files, TypeInv, TypeOK
<1>. QED
  BY <1>1, <1>2, <1>3, <1>4 DEF TypeInv, TypeOK, AppendBlock, ClearMined

LEMMA ForgetType ==
  ASSUME TypeInv, Forget, Files(disk')
  PROVE  TypeInv'
<1>1. IsFiniteSet({})
  BY FS_EmptySet
<1>2. NoCache \in [height : Nat, bal : [Addr -> Int]]
  BY DEF NoCache
<1>3. <<>> \in Seq(Body) /\ Len(<<>>) <= MaxHeight
  BY HeightAssumption
<1>4. job' \in [Worker -> JobType] /\ \A w \in Worker : job'[w] = NoJob
  BY DEF Forget, JobType
<1>. QED
  BY <1>1, <1>2, <1>3, <1>4 DEF TypeInv, TypeOK, Forget, Files

LEMMA HalfSavedFiles ==
  ASSUME TypeInv, NEW fork \in WantedForks, NEW last \in {0, 1},
         NEW d, d \in HalfSaved(fork, last)
  PROVE  Files(d)
<1>1. PICK k \in 0..(Len(fork.blocks) - last) :
          d = WriteSome(disk, ForkChain(fork.at, fork.blocks), fork.at, k)
  BY DEF HalfSaved
<1>2. chain \in Seq(Body) /\ Len(chain) <= MaxHeight /\ Files(disk)
  BY DEF TypeInv, TypeOK, Files
<1>3. fork.at \in 0..Len(chain) /\ fork.blocks \in PeerSuffix(fork.at)
  BY <1>2, WantedForkType
<1>4. /\ ForkChain(fork.at, fork.blocks) \in Seq(Body)
      /\ Len(ForkChain(fork.at, fork.blocks)) = fork.at + Len(fork.blocks)
      /\ fork.blocks \in Seq(Body)
  BY <1>2, <1>3, ForkChainType
<1>5. fork.at \in Nat /\ k \in Nat /\ fork.at + k <= Len(ForkChain(fork.at, fork.blocks))
  BY <1>3, <1>4
<1>. QED
  BY <1>1, <1>2, <1>4, <1>5, WriteSomeFiles

\* d has no file where e has none, and otherwise e's or none.
Fewer(d, e) == \A i \in Height : d[i] = <<>> \/ d[i] = e[i]

LEMMA HalfCleanedFiles ==
  ASSUME TypeInv, NEW fork \in WantedForks, NEW d, d \in HalfCleaned(fork)
  PROVE  Files(d) /\ \E e : e \in HalfSaved(fork, 0) /\ Fewer(d, e)
<1>. DEFINE new == ForkChain(fork.at, fork.blocks)
            e == WriteSome(disk, new, fork.at, Len(new) - fork.at)
<1>1. PICK m \in 0..(MaxHeight - Len(new)) :
          d = [i \in Height |-> IF i \in (Len(new) + 1)..(Len(new) + m) THEN <<>> ELSE e[i]]
  BY DEF HalfCleaned
<1>2. /\ fork.at \in 0..Len(chain) /\ fork.blocks \in PeerSuffix(fork.at)
      /\ chain \in Seq(Body) /\ Len(chain) <= MaxHeight
  BY WantedForkType DEF TypeInv, TypeOK
<1>3. /\ Len(new) = fork.at + Len(fork.blocks) /\ fork.blocks \in Seq(Body)
      /\ fork.at \in Nat /\ Len(fork.blocks) \in Nat
  BY <1>2, ForkChainType, LenProperties
<1>4. Len(new) - fork.at \in 0..(Len(fork.blocks) - 0)
  BY <1>3
<1>5. e \in HalfSaved(fork, 0)
  BY <1>4 DEF HalfSaved
<1>. HIDE DEF new, e
<1>6. Files(e)
  BY <1>5, HalfSavedFiles
<1>7. Files(d) /\ Fewer(d, e)
  BY <1>1, <1>6 DEF Files, Fewer
<1>. QED
  BY <1>5, <1>7

LEMMA TypeInit == Init => TypeInv
<1>. SUFFICES ASSUME Init PROVE TypeInv
  OBVIOUS
<1>1. IsFiniteSet({})
  BY FS_EmptySet
<1>2. NoCache \in [height : Nat, bal : [Addr -> Int]]
  BY DEF NoCache
<1>3. <<>> \in Seq(Body) /\ Len(<<>>) <= MaxHeight
  BY HeightAssumption
<1>4. job \in [Worker -> JobType] /\ \A w \in Worker : job[w] = NoJob
  BY DEF Init, JobType
<1>. QED
  BY <1>1, <1>2, <1>3, <1>4 DEF TypeInv, TypeOK, Init

LEMMA OwnBodyType ==
  ASSUME chain \in Seq(Body), mempool \subseteq Tx, IsFiniteSet(mempool),
         NEW txs \in Listings(mempool), NEW stamp \in OwnStamp
  PROVE  OwnBody(txs, stamp, Len(chain) + 1) \in Body
<1>1. txs \in Seq(TxType)
  BY ListingsType
<1>2. CoinbaseOf(Len(chain) + 1, txs) \in Int
  BY <1>1, CoinbaseInt, LenProperties
<1>3. ExpectedBits(chain) \in Bits /\ stamp \in Bits
  BY ExpectedBitsType, BitsAssumption
<1>4. MinerAddress \in Addr \cup {System}
  BY MinerAssumption
<1>. QED
  BY <1>1, <1>2, <1>3, <1>4, MinerAssumption DEF OwnBody, Body

LEMMA StartMiningType ==
  ASSUME TypeInv, NEW w \in Worker, StartMining(w)
  PROVE  TypeInv'
<1>1. PICK txs \in Listings(mempool), stamp \in OwnStamp :
          job' = [job EXCEPT ![w] =
                    [base |-> chain, body |-> OwnBody(txs, stamp, Len(chain) + 1)]]
  BY DEF StartMining
<1>2. OwnBody(txs, stamp, Len(chain) + 1) \in Body
  BY OwnBodyType DEF TypeInv, TypeOK
<1>3. job' \in [Worker -> JobType]
  BY <1>1, <1>2 DEF TypeInv, TypeOK, JobType
<1>4. \A v \in Worker : job'[v] # NoJob => Len(job'[v].base) < MaxHeight
  <2>. SUFFICES ASSUME NEW v \in Worker, job'[v] # NoJob
                PROVE  Len(job'[v].base) < MaxHeight
    OBVIOUS
  <2>1. CASE v = w
    <3>1. job'[v].base = chain
      BY <1>1, <2>1 DEF TypeInv, TypeOK
    <3>. QED
      BY <3>1 DEF StartMining
  <2>2. CASE v # w
    BY <1>1, <2>2 DEF TypeInv, TypeOK
  <2>. QED
    BY <2>1, <2>2
<1>. QED
  BY <1>3, <1>4 DEF StartMining, TypeInv, TypeOK

LEMMA FinishMiningType ==
  ASSUME TypeInv, NEW w \in Worker, FinishMining(w)
  PROVE  TypeInv'
<1>1. job' \in [Worker -> JobType]
      /\ \A v \in Worker : job'[v] # NoJob => Len(job'[v].base) < MaxHeight
  BY DEF FinishMining, TypeInv, TypeOK, JobType
<1>2. CASE job[w].base = chain /\ AppendBlock(job[w].body)
  <2>1. job[w].body \in Body /\ Len(chain) < MaxHeight
    BY <1>2 DEF FinishMining, TypeInv, TypeOK, JobType
  <2>. QED
    BY <1>1, <1>2, <2>1, AppendBlockType, HeightAssumption
       DEF TypeInv, TypeOK, Files
<1>3. CASE UNCHANGED <<up, chain, mempool, mined, cache, disk, torn>>
  BY <1>1, <1>3 DEF TypeInv, TypeOK
<1>. QED
  BY <1>2, <1>3 DEF FinishMining

LEMMA AddBlockType ==
  ASSUME TypeInv, NEW o \in PeerOffer, AddBlock(o)
  PROVE  TypeInv'
<1>1. BodyOf(o, Len(chain) + 1) \in Body
  BY BodyOfType DEF TypeInv, TypeOK
<1>2. /\ Len(chain) < MaxHeight /\ AppendBlock(BodyOf(o, Len(chain) + 1))
      /\ UNCHANGED job
  BY DEF AddBlock, Extends
<1>. QED
  BY <1>1, <1>2, AppendBlockType, HeightAssumption DEF TypeInv, TypeOK, Files

LEMMA ReorgType ==
  ASSUME TypeInv, NEW fork \in WantedForks, Reorg(fork)
  PROVE  TypeInv'
<1>. DEFINE new == ForkChain(fork.at, fork.blocks)
<1>1. fork.at \in 0..Len(chain) /\ fork.blocks \in PeerSuffix(fork.at) /\ fork.at \in Nat
  BY WantedForkType DEF TypeInv, TypeOK
<1>2. new \in Seq(Body) /\ Len(new) <= MaxHeight
  BY <1>1, ForkChainType, HeightAssumption DEF TypeInv, TypeOK
<1>3. /\ disk' = WriteAll(disk, new, fork.at) /\ chain' = new /\ cache' = NoCache
      /\ mined' = SigsOf(new) /\ mempool' = ClearMined(SigsOf(new))
      /\ UNCHANGED <<up, job, torn>>
  BY DEF Reorg
<1>. HIDE DEF new
<1>4. Files(disk')
  BY <1>1, <1>2, <1>3, WriteAllFiles DEF TypeInv, TypeOK, Files
<1>5. SigsOf(new) \subseteq STRING
  BY <1>2, SigsOfType
<1>6. mempool' \subseteq Tx /\ IsFiniteSet(mempool')
  BY <1>3, FS_Subset DEF ClearMined, TypeInv, TypeOK
<1>7. cache' \in [height : Nat, bal : [Addr -> Int]]
  BY <1>3 DEF NoCache
<1>. QED
  BY <1>2, <1>3, <1>4, <1>5, <1>6, <1>7 DEF TypeInv, TypeOK, Files

LEMMA TypeNext == TypeInv /\ [Next]_vars => TypeInv'
<1>. SUFFICES ASSUME TypeInv, [Next]_vars PROVE TypeInv'
  OBVIOUS
<1>1. ASSUME NEW t \in Tx, SubmitTx(t) PROVE TypeInv'
  <2>1. cache' \in [height : Nat, bal : [Addr -> Int]]
    BY <1>1, EnsuredCacheType DEF SubmitTx, TypeInv, TypeOK
  <2>2. mempool' \subseteq Tx /\ IsFiniteSet(mempool')
    <3>1. mempool' = mempool \cup {t} \/ mempool' = mempool
      BY <1>1 DEF SubmitTx
    <3>2. mempool \subseteq Tx /\ IsFiniteSet(mempool)
      BY DEF TypeInv, TypeOK
    <3>3. IsFiniteSet(mempool \cup {t})
      BY <3>2, FS_AddElement
    <3>. QED
      BY <3>1, <3>2, <3>3
  <2>. QED
    BY <1>1, <2>1, <2>2 DEF SubmitTx, TypeInv, TypeOK
<1>2. CASE GetBalance
  BY <1>2, EnsuredCacheType DEF GetBalance, TypeInv, TypeOK
<1>3. ASSUME NEW w \in Worker, StartMining(w) PROVE TypeInv'
  BY <1>3, StartMiningType
<1>4. ASSUME NEW w \in Worker, CancelMining(w) PROVE TypeInv'
  BY <1>4 DEF CancelMining, TypeInv, TypeOK, JobType
<1>5. ASSUME NEW w \in Worker, FinishMining(w) PROVE TypeInv'
  BY <1>5, FinishMiningType
<1>6. ASSUME NEW o \in PeerOffer, AddBlock(o) PROVE TypeInv'
  BY <1>6, AddBlockType
<1>7. ASSUME NEW fork \in WantedForks, Reorg(fork) PROVE TypeInv'
  BY <1>7, ReorgType
<1>8. ASSUME NEW fork \in WantedForks, ReorgSaveFails(fork) PROVE TypeInv'
  <2>1. Files(disk')
    BY <1>8, HalfSavedFiles DEF ReorgSaveFails
  <2>. QED
    BY <1>8, <2>1 DEF ReorgSaveFails, TypeInv, TypeOK, Files
<1>9. ASSUME NEW fork \in WantedForks, CrashInReorg(fork) PROVE TypeInv'
  <2>1. Files(disk')
    BY <1>9, HalfSavedFiles, HalfCleanedFiles DEF CrashInReorg
  <2>. QED
    BY <1>9, <2>1, ForgetType DEF CrashInReorg
<1>10. CASE Crash
  BY <1>10, ForgetType DEF Crash, TypeInv, TypeOK, Files
<1>11. CASE Restart
  <2>1. LoadChain(disk) \in Seq(Body) /\ Len(LoadChain(disk)) <= MaxHeight
    BY LoadChainType DEF TypeInv, TypeOK, Files
  <2>2. SigsOf(LoadChain(disk)) \subseteq STRING
    BY <2>1, SigsOfType
  <2>. QED
    BY <1>11, <2>1, <2>2 DEF Restart, TypeInv, TypeOK
<1>12. CASE UNCHANGED vars
  BY <1>12 DEF vars, TypeInv, TypeOK
<1>. QED
  BY <1>1, <1>2, <1>3, <1>4, <1>5, <1>6, <1>7, <1>8, <1>9, <1>10, <1>11, <1>12
     DEF Next, HandleBlocks, HandleBlockSubmit

\* The node's variables keep their types, and the files their heights, through
\* every operation, crash and restart.
THEOREM TypeCorrect == Spec => [](TypeInv /\ TypeOK)
<1>1. TypeInv => TypeOK
  BY DEF TypeInv
<1>. QED
  BY <1>1, TypeInit, TypeNext, PTL DEF Spec


-----------------------------------------------------------------------------
(* Transactions of chains                                                  *)

LEMMA SigsOfEmpty == SigsOf(<<>>) = {}
BY DEF SigsOf

LEMMA SigsOfAppend ==
  ASSUME NEW c \in Seq(Body), NEW b \in Body
  PROVE  SigsOf(Append(c, b)) = SigsOf(c) \cup WalletSigs(b.txs)
<1>. DEFINE d == Append(c, b)
<1>1. /\ DOMAIN c = 1..Len(c) /\ DOMAIN d = 1..(Len(c) + 1) /\ Len(c) \in Nat
      /\ \A i \in 1..Len(c) : d[i] = c[i]
      /\ d[Len(c) + 1] = b
  BY LenProperties, AppendProperties
<1>. HIDE DEF d
<1>2. ASSUME NEW x PROVE x \in SigsOf(d) <=> x \in SigsOf(c) \cup WalletSigs(b.txs)
  <2>1. x \in SigsOf(d) <=> \E i \in 1..(Len(c) + 1) : x \in WalletSigs(d[i].txs)
    BY <1>1 DEF SigsOf
  <2>2. x \in SigsOf(c) <=> \E i \in 1..Len(c) : x \in WalletSigs(c[i].txs)
    BY <1>1 DEF SigsOf
  <2>. QED
    BY <1>1, <2>1, <2>2
<1>. QED
  BY <1>2 DEF d

\* What NoRepeat asks of the transactions of one block.
Distinct(txs) ==
    \A k, l \in DOMAIN txs :
        txs[k].from # System /\ txs[l].from # System /\ txs[k].sig = txs[l].sig => k = l

LEMMA NoRepeatEmpty == NoRepeat(<<>>)
BY DEF NoRepeat

\* A block of new, distinct transactions on top.
LEMMA NoRepeatAppend ==
  ASSUME NEW c \in Seq(Body), NoRepeat(c), NEW b \in Body,
         Distinct(b.txs), WalletSigs(b.txs) \cap SigsOf(c) = {}
  PROVE  NoRepeat(Append(c, b))
<1>. DEFINE d == Append(c, b)
            n == Len(c)
<1>1. /\ n \in Nat /\ DOMAIN c = 1..n /\ DOMAIN d = 1..(n + 1)
      /\ \A i \in 1..n : d[i] = c[i]
      /\ d[n + 1] = b
  BY LenProperties, AppendProperties
<1>. HIDE DEF d, n
<1>2. ASSUME NEW i \in 1..n, NEW k \in DOMAIN c[i].txs, NEW l \in DOMAIN b.txs,
             c[i].txs[k].from # System, b.txs[l].from # System
      PROVE  c[i].txs[k].sig # b.txs[l].sig
  <2>1. c[i].txs[k].sig \in SigsOf(c)
    BY <1>1, <1>2 DEF SigsOf, WalletSigs, Sigs, ToSet
  <2>2. b.txs[l].sig \in WalletSigs(b.txs)
    BY <1>2 DEF WalletSigs, Sigs, ToSet
  <2>. QED
    BY <2>1, <2>2
<1>3. SUFFICES ASSUME NEW i \in DOMAIN d, NEW j \in DOMAIN d,
                      NEW k \in DOMAIN d[i].txs, NEW l \in DOMAIN d[j].txs,
                      d[i].txs[k].from # System, d[j].txs[l].from # System,
                      d[i].txs[k].sig = d[j].txs[l].sig
               PROVE  i = j /\ k = l
  BY DEF NoRepeat, d
<1>4. CASE i \in 1..n /\ j \in 1..n
  BY <1>1, <1>3, <1>4 DEF NoRepeat
<1>5. CASE i = n + 1 /\ j = n + 1
  BY <1>1, <1>3, <1>5 DEF Distinct
<1>6. CASE i \in 1..n /\ j = n + 1
  BY <1>1, <1>2, <1>3, <1>6
<1>7. CASE i = n + 1 /\ j \in 1..n
  BY <1>1, <1>2, <1>3, <1>7
<1>. QED
  BY <1>1, <1>4, <1>5, <1>6, <1>7

LEMMA NoRepeatPrefix ==
  ASSUME NEW c \in Seq(Body), NoRepeat(c), NEW n \in 0..Len(c)
  PROVE  NoRepeat(SubSeq(c, 1, n))
<1>1. /\ DOMAIN SubSeq(c, 1, n) = 1..n
      /\ \A i \in 1..n : SubSeq(c, 1, n)[i] = c[i] /\ i \in DOMAIN c
  BY LenProperties, SubSeqProperties
<1>. QED
  BY <1>1 DEF NoRepeat

\* ValidateBlockTransactions admits only new, distinct transactions.
LEMMA ValidBodyNew ==
  ASSUME NEW c, NEW b \in Body, ValidBody(c, b)
  PROVE  Distinct(b.txs) /\ WalletSigs(b.txs) \cap SigsOf(c) = {}
<1>1. DOMAIN b.txs = 1..Len(b.txs) /\ Len(b.txs) \in Nat
  BY LenProperties DEF Body
<1>2. \A i \in DOMAIN b.txs : b.txs[i].sig \notin SigsOf(c)
  BY DEF ValidBody
<1>3. \A i \in DOMAIN b.txs : \A j \in 1..(i - 1) : b.txs[j].sig # b.txs[i].sig
  BY DEF ValidBody
<1>4. Distinct(b.txs)
  BY <1>1, <1>3 DEF Distinct
<1>. QED
  BY <1>2, <1>4 DEF WalletSigs, Sigs, ToSet

-----------------------------------------------------------------------------
(* The index of mined transactions                                         *)

\* bc.Mempool is keyed by the signature.
Keyed == \A t, u \in mempool : t.sig = u.sig => t = u

\* IndexExact with what a restart needs: a stopped process has no mempool.
IndexInv ==
    /\ TypeInv
    /\ IndexExact
    /\ Keyed
    /\ ~up => mempool = {}

LEMMA AppendIndex ==
  ASSUME IndexInv, NEW b \in Body, AppendBlock(b)
  PROVE  IndexExact' /\ Keyed' /\ (~up' => mempool' = {})
<1>1. SigsOf(chain') = SigsOf(chain) \cup WalletSigs(b.txs)
  BY SigsOfAppend DEF AppendBlock, IndexInv, TypeInv, TypeOK
<1>2. WalletSigs(b.txs) \subseteq Sigs(ToSet(b.txs))
  BY DEF WalletSigs, Sigs
<1>3. mempool' = {t \in mempool : t.sig \notin Sigs(ToSet(b.txs)) \cup {b.sig}}
  BY DEF AppendBlock, ClearMined
<1>4. Sigs(mempool') \subseteq Sigs(mempool) \ WalletSigs(b.txs)
  BY <1>2, <1>3 DEF Sigs
<1>5. Keyed'
  BY <1>3 DEF Keyed, IndexInv
<1>. QED
  BY <1>1, <1>3, <1>4, <1>5 DEF AppendBlock, IndexInv, IndexExact

\* The body each block operation appends.
LEMMA MinedBody ==
  ASSUME TypeInv, NEW w \in Worker, job[w] # NoJob
  PROVE  job[w].base \in Seq(Body) /\ job[w].body \in Body
BY DEF TypeInv, TypeOK, JobType

LEMMA OfferedBody ==
  ASSUME TypeInv, NEW o \in PeerOffer
  PROVE  BodyOf(o, Len(chain) + 1) \in Body
BY BodyOfType DEF TypeInv, TypeOK

LEMMA IndexInit == Init => IndexInv
BY TypeInit, SigsOfEmpty DEF Init, IndexInv, IndexExact, Keyed, Sigs

\* A transaction enters the mempool only with a signature that is new to it and
\* to the index.
LEMMA SubmitIndex ==
  ASSUME IndexInv, NEW t \in Tx, SubmitTx(t)
  PROVE  IndexExact' /\ Keyed' /\ (~up' => mempool' = {})
<1>1. /\ up /\ up' = up /\ chain' = chain /\ mined' = mined
      /\ t.sig \notin Sigs(mempool) /\ t.sig \notin mined
      /\ mempool' = mempool \/ mempool' = mempool \cup {t}
  BY DEF SubmitTx
<1>2. Sigs(mempool') \subseteq Sigs(mempool) \cup {t.sig}
  BY <1>1 DEF Sigs
<1>3. Keyed'
  <2>1. \A u \in mempool : u.sig # t.sig
    BY <1>1 DEF Sigs
  <2>. QED
    BY <1>1, <2>1 DEF Keyed, IndexInv
<1>. QED
  BY <1>1, <1>2, <1>3 DEF IndexInv, IndexExact

LEMMA IndexNext == IndexInv /\ [Next]_vars => IndexInv'
<1>. DEFINE Goal == IndexExact' /\ Keyed' /\ (~up' => mempool' = {})
<1>. SUFFICES ASSUME IndexInv, [Next]_vars PROVE Goal
  BY TypeNext DEF IndexInv
<1>1. ASSUME NEW t \in Tx, SubmitTx(t) PROVE Goal
  BY <1>1, SubmitIndex
<1>2. ASSUME NEW w \in Worker, FinishMining(w) PROVE Goal
  <2>1. CASE job[w].base = chain /\ AppendBlock(job[w].body)
    BY <1>2, <2>1, MinedBody, AppendIndex DEF FinishMining, IndexInv
  <2>2. CASE UNCHANGED <<up, chain, mempool, mined, cache, disk, torn>>
    BY <2>2 DEF IndexInv, IndexExact, Keyed
  <2>. QED
    BY <1>2, <2>1, <2>2 DEF FinishMining
<1>3. ASSUME NEW o \in PeerOffer, AddBlock(o) PROVE Goal
  BY <1>3, OfferedBody, AppendIndex DEF AddBlock, IndexInv
<1>4. ASSUME NEW fork \in WantedForks, Reorg(fork) PROVE Goal
  <2>. DEFINE new == ForkChain(fork.at, fork.blocks)
  <2>1. /\ up /\ up' = up /\ chain' = new /\ mined' = SigsOf(new)
        /\ mempool' = {t \in mempool : t.sig \notin SigsOf(new)}
    BY <1>4 DEF Reorg, ClearMined
  <2>. HIDE DEF new
  <2>2. Sigs(mempool') \cap SigsOf(new) = {}
    BY <2>1 DEF Sigs
  <2>3. Keyed'
    BY <2>1 DEF Keyed, IndexInv
  <2>. QED
    BY <2>1, <2>2, <2>3 DEF IndexExact
<1>5. CASE Forget
  <2>1. Sigs({}) = {}
    BY DEF Sigs
  <2>. QED
    BY <1>5, <2>1, SigsOfEmpty DEF Forget, IndexExact, Keyed
<1>6. CASE Restart
  <2>1. mempool = {} /\ mempool' = {} /\ Sigs({}) = {}
    BY <1>6 DEF Restart, IndexInv, Sigs
  <2>. QED
    BY <1>6, <2>1 DEF Restart, IndexExact, Keyed
<1>7. CASE UNCHANGED <<up, chain, mempool, mined>>
  BY <1>7 DEF IndexInv, IndexExact, Keyed
<1>. QED
  BY <1>1, <1>2, <1>3, <1>4, <1>5, <1>6, <1>7
     DEF Next, vars, HandleBlocks, HandleBlockSubmit, GetBalance, StartMining,
         CancelMining, ReorgSaveFails, CrashInReorg, Crash

\* After every operation the index holds exactly the signatures of the wallets'
\* transactions on the chain in memory, and none of them waits in the mempool.
THEOREM IndexCorrect == Spec => []IndexExact
<1>1. IndexInv => IndexExact
  BY DEF IndexInv
<1>. QED
  BY <1>1, IndexInit, IndexNext, PTL DEF Spec
-----------------------------------------------------------------------------
(* What holds of every chain the node can come to have                     *)

\* G holds the prefixes of its chains, and their extensions by valid blocks.
Closed(G) ==
    /\ G \subseteq Seq(Body)
    /\ <<>> \in G
    /\ \A c \in G : \A n \in 0..Len(c) : SubSeq(c, 1, n) \in G
    /\ \A c \in G : \A b \in Body : ValidBody(c, b) => Append(c, b) \in G

\* The chain, the blocks in the files, and what a worker mines, above the chain
\* it knew.
ChainsIn(G) ==
    /\ chain \in G
    /\ \A i \in Height : disk[i] \in G
    /\ \A w \in Worker : job[w] # NoJob => Append(job[w].base, job[w].body) \in G

\* Blocks that are valid one after the other extend a chain within G.
LEMMA ClosedFork ==
  ASSUME NEW G, Closed(G), NEW c \in G, NEW s \in Seq(Body), ValidSuffix(c, s)
  PROVE  c \o s \in G
<1>. DEFINE Q == {q \in Seq(Body) : ValidSuffix(c, q) => c \o q \in G}
<1>1. c \in Seq(Body)
  BY DEF Closed
<1>2. <<>> \in Q
  <2>1. <<>> \in Seq(Body) /\ c \o <<>> = c
    BY <1>1, EmptySeq, ConcatEmptySeq
  <2>2. c \o <<>> \in G
    BY <2>1, Zenon
  <2>. QED
    BY <2>1, <2>2
<1>3. ASSUME NEW q \in Seq(Body), NEW b \in Body, q \in Q PROVE Append(q, b) \in Q
  <2>. DEFINE r == Append(q, b)
  <2>1. /\ r \in Seq(Body) /\ DOMAIN r = 1..(Len(q) + 1) /\ DOMAIN q = 1..Len(q)
        /\ Len(q) \in Nat
        /\ \A i \in 1..Len(q) : r[i] = q[i]
        /\ r[Len(q) + 1] = b
    BY AppendProperties, LenProperties
  <2>2. \A n \in 0..Len(q) : SubSeq(r, 1, n) = SubSeq(q, 1, n)
    BY PrefixOfAppend
  <2>3. c \o r = Append(c \o q, b)
    <3>1. c \o q \in Seq(Body) /\ <<b>> \in Seq(Body)
      BY <1>1, ConcatProperties
    <3>2. r = q \o <<b>> /\ Append(c \o q, b) = (c \o q) \o <<b>>
      BY <3>1, AppendIsConcat
    <3>. QED
      BY <1>1, <3>1, <3>2, ConcatAssociative
  <2>. HIDE DEF r
  <2>. SUFFICES ASSUME ValidSuffix(c, r) PROVE c \o r \in G
    BY <2>1 DEF r
  <2>4. \A i \in 1..(Len(q) + 1) : ValidBody(c \o SubSeq(r, 1, i - 1), r[i])
    BY <2>1 DEF ValidSuffix
  <2>5. ASSUME NEW i \in 1..Len(q) PROVE ValidBody(c \o SubSeq(q, 1, i - 1), q[i])
    <3>1. /\ i \in 1..(Len(q) + 1) /\ r[i] = q[i]
          /\ SubSeq(r, 1, i - 1) = SubSeq(q, 1, i - 1)
      BY <2>1, <2>2
    <3>2. ValidBody(c \o SubSeq(r, 1, i - 1), r[i])
      BY <2>4, <3>1
    <3>. QED
      BY <3>1, <3>2
  <2>6. c \o q \in G
    BY <1>3, <2>1, <2>5 DEF ValidSuffix
  <2>7. ValidBody(c \o q, b)
    <3>1. Len(q) + 1 \in 1..(Len(q) + 1) /\ Len(q) + 1 - 1 = Len(q) /\ Len(q) \in 0..Len(q)
      BY <2>1
    <3>2. SubSeq(r, 1, Len(q)) = q
      BY <2>2, <3>1, SubSeqFull
    <3>3. PICK k \in 1..(Len(q) + 1) : k - 1 = Len(q) /\ r[k] = b
      BY <2>1, <3>1
    <3>4. ValidBody(c \o SubSeq(r, 1, k - 1), r[k])
      BY <2>4
    <3>. QED
      BY <3>2, <3>3, <3>4
  <2>8. Append(c \o q, b) \in G
    BY <2>6, <2>7 DEF Closed
  <2>. QED
    BY <2>3, <2>8, Zenon
<1>4. Seq(Body) \subseteq Q
  <2>. HIDE DEF Q
  <2>. QED
    BY <1>2, <1>3, AppendInduction
<1>. QED
  BY <1>4

LEMMA ChainsInit ==
  ASSUME NEW G, Closed(G), Init
  PROVE  ChainsIn(G)
BY DEF Init, ChainsIn, Closed

LEMMA AppendIn ==
  ASSUME TypeInv, NEW G, ChainsIn(G), Len(chain) < MaxHeight, NEW b \in Body, AppendBlock(b),
         Append(chain, b) \in G
  PROVE  chain' \in G /\ \A i \in Height : disk'[i] \in G
<1>1. Len(chain) + 1 \in Height
  BY HeightAssumption DEF TypeInv, TypeOK, Height
<1>. QED
  BY <1>1 DEF ChainsIn, TypeInv, TypeOK, AppendBlock, Persisted

LEMMA WantedForkIn ==
  ASSUME TypeInv, NEW G, Closed(G), ChainsIn(G), NEW fork \in WantedForks
  PROVE  /\ ForkChain(fork.at, fork.blocks) \in G
         /\ Len(ForkChain(fork.at, fork.blocks)) = fork.at + Len(fork.blocks)
         /\ fork.at \in Nat /\ Len(fork.blocks) \in Nat
<1>1. chain \in Seq(Body) /\ Len(chain) <= MaxHeight
  BY DEF TypeInv, TypeOK
<1>2. /\ fork.at \in 0..Len(chain)
      /\ fork.blocks \in PeerSuffix(fork.at)
      /\ ReorgWanted(fork.at, fork.blocks)
  BY <1>1, WantedForkType
<1>3. /\ Len(ForkChain(fork.at, fork.blocks)) = fork.at + Len(fork.blocks)
      /\ fork.blocks \in Seq(Body)
  BY <1>1, <1>2, ForkChainType
<1>4. SubSeq(chain, 1, fork.at) \in G
  BY <1>2 DEF Closed, ChainsIn
<1>5. ValidSuffix(SubSeq(chain, 1, fork.at), fork.blocks)
  BY <1>2 DEF ReorgWanted
<1>6. ForkChain(fork.at, fork.blocks) \in G
  BY <1>3, <1>4, <1>5, ClosedFork DEF ForkChain
<1>. QED
  BY <1>1, <1>2, <1>3, <1>6, LenProperties

LEMMA HalfSavedIn ==
  ASSUME TypeInv, NEW G, Closed(G), ChainsIn(G), NEW fork \in WantedForks, NEW last \in {0, 1},
         NEW d, d \in HalfSaved(fork, last)
  PROVE  \A i \in Height : d[i] \in G
<1>1. PICK k \in 0..(Len(fork.blocks) - last) :
          d = WriteSome(disk, ForkChain(fork.at, fork.blocks), fork.at, k)
  BY DEF HalfSaved
<1>. DEFINE new == ForkChain(fork.at, fork.blocks)
<1>2. /\ new \in G /\ fork.at \in Nat
      /\ k \in Nat /\ fork.at + k <= Len(new)
  BY <1>1, WantedForkIn
<1>. HIDE DEF new
<1>3. \A i \in Height : i \in Nat /\ i > 0
  BY HeightAssumption DEF Height
<1>4. \A i \in Height : i <= Len(new) => SubSeq(new, 1, i) \in G
  BY <1>2, <1>3 DEF Closed
<1>. QED
  BY <1>1, <1>2, <1>3, <1>4 DEF WriteSome, ChainsIn, new

LEMMA HalfCleanedIn ==
  ASSUME TypeInv, NEW G, Closed(G), ChainsIn(G), NEW fork \in WantedForks,
         NEW d, d \in HalfCleaned(fork)
  PROVE  \A i \in Height : d[i] \in G
<1>1. PICK e : e \in HalfSaved(fork, 0) /\ Fewer(d, e)
  BY HalfCleanedFiles
<1>2. \A i \in Height : e[i] \in G
  BY <1>1, HalfSavedIn
<1>3. <<>> \in G
  BY DEF Closed
<1>. QED
  BY <1>1, <1>2, <1>3 DEF Fewer

\* No step leaves G, if no worker starts a block outside.
LEMMA ChainsStay ==
  ASSUME TypeInv, NEW G, Closed(G), ChainsIn(G), [Next]_vars,
         \A w \in Worker : StartMining(w) =>
             Append(job'[w].base, job'[w].body) \in G
  PROVE  ChainsIn(G)'
<1>. DEFINE FilesIn == \A i \in Height : disk[i] \in G
            JobsIn == \A w \in Worker : job[w] # NoJob => Append(job[w].base, job[w].body) \in G
            Goal == chain' \in G /\ FilesIn' /\ JobsIn'
<1>0. /\ chain \in G /\ FilesIn /\ JobsIn /\ <<>> \in G /\ G \subseteq Seq(Body)
      /\ chain \in Seq(Body) /\ disk \in [Height -> Seq(Body)] /\ job \in [Worker -> JobType]
  BY DEF ChainsIn, TypeInv, TypeOK, Closed
<1>. SUFFICES Goal
  BY DEF ChainsIn
<1>1. ASSUME NEW t \in Tx, SubmitTx(t) PROVE Goal
  BY <1>0, <1>1 DEF SubmitTx
<1>2. CASE GetBalance
  BY <1>0, <1>2 DEF GetBalance
<1>3. ASSUME NEW w \in Worker, StartMining(w) PROVE Goal
  <2>1. chain' = chain /\ disk' = disk /\ \A v \in Worker \ {w} : job'[v] = job[v]
    BY <1>0, <1>3 DEF StartMining
  <2>2. Append(job'[w].base, job'[w].body) \in G
    BY <1>3
  <2>. QED
    BY <1>0, <2>1, <2>2
<1>4. ASSUME NEW w \in Worker, CancelMining(w) PROVE Goal
  BY <1>0, <1>4 DEF CancelMining
<1>5. ASSUME NEW w \in Worker, FinishMining(w) PROVE Goal
  <2>1. JobsIn'
    BY <1>0, <1>5 DEF FinishMining
  <2>2. CASE job[w].base = chain /\ AppendBlock(job[w].body)
    <3>1. job[w].body \in Body /\ Len(chain) < MaxHeight
      BY <1>0, <1>5, <2>2, MinedBody DEF FinishMining, TypeInv
    <3>2. Append(chain, job[w].body) \in G
      BY <1>0, <1>5, <2>2 DEF FinishMining
    <3>. QED
      BY <2>1, <2>2, <3>1, <3>2, AppendIn
  <2>3. CASE UNCHANGED <<up, chain, mempool, mined, cache, disk, torn>>
    BY <1>0, <2>1, <2>3
  <2>. QED
    BY <1>5, <2>2, <2>3 DEF FinishMining
<1>6. ASSUME NEW o \in PeerOffer, AddBlock(o) PROVE Goal
  <2>. DEFINE b == BodyOf(o, Len(chain) + 1)
  <2>1. /\ b \in Body /\ Len(chain) < MaxHeight /\ ValidBody(chain, b)
        /\ AppendBlock(b) /\ job' = job
    BY <1>0, <1>6, OfferedBody DEF AddBlock, Extends
  <2>. HIDE DEF b
  <2>2. Append(chain, b) \in G
    BY <1>0, <2>1 DEF Closed
  <2>3. chain' \in G /\ FilesIn'
    BY <2>1, <2>2, AppendIn
  <2>. QED
    BY <1>0, <2>1, <2>3
<1>7. ASSUME NEW fork \in WantedForks, Reorg(fork) PROVE Goal
  <2>. DEFINE new == ForkChain(fork.at, fork.blocks)
  <2>1. /\ disk' = WriteAll(disk, new, fork.at) /\ chain' = new /\ job' = job
    BY <1>7 DEF Reorg
  <2>2. new \in G /\ Len(new) \in Nat
    BY WantedForkIn
  <2>. HIDE DEF new
  <2>3. \A i \in Height : i \in Nat /\ i > 0
    BY HeightAssumption DEF Height
  <2>4. \A i \in Height : i <= Len(new) => SubSeq(new, 1, i) \in G
    BY <2>2, <2>3 DEF Closed
  <2>5. FilesIn'
    BY <1>0, <2>1, <2>2, <2>3, <2>4 DEF WriteAll
  <2>. QED
    BY <1>0, <2>1, <2>2, <2>5
<1>8. ASSUME NEW fork \in WantedForks, ReorgSaveFails(fork) PROVE Goal
  <2>1. FilesIn'
    BY <1>8, HalfSavedIn DEF ReorgSaveFails
  <2>. QED
    BY <1>0, <1>8, <2>1 DEF ReorgSaveFails
<1>9. ASSUME NEW fork \in WantedForks, CrashInReorg(fork) PROVE Goal
  <2>1. FilesIn'
    BY <1>9, HalfSavedIn, HalfCleanedIn DEF CrashInReorg
  <2>. QED
    BY <1>0, <1>9, <2>1 DEF CrashInReorg, Forget
<1>10. CASE Crash
  BY <1>0, <1>10 DEF Crash, Forget
<1>11. CASE Restart
  <2>1. PICK n \in 0..MaxHeight : LoadChain(disk) = IF n = 0 THEN <<>> ELSE disk[n]
    BY LoadDepth
  <2>2. n # 0 => n \in Height
    BY HeightAssumption DEF Height
  <2>3. LoadChain(disk) \in G
    BY <1>0, <2>1, <2>2
  <2>. QED
    BY <1>0, <1>11, <2>3 DEF Restart
<1>12. CASE UNCHANGED vars
  BY <1>0, <1>12 DEF vars
<1>. QED
  BY <1>1, <1>2, <1>3, <1>4, <1>5, <1>6, <1>7, <1>8, <1>9, <1>10, <1>11, <1>12
     DEF Next, HandleBlocks, HandleBlockSubmit

\* A worker starts on our chain, with transactions of the mempool, each once.
LEMMA StartedBody ==
  ASSUME TypeInv, NEW w \in Worker, StartMining(w)
  PROVE  /\ job'[w].base = chain /\ job'[w].body \in Body
         /\ job'[w].body.miner = MinerAddress
         /\ job'[w].body.coinbase = CoinbaseOf(Len(chain) + 1, job'[w].body.txs)
         /\ \A i, j \in DOMAIN job'[w].body.txs :
                job'[w].body.txs[i] = job'[w].body.txs[j] => i = j
         /\ ToSet(job'[w].body.txs) \subseteq mempool
<1>1. PICK txs \in Listings(mempool), stamp \in OwnStamp :
          job' = [job EXCEPT ![w] =
                    [base |-> chain, body |-> OwnBody(txs, stamp, Len(chain) + 1)]]
  BY DEF StartMining
<1>. DEFINE b == OwnBody(txs, stamp, Len(chain) + 1)
<1>2. /\ chain \in Seq(Body) /\ mempool \in SUBSET Tx /\ IsFiniteSet(mempool)
      /\ job \in [Worker -> JobType]
  BY DEF TypeInv, TypeOK
<1>3. (\A i, j \in DOMAIN txs : txs[i] = txs[j] => i = j) /\ ToSet(txs) \subseteq mempool
  BY <1>2, ListingsType
<1>4. b \in Body
  BY <1>2, OwnBodyType
<1>5. /\ b.miner = MinerAddress /\ b.txs = txs
      /\ b.coinbase = CoinbaseOf(Len(chain) + 1, txs)
  BY DEF OwnBody
<1>. HIDE DEF b
<1>6. job'[w].base = chain /\ job'[w].body = b
  BY <1>1, <1>2 DEF b
<1>. QED
  BY <1>3, <1>4, <1>5, <1>6
-----------------------------------------------------------------------------
(* No transaction twice                                                    *)

Unrepeated == {c \in Seq(Body) : NoRepeat(c)}

\* NoTxTwice is not inductive: the chain may be replaced by one read from the
\* files, and grows by jobs started long ago.
OnceInv == IndexInv /\ ChainsIn(Unrepeated)

LEMMA UnrepeatedClosed == Closed(Unrepeated)
<1>1. <<>> \in Unrepeated
  BY NoRepeatEmpty DEF Unrepeated
<1>2. ASSUME NEW c \in Unrepeated, NEW n \in 0..Len(c) PROVE SubSeq(c, 1, n) \in Unrepeated
  <2>1. c \in Seq(Body) /\ NoRepeat(c)
    BY DEF Unrepeated
  <2>2. SubSeq(c, 1, n) \in Seq(Body)
    BY <2>1, SubSeqProperties, LenProperties
  <2>. QED
    BY <2>1, <2>2, NoRepeatPrefix DEF Unrepeated
<1>3. ASSUME NEW c \in Unrepeated, NEW b \in Body, ValidBody(c, b) PROVE Append(c, b) \in Unrepeated
  BY <1>3, ValidBodyNew, NoRepeatAppend, AppendProperties DEF Unrepeated
<1>. QED
  BY <1>1, <1>2, <1>3 DEF Closed, Unrepeated

LEMMA OnceNext == OnceInv /\ [Next]_vars => OnceInv'
<1>. SUFFICES ASSUME OnceInv, [Next]_vars PROVE ChainsIn(Unrepeated)'
  BY IndexNext DEF OnceInv
<1>1. ASSUME NEW w \in Worker, StartMining(w)
      PROVE  Append(job'[w].base, job'[w].body) \in Unrepeated
  <2>. DEFINE b == job'[w].body
  <2>1. /\ job'[w].base = chain /\ b \in Body
        /\ \A k, l \in DOMAIN b.txs : b.txs[k] = b.txs[l] => k = l
        /\ ToSet(b.txs) \subseteq mempool
    BY <1>1, StartedBody DEF OnceInv, IndexInv
  <2>. HIDE DEF b
  <2>2. Distinct(b.txs)
    BY <2>1 DEF Distinct, ToSet, OnceInv, IndexInv, Keyed
  <2>3. WalletSigs(b.txs) \subseteq Sigs(mempool)
    BY <2>1 DEF WalletSigs, Sigs
  <2>4. chain \in Seq(Body) /\ NoRepeat(chain) /\ WalletSigs(b.txs) \cap SigsOf(chain) = {}
    BY <2>3 DEF OnceInv, ChainsIn, Unrepeated, IndexInv, IndexExact
  <2>5. NoRepeat(Append(chain, b)) /\ Append(chain, b) \in Seq(Body)
    BY <2>1, <2>2, <2>4, NoRepeatAppend, AppendProperties
  <2>. QED
    BY <2>1, <2>5 DEF Unrepeated, b
<1>. QED
  BY <1>1, ChainsStay, UnrepeatedClosed DEF OnceInv, IndexInv

\* No transaction is confirmed twice on the node's chain, whatever order
\* admissions, mining, peers' blocks, forks, crashes and restarts come in.
THEOREM NoTxTwiceCorrect == Spec => []NoTxTwice
<1>1. Init => OnceInv
  BY IndexInit, UnrepeatedClosed, ChainsInit DEF OnceInv
<1>2. OnceInv => NoTxTwice
  BY DEF OnceInv, ChainsIn, Unrepeated, NoTxTwice
<1>. QED
  BY <1>1, <1>2, OnceNext, PTL DEF Spec
-----------------------------------------------------------------------------
(* Supply and debts                                                        *)

LEMMA EffectInt ==
  ASSUME NEW t \in TxType, NEW a
  PROVE  Effect(t, a) \in Int
BY TxFields DEF Effect

\* A sum over transactions.
SumOver(g, txs) == SumSeq([i \in DOMAIN txs |-> g[txs[i]]])

LEMMA SumOverEmpty ==
  ASSUME NEW g
  PROVE  SumOver(g, <<>>) = 0
<1>1. [i \in DOMAIN <<>> |-> g[<<>>[i]]] = <<>>
  OBVIOUS
<1>. QED
  BY <1>1, SumEmpty DEF SumOver

LEMMA SumOverAppend ==
  ASSUME NEW g \in [TxType -> Int], NEW txs \in Seq(TxType), NEW t \in TxType
  PROVE  SumOver(g, Append(txs, t)) = SumOver(g, txs) + g[t] /\ SumOver(g, txs) \in Int
<1>. DEFINE n == Len(txs)
            more == Append(txs, t)
            u == [i \in DOMAIN txs |-> g[txs[i]]]
            v == [i \in DOMAIN more |-> g[more[i]]]
<1>1. /\ n \in Nat /\ DOMAIN txs = 1..n /\ more \in Seq(TxType) /\ DOMAIN more = 1..(n + 1)
      /\ \A i \in 1..n : more[i] = txs[i] /\ txs[i] \in TxType
      /\ more[n + 1] = t
  BY LenProperties, AppendProperties
<1>. HIDE DEF n, more
<1>2. u \in Seq(Int) /\ Len(u) = n /\ v \in Seq(Int) /\ Len(v) = n + 1
  <2>1. \A i \in 1..n : g[txs[i]] \in Int
    BY <1>1
  <2>2. \A i \in 1..(n + 1) : g[more[i]] \in Int
    BY <1>1, <2>1
  <2>3. u \in [1..n -> Int] /\ v \in [1..(n + 1) -> Int]
    BY <1>1, <2>1, <2>2
  <2>. HIDE DEF u, v
  <2>. QED
    BY <1>1, <2>3
<1>3. (\A i \in 1..n : v[i] = u[i]) /\ v[n + 1] = g[t]
  BY <1>1
<1>4. SumSeq(u) = SumOver(g, txs) /\ SumSeq(v) = SumOver(g, more)
  BY DEF SumOver
<1>. HIDE DEF u, v
<1>5. SumSeq(v) = SumSeq(u) + v[n + 1] /\ SumSeq(u) \in Int
  BY <1>2, <1>3, SumLonger, SumInt
<1>. QED
  BY <1>3, <1>4, <1>5 DEF more

\* One more transaction, one more block.
LEMMA NetSum ==
  ASSUME NEW a
  PROVE  \E g \in [TxType -> Int] :
            /\ \A t \in TxType : g[t] = Effect(t, a)
            /\ \A txs \in Seq(TxType) : Net(txs, a) = SumOver(g, txs)
<1>. DEFINE g == [t \in TxType |-> Effect(t, a)]
<1>1. g \in [TxType -> Int] /\ \A t \in TxType : g[t] = Effect(t, a)
  BY EffectInt
<1>2. ASSUME NEW txs \in Seq(TxType) PROVE Net(txs, a) = SumOver(g, txs)
  <2>1. \A i \in DOMAIN txs : txs[i] \in TxType
    OBVIOUS
  <2>2. [i \in DOMAIN txs |-> Effect(txs[i], a)] = [i \in DOMAIN txs |-> g[txs[i]]]
    BY <1>1, <2>1
  <2>. QED
    BY <2>2 DEF Net, SumOver
<1>. QED
  BY <1>1, <1>2

LEMMA NetAppend ==
  ASSUME NEW txs \in Seq(TxType), NEW t \in TxType, NEW a
  PROVE  Net(Append(txs, t), a) = Net(txs, a) + Effect(t, a)
<1>1. PICK g \in [TxType -> Int] :
          /\ \A u \in TxType : g[u] = Effect(u, a)
          /\ \A s \in Seq(TxType) : Net(s, a) = SumOver(g, s)
  BY NetSum
<1>2. Append(txs, t) \in Seq(TxType)
  BY AppendProperties
<1>. QED
  BY <1>1, <1>2, SumOverAppend

\* What transaction t creates or takes away, if it is from or to SYSTEM.
MintedBy(t) == IF t.from = System THEN Cost(t) ELSE 0
BurntBy(t) == IF t.to = System THEN t.amount ELSE 0

LEMMA FeesSum ==
  \E g \in [TxType -> Int] :
      /\ \A t \in TxType : g[t] = t.fee
      /\ \A txs \in Seq(TxType) : Fees(txs) = SumOver(g, txs)
<1>. DEFINE g == [t \in TxType |-> t.fee]
<1>1. g \in [TxType -> Int] /\ \A t \in TxType : g[t] = t.fee
  BY TxFields
<1>2. ASSUME NEW txs \in Seq(TxType) PROVE Fees(txs) = SumOver(g, txs)
  <2>1. \A i \in DOMAIN txs : txs[i] \in TxType
    OBVIOUS
  <2>2. [i \in DOMAIN txs |-> txs[i].fee] = [i \in DOMAIN txs |-> g[txs[i]]]
    BY <1>1, <2>1
  <2>. QED
    BY <2>2 DEF Fees, SumOver
<1>. QED
  BY <1>1, <1>2

LEMMA MintedSum ==
  \E g \in [TxType -> Int] :
      /\ \A t \in TxType : g[t] = MintedBy(t)
      /\ \A txs \in Seq(TxType) : Minted(txs) = SumOver(g, txs)
<1>. DEFINE g == [t \in TxType |-> MintedBy(t)]
<1>1. g \in [TxType -> Int] /\ \A t \in TxType : g[t] = MintedBy(t)
  BY TxFields DEF MintedBy
<1>2. ASSUME NEW txs \in Seq(TxType) PROVE Minted(txs) = SumOver(g, txs)
  <2>1. \A i \in DOMAIN txs : txs[i] \in TxType
    OBVIOUS
  <2>2. [i \in DOMAIN txs |-> IF txs[i].from = System THEN Cost(txs[i]) ELSE 0]
          = [i \in DOMAIN txs |-> g[txs[i]]]
    BY <1>1, <2>1 DEF MintedBy
  <2>. QED
    BY <2>2 DEF Minted, SumOver
<1>. QED
  BY <1>1, <1>2

LEMMA BurntSum ==
  \E g \in [TxType -> Int] :
      /\ \A t \in TxType : g[t] = BurntBy(t)
      /\ \A txs \in Seq(TxType) : Burnt(txs) = SumOver(g, txs)
<1>. DEFINE g == [t \in TxType |-> BurntBy(t)]
<1>1. g \in [TxType -> Int] /\ \A t \in TxType : g[t] = BurntBy(t)
  BY TxFields DEF BurntBy
<1>2. ASSUME NEW txs \in Seq(TxType) PROVE Burnt(txs) = SumOver(g, txs)
  <2>1. \A i \in DOMAIN txs : txs[i] \in TxType
    OBVIOUS
  <2>2. [i \in DOMAIN txs |-> IF txs[i].to = System THEN txs[i].amount ELSE 0]
          = [i \in DOMAIN txs |-> g[txs[i]]]
    BY <1>1, <2>1 DEF BurntBy
  <2>. QED
    BY <2>2 DEF Burnt, SumOver
<1>. QED
  BY <1>1, <1>2

\* Fees, what SYSTEM creates and what it takes, with one more transaction.
LEMMA TotalsAppend ==
  ASSUME NEW txs \in Seq(TxType), NEW t \in TxType
  PROVE  /\ Fees(Append(txs, t)) = Fees(txs) + t.fee /\ Fees(txs) \in Int
         /\ Minted(Append(txs, t)) = Minted(txs) + MintedBy(t) /\ Minted(txs) \in Int
         /\ Burnt(Append(txs, t)) = Burnt(txs) + BurntBy(t) /\ Burnt(txs) \in Int
<1>0. Append(txs, t) \in Seq(TxType)
  BY AppendProperties
<1>1. PICK f \in [TxType -> Int] :
          /\ \A u \in TxType : f[u] = u.fee
          /\ \A s \in Seq(TxType) : Fees(s) = SumOver(f, s)
  BY FeesSum
<1>2. PICK m \in [TxType -> Int] :
          /\ \A u \in TxType : m[u] = MintedBy(u)
          /\ \A s \in Seq(TxType) : Minted(s) = SumOver(m, s)
  BY MintedSum
<1>3. PICK b \in [TxType -> Int] :
          /\ \A u \in TxType : b[u] = BurntBy(u)
          /\ \A s \in Seq(TxType) : Burnt(s) = SumOver(b, s)
  BY BurntSum
<1>4. Fees(Append(txs, t)) = Fees(txs) + t.fee /\ Fees(txs) \in Int
  BY <1>0, <1>1, SumOverAppend
<1>5. Minted(Append(txs, t)) = Minted(txs) + MintedBy(t) /\ Minted(txs) \in Int
  BY <1>0, <1>2, SumOverAppend
<1>6. Burnt(Append(txs, t)) = Burnt(txs) + BurntBy(t) /\ Burnt(txs) \in Int
  BY <1>0, <1>3, SumOverAppend
<1>. QED
  BY <1>4, <1>5, <1>6

LEMMA TotalsEmpty == Fees(<<>>) = 0 /\ Minted(<<>>) = 0 /\ Burnt(<<>>) = 0
<1>1. <<>> \in Seq(TxType)
  BY EmptySeq
<1>. QED
  BY <1>1, SumOverEmpty, FeesSum, MintedSum, BurntSum

LEMMA TotalsInt ==
  ASSUME NEW txs \in Seq(TxType)
  PROVE  Fees(txs) \in Int /\ Minted(txs) \in Int /\ Burnt(txs) \in Int
<1>. DEFINE Q == {s \in Seq(TxType) : Fees(s) \in Int /\ Minted(s) \in Int /\ Burnt(s) \in Int}
<1>1. <<>> \in Q
  BY EmptySeq, TotalsEmpty
<1>2. ASSUME NEW s \in Seq(TxType), NEW t \in TxType, s \in Q PROVE Append(s, t) \in Q
  <2>1. t.fee \in Int /\ MintedBy(t) \in Int /\ BurntBy(t) \in Int
    BY TxFields DEF MintedBy, BurntBy
  <2>2. Append(s, t) \in Seq(TxType)
    BY AppendProperties
  <2>. QED
    BY <2>1, <2>2, TotalsAppend
<1>3. Seq(TxType) \subseteq Q
  <2>. HIDE DEF Q
  <2>. QED
    BY <1>1, <1>2, AppendInduction
<1>. QED
  BY <1>3

LEMMA GainInt ==
  ASSUME NEW b \in Body, NEW a
  PROVE  Gain(b, a) \in Int
BY NetInt DEF Gain, Body

LEMMA OwnsAppend ==
  ASSUME NEW c \in Seq(Body), NEW b \in Body, NEW a
  PROVE  Owns(Append(c, b), a) = Owns(c, a) + Gain(b, a)
<1>. DEFINE n == Len(c)
            d == Append(c, b)
            u == [i \in DOMAIN c |-> Gain(c[i], a)]
            v == [i \in DOMAIN d |-> Gain(d[i], a)]
<1>1. /\ n \in Nat /\ DOMAIN c = 1..n /\ d \in Seq(Body) /\ DOMAIN d = 1..(n + 1)
      /\ \A i \in 1..n : d[i] = c[i] /\ c[i] \in Body
      /\ d[n + 1] = b
  BY LenProperties, AppendProperties
<1>. HIDE DEF n, d
<1>2. u \in Seq(Int) /\ Len(u) = n /\ v \in Seq(Int) /\ Len(v) = n + 1
  <2>1. \A i \in 1..n : Gain(c[i], a) \in Int
    BY <1>1, GainInt
  <2>2. \A i \in 1..(n + 1) : Gain(d[i], a) \in Int
    BY <1>1, <2>1, GainInt
  <2>3. u \in [1..n -> Int] /\ v \in [1..(n + 1) -> Int]
    BY <1>1, <2>1, <2>2
  <2>. HIDE DEF u, v
  <2>. QED
    BY <1>1, <2>3
<1>3. (\A i \in 1..n : v[i] = u[i]) /\ v[n + 1] = Gain(b, a)
  BY <1>1
<1>4. SumSeq(u) = Owns(c, a) /\ SumSeq(v) = Owns(d, a)
  BY DEF Owns
<1>. HIDE DEF u, v
<1>5. SumSeq(v) = SumSeq(u) + v[n + 1]
  BY <1>2, <1>3, SumLonger
<1>. QED
  BY <1>3, <1>4, <1>5 DEF d

LEMMA TotalPlus ==
  ASSUME NEW f \in [Addr -> Int], NEW g \in [Addr -> Int], NEW h \in [Addr -> Int],
         \A a \in Addr : h[a] = f[a] + g[a]
  PROVE  SumFunction(h) = SumFunction(f) + SumFunction(g)
BY AddrAssumption, SumFunctionPlus

\* What is v at one wallet, or at none, if SYSTEM is meant.
LEMMA TotalAt ==
  ASSUME NEW x \in Addr \cup {System}, NEW v \in Int
  PROVE  /\ [a \in Addr |-> IF a = x THEN v ELSE 0] \in [Addr -> Int]
         /\ SumFunction([a \in Addr |-> IF a = x THEN v ELSE 0]) = IF x = System THEN 0 ELSE v
<1>. DEFINE f == [a \in Addr |-> IF a = x THEN v ELSE 0]
<1>1. f \in [Addr -> Int]
  OBVIOUS
<1>2. CASE x = System
  <2>1. f = [a \in Addr |-> 0]
    BY <1>2, AddrAssumption
  <2>2. SumFunction([a \in Addr |-> 0]) = 0
    BY AddrAssumption, SumFunctionZero
  <2>. QED
    BY <1>1, <1>2, <2>1, <2>2
<1>3. CASE x # System
  BY <1>1, <1>3, AddrAssumption, SumFunctionPoint
<1>. QED
  BY <1>2, <1>3

\* Over all wallets a transaction costs its fee: the amount arrives.  One of SYSTEM
\* creates amount and fee, and one to SYSTEM takes the amount away.
LEMMA TotalEffect ==
  ASSUME NEW t \in TxType
  PROVE  SumFunction([a \in Addr |-> Effect(t, a)]) = MintedBy(t) - BurntBy(t) - t.fee
<1>. DEFINE e == [a \in Addr |-> Effect(t, a)]
            f == [a \in Addr |-> IF a = t.to THEN t.amount ELSE 0]
            g == [a \in Addr |-> IF a = t.from THEN -Cost(t) ELSE 0]
<1>1. /\ t.from \in Addr \cup {System} /\ t.to \in Addr \cup {System}
      /\ t.amount \in Int /\ t.fee \in Int
      /\ Cost(t) = t.amount + t.fee /\ Cost(t) \in Int /\ -Cost(t) \in Int
  BY TxFields
<1>2. e \in [Addr -> Int]
  BY EffectInt
<1>3. \A a \in Addr : e[a] = f[a] + g[a]
  BY <1>1 DEF Effect
<1>4. f \in [Addr -> Int] /\ SumFunction(f) = IF t.to = System THEN 0 ELSE t.amount
  BY <1>1, TotalAt
<1>5. g \in [Addr -> Int] /\ SumFunction(g) = IF t.from = System THEN 0 ELSE -Cost(t)
  BY <1>1, TotalAt
<1>. HIDE DEF e, f, g
<1>6. SumFunction(e) = SumFunction(f) + SumFunction(g)
  BY <1>2, <1>3, <1>4, <1>5, TotalPlus
<1>7. SumFunction(f) = t.amount - BurntBy(t) /\ SumFunction(g) = MintedBy(t) - Cost(t)
  BY <1>1, <1>4, <1>5 DEF BurntBy, MintedBy
<1>8. BurntBy(t) \in Int /\ MintedBy(t) \in Int
  BY <1>1 DEF BurntBy, MintedBy
<1>. QED
  BY <1>1, <1>6, <1>7, <1>8 DEF e

Nets(txs) == [a \in Addr |-> Net(txs, a)]

LEMMA TotalNet ==
  ASSUME NEW txs \in Seq(TxType)
  PROVE  SumFunction(Nets(txs)) = Minted(txs) - Burnt(txs) - Fees(txs)
<1>. DEFINE Q == {s \in Seq(TxType) : SumFunction(Nets(s)) = Minted(s) - Burnt(s) - Fees(s)}
<1>1. <<>> \in Q
  <2>1. <<>> \in Seq(TxType) /\ \A a \in Addr : Net(<<>>, a) = 0
    <3>1. ASSUME NEW a \in Addr PROVE [i \in DOMAIN <<>> |-> Effect(<<>>[i], a)] = <<>>
      OBVIOUS
    <3>. QED
      BY <3>1, SumEmpty DEF Net
  <2>2. Nets(<<>>) = [a \in Addr |-> 0]
    BY <2>1 DEF Nets
  <2>3. SumFunction([a \in Addr |-> 0]) = 0
    BY AddrAssumption, SumFunctionZero
  <2>4. SumFunction(Nets(<<>>)) = 0
    BY <2>2, <2>3, Zenon
  <2>. QED
    BY <2>1, <2>4, TotalsEmpty
<1>2. ASSUME NEW s \in Seq(TxType), NEW t \in TxType, s \in Q PROVE Append(s, t) \in Q
  <2>. DEFINE e == [a \in Addr |-> Effect(t, a)]
  <2>1. Append(s, t) \in Seq(TxType)
    BY AppendProperties
  <2>2. Nets(s) \in [Addr -> Int] /\ Nets(Append(s, t)) \in [Addr -> Int] /\ e \in [Addr -> Int]
    BY <2>1, NetInt, EffectInt DEF Nets
  <2>3. \A a \in Addr : Nets(Append(s, t))[a] = Nets(s)[a] + e[a]
    BY NetAppend DEF Nets
  <2>4. SumFunction(e) = MintedBy(t) - BurntBy(t) - t.fee
    BY TotalEffect
  <2>. HIDE DEF e
  <2>5. SumFunction(Nets(Append(s, t))) = SumFunction(Nets(s)) + SumFunction(e)
    BY <2>2, <2>3, TotalPlus
  <2>6. SumFunction(Nets(s)) = Minted(s) - Burnt(s) - Fees(s)
    BY <1>2
  <2>7. t.fee \in Int /\ MintedBy(t) \in Int /\ BurntBy(t) \in Int
    BY TxFields DEF MintedBy, BurntBy
  <2>8. SumFunction(Nets(Append(s, t)))
          = Minted(Append(s, t)) - Burnt(Append(s, t)) - Fees(Append(s, t))
    BY <2>4, <2>5, <2>6, <2>7, TotalsAppend
  <2>. QED
    BY <2>1, <2>8
<1>3. Seq(TxType) \subseteq Q
  <2>. HIDE DEF Q
  <2>. QED
    BY <1>1, <1>2, AppendInduction
<1>. QED
  BY <1>3

\* A block adds its coinbase to what all hold, and its fees leave their senders.
LEMMA TotalGain ==
  ASSUME NEW b \in Body
  PROVE  SumFunction([a \in Addr |-> Gain(b, a)])
           = (IF b.miner = System THEN 0 ELSE b.coinbase)
             + (Minted(b.txs) - Burnt(b.txs) - Fees(b.txs))
<1>. DEFINE g == [a \in Addr |-> Gain(b, a)]
            n == Nets(b.txs)
            p == [a \in Addr |-> IF a = b.miner THEN b.coinbase ELSE 0]
<1>1. b.txs \in Seq(TxType) /\ b.miner \in Addr \cup {System} /\ b.coinbase \in Int
  BY DEF Body
<1>2. g \in [Addr -> Int] /\ n \in [Addr -> Int]
  BY <1>1, GainInt, NetInt DEF Nets
<1>3. \A a \in Addr : g[a] = p[a] + n[a]
  BY DEF Gain, Nets
<1>4. SumFunction(n) = Minted(b.txs) - Burnt(b.txs) - Fees(b.txs)
  BY <1>1, TotalNet
<1>5. p \in [Addr -> Int] /\ SumFunction(p) = IF b.miner = System THEN 0 ELSE b.coinbase
  BY <1>1, TotalAt
<1>. HIDE DEF g, n, p
<1>6. SumFunction(g) = SumFunction(p) + SumFunction(n)
  BY <1>2, <1>3, <1>5, TotalPlus
<1>. QED
  BY <1>4, <1>5, <1>6 DEF g

\* Each coinbase pays the reward of its height and the fees, and only blocks
\* found here hold payments of SYSTEM.
Rewarded(c) ==
    \A i \in DOMAIN c : /\ c[i].coinbase = CoinbaseOf(i, c[i].txs)
                        /\ c[i].miner # MinerAddress => Minted(c[i].txs) = 0

Supplies(c) == SumSeq([i \in DOMAIN c |-> Supplied(c[i], i)])

LEMMA SuppliedInt ==
  ASSUME NEW b \in Body, NEW h \in Nat
  PROVE  Supplied(b, h) \in Int
<1>1. b.txs \in Seq(TxType) /\ b.coinbase \in Int /\ BlockReward(h) \in Int
  BY RewardNat DEF Body
<1>2. Minted(b.txs) \in Int /\ Burnt(b.txs) \in Int
  BY <1>1, TotalsInt
<1>. QED
  BY <1>1, <1>2 DEF Supplied

LEMMA SuppliesAppend ==
  ASSUME NEW c \in Seq(Body), NEW b \in Body
  PROVE  /\ Supplies(Append(c, b)) = Supplies(c) + Supplied(b, Len(c) + 1)
         /\ Supplies(c) \in Int
<1>. DEFINE n == Len(c)
            d == Append(c, b)
            u == [i \in DOMAIN c |-> Supplied(c[i], i)]
            v == [i \in DOMAIN d |-> Supplied(d[i], i)]
<1>1. /\ n \in Nat /\ DOMAIN c = 1..n /\ d \in Seq(Body) /\ DOMAIN d = 1..(n + 1)
      /\ \A i \in 1..n : d[i] = c[i] /\ c[i] \in Body
      /\ d[n + 1] = b
  BY LenProperties, AppendProperties
<1>. HIDE DEF d, n
<1>2. /\ \A i \in 1..n : Supplied(c[i], i) \in Int
      /\ \A i \in 1..(n + 1) : Supplied(d[i], i) \in Int
  <2>1. ASSUME NEW i \in 1..n PROVE Supplied(c[i], i) \in Int
    BY <1>1, SuppliedInt
  <2>2. Supplied(b, n + 1) \in Int
    BY <1>1, SuppliedInt
  <2>. QED
    BY <1>1, <2>1, <2>2
<1>3. u \in [1..n -> Int] /\ v \in [1..(n + 1) -> Int]
  BY <1>1, <1>2
<1>4. (\A i \in 1..n : v[i] = u[i]) /\ v[n + 1] = Supplied(b, n + 1)
  BY <1>1
<1>5. Supplies(c) = SumSeq(u) /\ Supplies(d) = SumSeq(v)
  BY DEF Supplies
<1>. HIDE DEF u, v
<1>6. u \in Seq(Int) /\ Len(u) = n /\ v \in Seq(Int) /\ Len(v) = n + 1
  BY <1>1, <1>3
<1>7. SumSeq(v) = SumSeq(u) + v[n + 1] /\ SumSeq(u) \in Int
  BY <1>4, <1>6, SumLonger, SumInt
<1>. QED
  BY <1>4, <1>5, <1>7 DEF d, n

AllOwn(c) == [a \in Addr |-> Owns(c, a)]

\* What a block whose coinbase may have wrapped adds to what all own.
LEMMA TotalSupplied ==
  ASSUME NEW b \in Body, NEW h \in Nat,
         b.coinbase = CoinbaseOf(h, b.txs),
         b.miner # MinerAddress => Minted(b.txs) = 0
  PROVE  \E k \in Int : SumFunction([a \in Addr |-> Gain(b, a)]) = Supplied(b, h) + Width * k
<1>. DEFINE r == BlockReward(h)
            f == Fees(b.txs)
            m == Minted(b.txs)
            u == Burnt(b.txs)
            g == SumFunction([a \in Addr |-> Gain(b, a)])
<1>1. b.txs \in Seq(TxType) /\ b.coinbase \in Int
  BY DEF Body
<1>2. r \in Int /\ f \in Int /\ m \in Int /\ u \in Int
  BY <1>1, CoinbaseInt, TotalsInt
<1>3. g = (IF b.miner = System THEN 0 ELSE b.coinbase) + (m - u - f)
  BY TotalGain
<1>4. Supplied(b, h) = r + m - u - (IF b.miner = System THEN b.coinbase ELSE 0)
  BY <1>2 DEF Supplied
<1>5. b.coinbase = Int64(r + f) /\ r + f \in Int
  BY <1>2 DEF CoinbaseOf
<1>. HIDE DEF r, f, m, u, g
<1>6. PICK k \in Int : r + f = b.coinbase + Width * k
  BY <1>5, Int64Range
<1>7. Width * (-k) = -(Width * k) /\ Width * k \in Int /\ -k \in Int
  BY WidthNat
<1>8. g = Supplied(b, h) + Width * (-k)
  BY <1>1, <1>2, <1>3, <1>4, <1>6, <1>7
<1>. QED
  BY <1>7, <1>8 DEF g

LEMMA SupplyOfRewarded ==
  ASSUME NEW c \in Seq(Body), Rewarded(c)
  PROVE  \E k \in Int : SumFunction(AllOwn(c)) = Supplies(c) + Width * k
<1>. DEFINE Q == {d \in Seq(Body) : Rewarded(d) =>
                      \E k \in Int : SumFunction(AllOwn(d)) = Supplies(d) + Width * k}
<1>1. <<>> \in Q
  <2>1. <<>> \in Seq(Body)
    BY EmptySeq
  <2>2. \A a \in Addr : Owns(<<>>, a) = 0
    <3>1. ASSUME NEW a \in Addr PROVE [i \in DOMAIN <<>> |-> Gain(<<>>[i], a)] = <<>>
      OBVIOUS
    <3>. QED
      BY <3>1, SumEmpty DEF Owns
  <2>3. AllOwn(<<>>) = [a \in Addr |-> 0]
    BY <2>2 DEF AllOwn
  <2>4. SumFunction([a \in Addr |-> 0]) = 0
    BY AddrAssumption, SumFunctionZero
  <2>5. SumFunction(AllOwn(<<>>)) = 0
    BY <2>3, <2>4, Zenon
  <2>6. Supplies(<<>>) = 0
    <3>1. [i \in DOMAIN <<>> |-> Supplied(<<>>[i], i)] = <<>>
      OBVIOUS
    <3>. QED
      BY <3>1, SumEmpty, Zenon DEF Supplies
  <2>7. SumFunction(AllOwn(<<>>)) = Supplies(<<>>) + Width * 0
    BY <2>5, <2>6, WidthNat
  <2>. QED
    BY <2>1, <2>7
<1>2. ASSUME NEW d \in Seq(Body), NEW b \in Body, d \in Q PROVE Append(d, b) \in Q
  <2>. DEFINE e == Append(d, b)
              n == Len(d)
              g == [a \in Addr |-> Gain(b, a)]
  <2>1. /\ e \in Seq(Body) /\ n \in Nat
        /\ DOMAIN d = 1..n /\ DOMAIN e = 1..(n + 1)
        /\ \A i \in 1..n : e[i] = d[i]
        /\ e[n + 1] = b
    BY LenProperties, AppendProperties
  <2>2. /\ AllOwn(d) \in [Addr -> Int] /\ AllOwn(e) \in [Addr -> Int] /\ g \in [Addr -> Int]
    BY <2>1, OwnsInt, GainInt DEF AllOwn
  <2>3. \A a \in Addr : AllOwn(e)[a] = AllOwn(d)[a] + g[a]
    BY OwnsAppend DEF AllOwn
  <2>4. /\ Supplies(e) = Supplies(d) + Supplied(b, n + 1)
        /\ Supplies(d) \in Int /\ Supplied(b, n + 1) \in Int
    BY <2>1, SuppliesAppend, SuppliedInt
  <2>. SUFFICES ASSUME Rewarded(e)
                PROVE  \E k \in Int : SumFunction(AllOwn(e)) = Supplies(e) + Width * k
    BY <2>1
  <2>. HIDE DEF e, n
  <2>5. /\ b.coinbase = CoinbaseOf(n + 1, b.txs)
        /\ b.miner # MinerAddress => Minted(b.txs) = 0
        /\ Rewarded(d)
    BY <2>1 DEF Rewarded
  <2>6. PICK k \in Int : SumFunction(g) = Supplied(b, n + 1) + Width * k
    BY <2>1, <2>5, TotalSupplied
  <2>. HIDE DEF g
  <2>7. SumFunction(AllOwn(e)) = SumFunction(AllOwn(d)) + SumFunction(g)
    BY <2>2, <2>3, TotalPlus
  <2>8. PICK l \in Int : SumFunction(AllOwn(d)) = Supplies(d) + Width * l
    BY <1>2, <2>5
  <2>9. Width * (k + l) = Width * k + Width * l /\ Width * k \in Int /\ Width * l \in Int
    BY WidthNat
  <2>10. SumFunction(AllOwn(e)) = Supplies(e) + Width * (k + l)
    BY <2>4, <2>6, <2>7, <2>8, <2>9
  <2>. QED
    BY <2>10
<1>3. Seq(Body) \subseteq Q
  <2>. HIDE DEF Q
  <2>. QED
    BY <1>1, <1>2, AppendInduction
<1>. QED
  BY <1>3

\* Each balance is what is owned but for a multiple of the width, and so are they
\* all together.
LEMMA TotalWrapped ==
  ASSUME NEW c \in Seq(Body)
  PROVE  \E k \in Int : SumFunction(AllOwn(c)) = SumFunction(Balances(c)) + Width * k
<1>1. \A a \in Addr : \E k \in Int : Owns(c, a) = Balance(c, a) + Width * k
  BY OwnsInt, Int64Range DEF Balance
<1>. DEFINE wraps == [a \in Addr |-> CHOOSE k \in Int : Owns(c, a) = Balance(c, a) + Width * k]
            w == [a \in Addr |-> Width * wraps[a]]
<1>2. \A a \in Addr : wraps[a] \in Int /\ Owns(c, a) = Balance(c, a) + Width * wraps[a]
  BY <1>1
<1>3. wraps \in [Addr -> Int]
  BY <1>2
<1>. HIDE DEF wraps
<1>4. w \in [Addr -> Int] /\ \A a \in Addr : w[a] = Width * wraps[a]
  BY <1>2, WidthNat
<1>. HIDE DEF w
<1>5. SumFunction(w) = Width * SumFunction(wraps) /\ SumFunction(wraps) \in Int
  <2>1. IsFiniteSet(Addr) /\ Width \in Int
    BY AddrAssumption, WidthNat
  <2>2. SumFunction(w) = Width * SumFunction(wraps)
    BY <1>3, <1>4, <2>1, SumFunctionTimes
  <2>3. SumFunction(wraps) \in Int
    BY <1>3, <2>1, SumFunctionInt
  <2>. QED
    BY <2>2, <2>3
<1>6. AllOwn(c) \in [Addr -> Int] /\ Balances(c) \in [Addr -> Int]
  BY OwnsInt, BalanceInt DEF AllOwn, Balances
<1>7. \A a \in Addr : AllOwn(c)[a] = Balances(c)[a] + w[a]
  BY <1>2, <1>4 DEF AllOwn, Balances
<1>8. SumFunction(AllOwn(c)) = SumFunction(Balances(c)) + SumFunction(w)
  BY <1>4, <1>6, <1>7, TotalPlus
<1>. QED
  BY <1>5, <1>8

LEMMA SupplyWrapped ==
  ASSUME NEW c \in Seq(Body), Rewarded(c)
  PROVE  Int64(SumFunction(Balances(c))) = Int64(Supplies(c))
<1>1. PICK k \in Int : SumFunction(AllOwn(c)) = Supplies(c) + Width * k
  BY SupplyOfRewarded
<1>2. PICK l \in Int : SumFunction(AllOwn(c)) = SumFunction(Balances(c)) + Width * l
  BY TotalWrapped
<1>3. SumFunction(Balances(c)) \in Int
  <2>1. Balances(c) \in [Addr -> Int]
    BY BalanceInt DEF Balances
  <2>. QED
    BY <2>1, AddrAssumption, SumFunctionInt
<1>4. Supplies(c) \in Int
  <2>1. \A i \in DOMAIN c : Supplied(c[i], i) \in Int
    BY SuppliedInt
  <2>2. [i \in DOMAIN c |-> Supplied(c[i], i)] \in Seq(Int)
    BY <2>1
  <2>. QED
    BY <2>2, SumInt DEF Supplies
<1>5. Width * (k - l) = Width * k - Width * l /\ Width * k \in Int /\ Width * l \in Int
      /\ k - l \in Int
  BY WidthNat
<1>6. SumFunction(Balances(c)) = Supplies(c) + Width * (k - l)
  BY <1>1, <1>2, <1>3, <1>4, <1>5
<1>. QED
  BY <1>3, <1>4, <1>5, <1>6, Int64Same

\* If a sender whose costs fit is not in debt beyond int64 and each of its
\* transactions is covered when its turn comes, it is not in debt after them all:
\* what it owns does not wrap to more than it is.
LEMMA SendersCovered ==
  ASSUME NEW c \in Seq(Body), NEW txs \in Seq(TxType), NEW a, Owns(c, a) >= -Int64Limit,
         \A i \in DOMAIN txs : txs[i].from = a =>
             /\ Cost(txs[i]) < Int64Limit
             /\ Int64(Owns(c, a) + Net(SubSeq(txs, 1, i - 1), a)) >= Int64(Cost(txs[i])),
         NEW j \in DOMAIN txs, txs[j].from = a
  PROVE  Owns(c, a) + Net(txs, a) >= 0
<1>. DEFINE Turn(s, i) ==
                s[i].from = a =>
                    /\ Cost(s[i]) < Int64Limit
                    /\ Int64(Owns(c, a) + Net(SubSeq(s, 1, i - 1), a)) >= Int64(Cost(s[i]))
            Turns(s) == \A i \in DOMAIN s : Turn(s, i)
            After(s) == /\ Owns(c, a) + Net(s, a) >= -Int64Limit
                        /\ \A i \in DOMAIN s : s[i].from = a => Owns(c, a) + Net(s, a) >= 0
            Q == {s \in Seq(TxType) : Turns(s) => After(s)}
<1>0. Owns(c, a) \in Int /\ Int64Limit \in Nat
  BY OwnsInt, LimitAssumption
<1>1. <<>> \in Q
  <2>1. [i \in DOMAIN <<>> |-> Effect(<<>>[i], a)] = <<>>
    OBVIOUS
  <2>2. Net(<<>>, a) = 0
    BY <2>1, SumEmpty DEF Net
  <2>3. After(<<>>)
    BY <1>0, <2>2
  <2>. QED
    BY <2>3, EmptySeq
<1>2. ASSUME NEW s \in Seq(TxType), NEW t \in TxType, s \in Q PROVE Append(s, t) \in Q
  <2>. DEFINE e == Append(s, t)
              n == Len(s)
              x == Owns(c, a) + Net(s, a)
  <2>1. /\ e \in Seq(TxType) /\ n \in Nat /\ DOMAIN s = 1..n /\ DOMAIN e = 1..(n + 1)
        /\ \A i \in 1..n : e[i] = s[i] /\ s[i] \in TxType
        /\ e[n + 1] = t
    BY LenProperties, AppendProperties
  <2>2. \A i \in 0..n : SubSeq(e, 1, i) = SubSeq(s, 1, i)
    BY PrefixOfAppend
  <2>3. SubSeq(s, 1, n) = s
    BY SubSeqFull
  <2>4. Net(e, a) = Net(s, a) + Effect(t, a) /\ Net(s, a) \in Int /\ Effect(t, a) \in Int
    BY NetAppend, NetInt, EffectInt
  <2>. HIDE DEF e, n
  <2>. SUFFICES ASSUME Turns(e) PROVE After(e)
    BY <2>1 DEF e
  <2>5. Turns(s)
    <3>. SUFFICES ASSUME NEW i \in 1..n PROVE Turn(s, i)
      BY <2>1
    <3>1. i \in DOMAIN e /\ e[i] = s[i] /\ SubSeq(e, 1, i - 1) = SubSeq(s, 1, i - 1)
      BY <2>1, <2>2
    <3>2. Turn(e, i)
      BY <3>1
    <3>. QED
      BY <3>1, <3>2
  <2>6. After(s)
    BY <1>2, <2>5
  <2>7. x \in Int /\ x >= -Int64Limit /\ Owns(c, a) + Net(e, a) = x + Effect(t, a)
    BY <1>0, <2>4, <2>6
  <2>8. CASE t.from = a
    <3>1. PICK i \in DOMAIN e : i - 1 = n /\ e[i] = t /\ n \in 0..n
      <4>1. n + 1 \in DOMAIN e /\ (n + 1) - 1 = n /\ e[n + 1] = t /\ n \in 0..n
        BY <2>1
      <4>. QED
        BY <4>1
    <3>2. SubSeq(e, 1, i - 1) = s /\ Turn(e, i)
      BY <2>2, <2>3, <3>1
    <3>3. Cost(t) < Int64Limit /\ Int64(x) >= Int64(Cost(t))
      BY <2>8, <3>1, <3>2
    <3>. HIDE DEF x
    <3>4. /\ Cost(t) \in Nat /\ t.amount \in Nat
          /\ Effect(t, a) = (IF t.to = a THEN t.amount ELSE 0) - Cost(t)
      BY <2>8, TxFields DEF Effect
    <3>5. Int64(Cost(t)) = Cost(t)
      BY <1>0, <3>3, <3>4, Int64Fits
    <3>6. Int64(x) <= x /\ Int64(x) \in Int
      BY <2>7, Int64Low, Int64Range
    <3>7. x + Effect(t, a) >= 0
      BY <2>7, <3>3, <3>4, <3>5, <3>6
    <3>8. Owns(c, a) + Net(e, a) >= 0 /\ Owns(c, a) + Net(e, a) >= -Int64Limit
      BY <1>0, <2>4, <2>7, <3>7
    <3>. QED
      BY <3>8
  <2>9. CASE t.from # a
    <3>1. Effect(t, a) \in Nat
      BY <2>9, TxFields DEF Effect
    <3>2. ASSUME NEW i \in 1..(n + 1), e[i].from = a PROVE x >= 0
      <4>1. i # n + 1
        BY <2>1, <2>9, <3>2
      <4>2. i \in 1..n
        BY <2>1, <4>1
      <4>. QED
        BY <2>1, <2>6, <3>2, <4>2
    <3>. HIDE DEF x
    <3>. QED
      BY <1>0, <2>1, <2>7, <3>1, <3>2
  <2>. QED
    BY <2>8, <2>9
<1>3. Seq(TxType) \subseteq Q
  <2>. HIDE DEF Q
  <2>. QED
    BY <1>1, <1>2, AppendInduction
<1>4. After(txs)
  BY <1>3
<1>. QED
  BY <1>4

\* Transactions of which none is of SYSTEM create nothing.
LEMMA NothingMinted ==
  ASSUME NEW txs \in Seq(TxType), \A i \in DOMAIN txs : txs[i].from # System
  PROVE  Minted(txs) = 0
<1>. DEFINE Q == {s \in Seq(TxType) : (\A i \in DOMAIN s : s[i].from # System) => Minted(s) = 0}
<1>1. <<>> \in Q
  BY EmptySeq, TotalsEmpty
<1>2. ASSUME NEW s \in Seq(TxType), NEW t \in TxType, s \in Q PROVE Append(s, t) \in Q
  <2>. DEFINE e == Append(s, t)
  <2>1. /\ e \in Seq(TxType) /\ Len(s) \in Nat /\ DOMAIN s = 1..Len(s)
        /\ DOMAIN e = 1..(Len(s) + 1) /\ e[Len(s) + 1] = t
        /\ \A i \in 1..Len(s) : e[i] = s[i]
    BY LenProperties, AppendProperties
  <2>2. Minted(e) = Minted(s) + MintedBy(t)
    BY TotalsAppend
  <2>. HIDE DEF e
  <2>. SUFFICES ASSUME \A i \in DOMAIN e : e[i].from # System PROVE Minted(e) = 0
    BY <2>1 DEF e
  <2>3. Minted(s) = 0 /\ MintedBy(t) = 0
    BY <1>2, <2>1 DEF MintedBy
  <2>. QED
    BY <2>2, <2>3
<1>3. Seq(TxType) \subseteq Q
  <2>. HIDE DEF Q
  <2>. QED
    BY <1>1, <1>2, AppendInduction
<1>. QED
  BY <1>3

\* Block b on chain c leaves none of its senders in debt, but for the exceptions
\* of PeerSpendsCovered.
Pays(c, b) ==
    \A k \in DOMAIN b.txs :
        SumsFit(b, b.txs[k].from) /\ Owns(c, b.txs[k].from) >= -Int64Limit
            => Owns(Append(c, b), b.txs[k].from) >= 0

LEMMA ValidBodyPays ==
  ASSUME NEW c \in Seq(Body), NEW b \in Body, ValidBody(c, b)
  PROVE  Pays(c, b)
<1>1. b.txs \in Seq(TxType) /\ b.coinbase \in Int
  BY DEF Body
<1>. SUFFICES ASSUME NEW k \in DOMAIN b.txs,
                     SumsFit(b, b.txs[k].from), Owns(c, b.txs[k].from) >= -Int64Limit
              PROVE  Owns(Append(c, b), b.txs[k].from) >= 0
  BY DEF Pays
<1>. DEFINE a == b.txs[k].from
<1>2. ASSUME NEW i \in DOMAIN b.txs, b.txs[i].from = a
      PROVE  /\ Cost(b.txs[i]) < Int64Limit
             /\ Int64(Owns(c, a) + Net(SubSeq(b.txs, 1, i - 1), a)) >= Int64(Cost(b.txs[i]))
  <2>1. Cost(b.txs[i]) < Int64Limit
    BY <1>2 DEF SumsFit
  <2>2. Covers(c, b, i)
    BY DEF ValidBody
  <2>. QED
    BY <1>2, <2>1, <2>2 DEF Covers
<1>3. b.txs[k].from = a /\ Owns(c, a) >= -Int64Limit /\ (b.miner = a => b.coinbase >= 0)
  BY DEF SumsFit
<1>. HIDE DEF a
<1>4. Owns(c, a) + Net(b.txs, a) >= 0
  BY <1>1, <1>2, <1>3, SendersCovered
<1>5. Owns(Append(c, b), a) = Owns(c, a) + Gain(b, a)
  BY OwnsAppend
<1>6. Owns(c, a) \in Int /\ Net(b.txs, a) \in Int
  BY <1>1, OwnsInt, NetInt
<1>7. Gain(b, a) \in Int /\ Gain(b, a) >= Net(b.txs, a)
  BY <1>1, <1>3, <1>6 DEF Gain
<1>. QED
  BY <1>3, <1>4, <1>5, <1>6, <1>7

\* Each block of chain c that was not built here pays, as PeerSpendsCovered says.
Covered(c) ==
    \A i \in DOMAIN c : c[i].miner # MinerAddress =>
        \A k \in DOMAIN c[i].txs :
            SumsFit(c[i], c[i].txs[k].from)
            /\ Owns(SubSeq(c, 1, i - 1), c[i].txs[k].from) >= -Int64Limit
                => Owns(SubSeq(c, 1, i), c[i].txs[k].from) >= 0

Sound == {c \in Seq(Body) : Rewarded(c) /\ Covered(c)}

LEMMA SoundAppend ==
  ASSUME NEW c \in Sound, NEW b \in Body,
         b.coinbase = CoinbaseOf(Len(c) + 1, b.txs),
         b.miner # MinerAddress => Minted(b.txs) = 0 /\ Pays(c, b)
  PROVE  Append(c, b) \in Sound
<1>. DEFINE n == Len(c)
            d == Append(c, b)
<1>1. c \in Seq(Body) /\ Rewarded(c) /\ Covered(c)
  BY DEF Sound
<1>2. /\ n \in Nat /\ DOMAIN c = 1..n /\ d \in Seq(Body) /\ DOMAIN d = 1..(n + 1)
      /\ \A i \in 1..n : d[i] = c[i] /\ c[i] \in Body
      /\ d[n + 1] = b
  BY <1>1, LenProperties, AppendProperties
<1>3. /\ \A i \in 0..n : SubSeq(d, 1, i) = SubSeq(c, 1, i)
      /\ SubSeq(c, 1, n) = c
  BY <1>1, PrefixOfAppend, SubSeqFull
<1>4. SubSeq(d, 1, n + 1) = d
  BY <1>1, <1>2, AppendProperties, SubSeqFull
<1>5. b.coinbase = CoinbaseOf(n + 1, b.txs)
      /\ (b.miner # MinerAddress => Minted(b.txs) = 0 /\ Pays(c, b))
  OBVIOUS
<1>6. Pays(c, b) =>
        \A k \in DOMAIN b.txs :
            SumsFit(b, b.txs[k].from) /\ Owns(c, b.txs[k].from) >= -Int64Limit
                => Owns(d, b.txs[k].from) >= 0
  BY DEF Pays
<1>. HIDE DEF n, d
<1>7. Rewarded(d)
  <2>. SUFFICES ASSUME NEW i \in 1..(n + 1)
                PROVE  /\ d[i].coinbase = CoinbaseOf(i, d[i].txs)
                       /\ d[i].miner # MinerAddress => Minted(d[i].txs) = 0
    BY <1>2 DEF Rewarded
  <2>1. CASE i = n + 1
    BY <1>2, <1>5, <2>1
  <2>2. CASE i # n + 1
    <3>1. i \in DOMAIN c /\ d[i] = c[i]
      BY <1>2, <2>2
    <3>. QED
      BY <1>1, <3>1 DEF Rewarded
  <2>. QED
    BY <2>1, <2>2
<1>8. Covered(d)
  <2>. SUFFICES ASSUME NEW i \in 1..(n + 1), d[i].miner # MinerAddress,
                       NEW k \in DOMAIN d[i].txs,
                       SumsFit(d[i], d[i].txs[k].from),
                       Owns(SubSeq(d, 1, i - 1), d[i].txs[k].from) >= -Int64Limit
                PROVE  Owns(SubSeq(d, 1, i), d[i].txs[k].from) >= 0
    BY <1>2 DEF Covered
  <2>1. CASE i = n + 1
    <3>1. d[i] = b /\ i - 1 = n /\ n \in 0..n
      BY <1>2, <2>1
    <3>2. SubSeq(d, 1, i - 1) = c /\ SubSeq(d, 1, i) = d
      BY <1>3, <1>4, <2>1, <3>1
    <3>. QED
      BY <1>5, <1>6, <3>1, <3>2
  <2>2. CASE i # n + 1
    <3>1. i \in DOMAIN c /\ d[i] = c[i] /\ i - 1 \in 0..n /\ i \in 0..n
      BY <1>2, <2>2
    <3>2. SubSeq(d, 1, i - 1) = SubSeq(c, 1, i - 1) /\ SubSeq(d, 1, i) = SubSeq(c, 1, i)
      BY <1>3, <3>1
    <3>. QED
      BY <1>1, <3>1, <3>2 DEF Covered
  <2>. QED
    BY <2>1, <2>2
<1>. QED
  BY <1>2, <1>7, <1>8 DEF Sound, d

LEMMA SoundClosed == Closed(Sound)
<1>1. <<>> \in Sound
  BY EmptySeq DEF Sound, Rewarded, Covered
<1>2. ASSUME NEW c \in Sound, NEW n \in 0..Len(c), n # 0 PROVE SubSeq(c, 1, n) \in Sound
  <2>. DEFINE p == SubSeq(c, 1, n)
  <2>0. n \in 1..Len(c)
    <3>1. Len(c) \in Nat
      BY LenProperties DEF Sound
    <3>. QED
      BY <1>2, <3>1
  <2>1. c \in Seq(Body) /\ Rewarded(c) /\ Covered(c) /\ Len(c) \in Nat /\ DOMAIN c = 1..Len(c)
    BY LenProperties DEF Sound
  <2>2. p \in Seq(Body) /\ DOMAIN p = 1..n /\ \A i \in 1..n : p[i] = c[i] /\ i \in DOMAIN c
    BY <2>0, <2>1, PrefixFile, SubSeqProperties, LenProperties
  <2>3. ASSUME NEW i \in 0..n PROVE SubSeq(p, 1, i) = SubSeq(c, 1, i)
    <3>1. CASE i = 0
      BY <3>1, SubSeqEmpty
    <3>2. CASE i # 0
      <4>1. i \in 1..n
        BY <2>1, <3>2
      <4>. QED
        BY <2>0, <2>1, <4>1, PrefixOfPrefix
    <3>. QED
      BY <3>1, <3>2
  <2>. HIDE DEF p
  <2>4. Rewarded(p)
    BY <2>1, <2>2 DEF Rewarded
  <2>5. Covered(p)
    <3>. SUFFICES ASSUME NEW i \in 1..n, p[i].miner # MinerAddress,
                         NEW k \in DOMAIN p[i].txs,
                         SumsFit(p[i], p[i].txs[k].from),
                         Owns(SubSeq(p, 1, i - 1), p[i].txs[k].from) >= -Int64Limit
                  PROVE  Owns(SubSeq(p, 1, i), p[i].txs[k].from) >= 0
      BY <2>2 DEF Covered
    <3>1. p[i] = c[i] /\ i \in DOMAIN c /\ i - 1 \in 0..n /\ i \in 0..n
      BY <2>1, <2>2
    <3>2. SubSeq(p, 1, i - 1) = SubSeq(c, 1, i - 1) /\ SubSeq(p, 1, i) = SubSeq(c, 1, i)
      BY <2>3, <3>1
    <3>. QED
      BY <2>1, <3>1, <3>2 DEF Covered
  <2>. QED
    BY <2>2, <2>4, <2>5 DEF Sound, p
<1>3. ASSUME NEW c \in Sound, NEW b \in Body, ValidBody(c, b) PROVE Append(c, b) \in Sound
  <2>1. c \in Seq(Body) /\ b.txs \in Seq(TxType)
    BY DEF Sound, Body
  <2>2. b.coinbase = CoinbaseOf(Len(c) + 1, b.txs) /\ \A i \in DOMAIN b.txs : b.txs[i].from # System
    BY <1>3 DEF ValidBody
  <2>3. Minted(b.txs) = 0 /\ Pays(c, b)
    BY <1>3, <2>1, <2>2, NothingMinted, ValidBodyPays
  <2>. QED
    BY <2>2, <2>3, SoundAppend
<1>4. ASSUME NEW c \in Sound, NEW n \in 0..Len(c), n = 0 PROVE SubSeq(c, 1, n) \in Sound
  <2>1. SubSeq(c, 1, 0) = <<>>
    BY SubSeqEmpty
  <2>. QED
    BY <1>1, <1>4, <2>1
<1>. QED
  BY <1>1, <1>2, <1>3, <1>4 DEF Closed, Sound

LedgerInv == TypeInv /\ ChainsIn(Sound)

LEMMA LedgerNext == LedgerInv /\ [Next]_vars => LedgerInv'
<1>. SUFFICES ASSUME LedgerInv, [Next]_vars PROVE ChainsIn(Sound)'
  BY TypeNext DEF LedgerInv
<1>1. ASSUME NEW w \in Worker, StartMining(w)
      PROVE  Append(job'[w].base, job'[w].body) \in Sound
  <2>. DEFINE b == job'[w].body
  <2>1. /\ job'[w].base = chain /\ b \in Body /\ b.miner = MinerAddress
        /\ b.coinbase = CoinbaseOf(Len(chain) + 1, b.txs)
    BY <1>1, StartedBody DEF LedgerInv
  <2>. HIDE DEF b
  <2>2. chain \in Sound
    BY DEF LedgerInv, ChainsIn
  <2>3. Append(chain, b) \in Sound
    BY <2>1, <2>2, SoundAppend
  <2>. QED
    BY <2>1, <2>3 DEF b
<1>. QED
  BY <1>1, ChainsStay, SoundClosed DEF LedgerInv

LEMMA LedgerAlways == Spec => []LedgerInv
<1>1. Init => LedgerInv
  BY TypeInit, SoundClosed, ChainsInit DEF LedgerInv
<1>. QED
  BY <1>1, LedgerNext, PTL DEF Spec

\* What all wallets hold together is what the chain's heights are scheduled to
\* pay, with what payments of SYSTEM in this node's own blocks created and less what
\* was paid to SYSTEM, whatever transactions, forks and crashes the chain has seen.
THEOREM SupplyCorrect == Spec => []SupplyOnSchedule
<1>1. LedgerInv => SupplyOnSchedule
  <2>. SUFFICES ASSUME LedgerInv PROVE SupplyOnSchedule
    OBVIOUS
  <2>1. chain \in Seq(Body) /\ Rewarded(chain)
    BY DEF LedgerInv, ChainsIn, Sound
  <2>. QED
    BY <2>1, SupplyWrapped DEF SupplyOnSchedule, Supplies
<1>. QED
  BY <1>1, LedgerAlways, PTL

\* No block that the node took from elsewhere, as a block, in a fork or at a
\* restart, leaves one of its senders in debt, if the sums it was checked by did
\* not wrap.
THEOREM PeerSpendsCorrect == Spec => []PeerSpendsCovered
<1>1. LedgerInv => PeerSpendsCovered
  BY DEF LedgerInv, ChainsIn, Sound, Covered, PeerSpendsCovered
<1>. QED
  BY <1>1, LedgerAlways, PTL
-----------------------------------------------------------------------------
(* The balance cache                                                       *)

\* CacheNotStale is not inductive: appending a block could make an old cache
\* look fresh.  The cache is never ahead of the chain, and a stopped process
\* has none.
CacheInv ==
    /\ TypeInv
    /\ CacheNotStale
    /\ cache.height <= Len(chain) + 1
    /\ ~up => cache.height = 0

LEMMA EnsuredCacheFresh ==
  ASSUME CacheInv, cache' = EnsuredCache, chain' = chain
  PROVE  CacheNotStale' /\ cache'.height <= Len(chain') + 1
<1>. QED
  BY DEF CacheInv, TypeInv, TypeOK, EnsuredCache, CacheNotStale, CacheFresh, Balances

LEMMA AppendCache ==
  ASSUME CacheInv, NEW b \in Body, AppendBlock(b)
  PROVE  CacheNotStale' /\ cache'.height <= Len(chain') + 1 /\ (~up' => cache'.height = 0)
<1>1. Len(chain') = Len(chain) + 1 /\ Len(chain) \in Nat
  BY AppendProperties DEF AppendBlock, CacheInv, TypeInv, TypeOK
<1>2. cache.height \in Nat
  BY DEF CacheInv, TypeInv, TypeOK
<1>. QED
  BY <1>1, <1>2 DEF AppendBlock, CacheInv, CacheNotStale, CacheFresh

LEMMA CacheInit == Init => CacheInv
<1>. SUFFICES ASSUME Init PROVE CacheInv
  OBVIOUS
<1>1. cache.height = 0 /\ Len(chain) = 0
  BY DEF Init, NoCache
<1>. QED
  BY <1>1, TypeInit DEF CacheInv, CacheNotStale, CacheFresh

LEMMA CacheNext == CacheInv /\ [Next]_vars => CacheInv'
<1>. DEFINE Goal == CacheNotStale' /\ cache'.height <= Len(chain') + 1
                    /\ (~up' => cache'.height = 0)
<1>. SUFFICES ASSUME CacheInv, [Next]_vars PROVE Goal
  BY TypeNext DEF CacheInv
<1>0. TypeInv /\ TypeInv' /\ chain \in Seq(Body) /\ Len(chain) \in Nat
      /\ chain' \in Seq(Body) /\ Len(chain') \in Nat
  BY TypeNext DEF CacheInv, TypeInv, TypeOK
<1>1. ASSUME NEW t \in Tx, SubmitTx(t) PROVE Goal
  <2>1. CASE cache' = EnsuredCache
    BY <1>1, <2>1, EnsuredCacheFresh DEF SubmitTx, CacheInv
  <2>2. CASE cache' = cache
    BY <1>1, <2>2 DEF SubmitTx, CacheInv, CacheNotStale, CacheFresh, Balances
  <2>. QED
    BY <1>1, <2>1, <2>2 DEF SubmitTx
<1>2. CASE GetBalance
  BY <1>2, EnsuredCacheFresh DEF GetBalance, CacheInv
<1>3. ASSUME NEW w \in Worker, StartMining(w) PROVE Goal
  BY <1>3 DEF StartMining, CacheInv, CacheNotStale, CacheFresh, Balances
<1>4. ASSUME NEW w \in Worker, CancelMining(w) PROVE Goal
  BY <1>4 DEF CancelMining, CacheInv, CacheNotStale, CacheFresh, Balances
<1>5. ASSUME NEW w \in Worker, FinishMining(w) PROVE Goal
  <2>1. CASE job[w].base = chain /\ AppendBlock(job[w].body)
    BY <1>0, <1>5, <2>1, MinedBody, AppendCache DEF FinishMining
  <2>2. CASE UNCHANGED <<up, chain, mempool, mined, cache, disk, torn>>
    BY <2>2 DEF CacheInv, CacheNotStale, CacheFresh, Balances
  <2>. QED
    BY <1>5, <2>1, <2>2 DEF FinishMining
<1>6. ASSUME NEW o \in PeerOffer, AddBlock(o) PROVE Goal
  BY <1>0, <1>6, OfferedBody, AppendCache DEF AddBlock
<1>7. ASSUME NEW fork \in WantedForks, Reorg(fork) PROVE Goal
  <2>1. cache'.height = 0
    BY <1>7 DEF Reorg, NoCache
  <2>. QED
    BY <1>0, <2>1 DEF CacheNotStale, CacheFresh
<1>8. ASSUME NEW fork \in WantedForks, ReorgSaveFails(fork) PROVE Goal
  BY <1>8 DEF ReorgSaveFails, CacheInv, CacheNotStale, CacheFresh, Balances
<1>9. CASE Forget
  <2>1. cache'.height = 0
    BY <1>9 DEF Forget, NoCache
  <2>. QED
    BY <1>0, <2>1 DEF CacheNotStale, CacheFresh
<1>10. CASE Restart
  <2>1. cache'.height = 0
    BY <1>10 DEF Restart, CacheInv
  <2>. QED
    BY <1>0, <2>1 DEF CacheNotStale, CacheFresh
<1>11. CASE UNCHANGED vars
  BY <1>11 DEF vars, CacheInv, CacheNotStale, CacheFresh, Balances
<1>. QED
  BY <1>1, <1>2, <1>3, <1>4, <1>5, <1>6, <1>7, <1>8, <1>9, <1>10, <1>11
     DEF Next, HandleBlocks, HandleBlockSubmit, Crash, CrashInReorg

\* A cache that ensureBalanceCache would trust is right: trusting the number
\* of blocks is enough, because a reorganisation empties the cache and nothing
\* else replaces a block.
THEOREM CacheCorrect == Spec => []CacheNotStale
<1>1. CacheInv => CacheNotStale
  BY DEF CacheInv
<1>. QED
  BY <1>1, CacheInit, CacheNext, PTL DEF Spec
-----------------------------------------------------------------------------
(* The chain's work                                                        *)

Works(c) == [i \in DOMAIN c |-> Pow2(c[i].bits)]

LEMMA WorksType ==
  ASSUME NEW c \in Seq(Body)
  PROVE  /\ Works(c) \in Seq(Int) /\ Len(Works(c)) = Len(c)
         /\ Work(c) = SumSeq(Works(c)) /\ Work(c) \in Int
<1>1. ASSUME NEW b \in Body PROVE Pow2(b.bits) \in Int
  <2>1. b.bits \in Nat
    BY BitsAssumption DEF Body
  <2>. QED
    BY <2>1, Pow2Positive
<1>2. Works(c) \in Seq(Int) /\ Len(Works(c)) = Len(c)
  BY <1>1 DEF Works
<1>3. Work(c) = SumSeq(Works(c))
  BY DEF Work, Works
<1>. QED
  BY <1>2, <1>3, SumInt

LEMMA WorkConcat ==
  ASSUME NEW c \in Seq(Body), NEW s \in Seq(Body)
  PROVE  Work(c \o s) = Work(c) + Work(s)
<1>1. Works(c \o s) = Works(c) \o Works(s)
  <2>1. c \o s \in Seq(Body) /\ Len(c \o s) = Len(c) + Len(s)
    BY ConcatProperties
  <2>2. /\ Works(c) \in Seq(Int) /\ Len(Works(c)) = Len(c)
        /\ Works(s) \in Seq(Int) /\ Len(Works(s)) = Len(s)
        /\ Works(c \o s) \in Seq(Int) /\ Len(Works(c \o s)) = Len(c \o s)
    BY <2>1, WorksType
  <2>3. /\ Works(c) \o Works(s) \in Seq(Int)
        /\ Len(Works(c) \o Works(s)) = Len(c) + Len(s)
    BY <2>2, ConcatProperties
  <2>4. ASSUME NEW i \in 1..(Len(c) + Len(s))
        PROVE  Works(c \o s)[i] = (Works(c) \o Works(s))[i]
    <3>1. Works(c \o s)[i] = Pow2((c \o s)[i].bits)
      BY <2>1, LenProperties DEF Works
    <3>2. CASE i <= Len(c)
      <4>1. (c \o s)[i] = c[i] /\ i \in DOMAIN c
        BY <3>2, ConcatProperties, LenProperties
      <4>2. (Works(c) \o Works(s))[i] = Works(c)[i]
        BY <2>2, <3>2, ConcatProperties
      <4>. QED
        BY <3>1, <4>1, <4>2 DEF Works
    <3>3. CASE i > Len(c)
      <4>1. (c \o s)[i] = s[i - Len(c)] /\ i - Len(c) \in DOMAIN s
        BY <3>3, ConcatProperties, LenProperties
      <4>2. (Works(c) \o Works(s))[i] = Works(s)[i - Len(c)]
        BY <2>2, <3>3, ConcatProperties
      <4>. QED
        BY <3>1, <4>1, <4>2 DEF Works
    <3>4. i <= Len(c) \/ i > Len(c)
      <4>1. Len(c) \in Int /\ Len(s) \in Int
        BY LenProperties
      <4>2. i \in Int
        BY <4>1
      <4>. QED
        BY <4>1, <4>2
    <3>. QED
      BY <3>2, <3>3, <3>4
  <2>. QED
    BY <2>1, <2>2, <2>3, <2>4, SeqEqual
<1>2. c \o s \in Seq(Body)
  BY ConcatProperties
<1>. QED
  BY <1>1, <1>2, WorksType, SumConcat

\* Any block adds work: a difficulty is the exponent of a power of two.
LEMMA WorkAppend ==
  ASSUME NEW c \in Seq(Body), NEW b \in Body
  PROVE  Work(Append(c, b)) > Work(c)
<1>. DEFINE p == Pow2(b.bits)
            one == <<b>>
<1>1. Append(c, b) = c \o one
  BY AppendIsConcat
<1>2. p \in Nat /\ p > 0
  <2>1. b.bits \in Nat
    BY BitsAssumption DEF Body
  <2>. QED
    BY <2>1, Pow2Positive
<1>3. one \in Seq(Body) /\ Works(one) = <<p>>
  BY DEF Works
<1>. HIDE DEF p, one
<1>4. SumSeq(<<p>>) = p
  <2>1. <<>> \in Seq(Int) /\ p \in Int /\ Append(<<>>, p) = <<p>>
    BY <1>2
  <2>2. SumSeq(Append(<<>>, p)) = SumSeq(<<>>) + p
    BY <2>1, SumAppend
  <2>3. SumSeq(<<>>) = 0
    BY SumEmpty
  <2>. QED
    BY <1>2, <2>1, <2>2, <2>3
<1>5. Work(one) = p
  BY <1>3, <1>4, WorksType
<1>6. Work(c \o one) = Work(c) + Work(one) /\ Work(c) \in Int
  BY <1>3, WorksType, WorkConcat
<1>. QED
  BY <1>1, <1>2, <1>5, <1>6

LEMMA WorkReorg ==
  ASSUME TypeInv, NEW fork \in WantedForks
  PROVE  Work(ForkChain(fork.at, fork.blocks)) > Work(chain)
<1>. DEFINE low == SubSeq(chain, 1, fork.at)
            high == SubSeq(chain, fork.at + 1, Len(chain))
            s == fork.blocks
<1>1. chain \in Seq(Body) /\ Len(chain) <= MaxHeight /\ Len(chain) \in Nat
  BY DEF TypeInv, TypeOK
<1>2. /\ fork.at \in 0..Len(chain)
      /\ fork.blocks \in PeerSuffix(fork.at)
      /\ ReorgWanted(fork.at, fork.blocks)
  BY <1>1, WantedForkType
<1>3. s \in Seq(Body) /\ low \in Seq(Body)
  BY <1>1, <1>2, ForkChainType
<1>4. high \in Seq(Body)
  BY <1>1, <1>2, SubSeqProperties
<1>5. low \o high = chain
  <2>1. 1 \in 1..(Len(chain) + 1) /\ fork.at \in (1 - 1)..Len(chain)
        /\ Len(chain) \in fork.at..Len(chain)
    BY <1>1, <1>2
  <2>2. low \o high = SubSeq(chain, 1, Len(chain))
    BY <1>1, <2>1, ConcatAdjacentSubSeq
  <2>. QED
    BY <1>1, <2>2, SubSeqFull
<1>6. Work(s) > Work(high)
  BY <1>2 DEF ReorgWanted
<1>7. ForkChain(fork.at, s) = low \o s
  BY DEF ForkChain
<1>. HIDE DEF low, high, s
<1>8. Work(low \o s) = Work(low) + Work(s) /\ Work(low \o high) = Work(low) + Work(high)
  BY <1>3, <1>4, WorkConcat
<1>. QED
  BY <1>3, <1>4, <1>5, <1>6, <1>7, <1>8, WorksType DEF s

\* While the process runs, its chain is only ever replaced by a heavier one.
THEOREM WorkCorrect == Spec => WorkOnlyGrows
<1>. DEFINE Step == up /\ up' /\ chain' # chain => Work(chain') > Work(chain)
<1>1. ASSUME TypeInv, [Next]_vars PROVE Step
  <2>. SUFFICES ASSUME up, up', chain' # chain PROVE Work(chain') > Work(chain)
    OBVIOUS
  <2>1. ASSUME NEW b \in Body, AppendBlock(b) PROVE Work(chain') > Work(chain)
    BY <1>1, <2>1, WorkAppend DEF AppendBlock, TypeInv, TypeOK
  <2>2. ASSUME NEW w \in Worker, FinishMining(w) PROVE Work(chain') > Work(chain)
    BY <1>1, <2>1, <2>2, MinedBody DEF FinishMining
  <2>3. ASSUME NEW o \in PeerOffer, AddBlock(o) PROVE Work(chain') > Work(chain)
    BY <1>1, <2>1, <2>3, OfferedBody DEF AddBlock
  <2>4. ASSUME NEW fork \in WantedForks, Reorg(fork) PROVE Work(chain') > Work(chain)
    BY <1>1, <2>4, WorkReorg DEF Reorg
  <2>. QED
    BY <1>1, <2>2, <2>3, <2>4
       DEF Next, HandleBlocks, HandleBlockSubmit, SubmitTx, GetBalance, StartMining,
           CancelMining, ReorgSaveFails, CrashInReorg, Crash, Forget, Restart, vars
<1>2. Spec => []TypeInv
  BY TypeInit, TypeNext, PTL DEF Spec
<1>. QED
  BY <1>1, <1>2, PTL DEF Spec, WorkOnlyGrows

-----------------------------------------------------------------------------
(* Recovery: what the block files promise a restart                        *)

\* Files 1 to n of d hold the first n blocks of chain c.
Holds(d, c, n) == \A i \in 1..n : d[i] = SubSeq(c, 1, i)

\* The files hold the chain in memory, unless a reorganisation failed.  This
\* is stronger than DiskKeepsChain, and inductive: appending and reorganising
\* leave the files below untouched.
DiskInv ==
    /\ TypeInv
    /\ up /\ ~torn => Holds(disk, chain, Len(chain))

\* What LoadChain reads is a prefix chain: linked files hold the prefixes of
\* the last one.
LEMMA LinkedHolds ==
  ASSUME NEW d, Files(d), NEW n \in Height, Linked(d, n)
  PROVE  Holds(d, d[n], n)
<1>1. n \in Nat /\ \A i \in 1..n : i \in Height
  BY HeightAssumption DEF Height
<1>2. \A i \in 1..n : /\ d[i] \in Seq(Body) /\ Len(d[i]) = i
                      /\ i > 1 => SubSeq(d[i], 1, i - 1) = d[i - 1]
  BY <1>1 DEF Files, Linked
<1>. QED
  BY <1>1, <1>2, GrowingPrefixes DEF Holds

\* Files that hold chain c are linked.
LEMMA HoldsLinked ==
  ASSUME NEW c \in Seq(Body), NEW d, NEW n \in 0..Len(c), Holds(d, c, n)
  PROVE  Linked(d, n)
<1>1. Len(c) \in Nat
  BY LenProperties
<1>2. SUFFICES ASSUME NEW i \in 1..n
               PROVE  Len(d[i]) = i /\ (i > 1 => SubSeq(d[i], 1, i - 1) = d[i - 1])
  BY DEF Linked
<1>3. i \in 1..Len(c) /\ d[i] = SubSeq(c, 1, i)
  BY <1>1 DEF Holds
<1>4. Len(d[i]) = i
  BY <1>3, PrefixFile
<1>5. ASSUME i > 1 PROVE SubSeq(d[i], 1, i - 1) = d[i - 1]
  <2>1. i - 1 \in 1..i /\ i - 1 \in 1..n
    BY <1>1, <1>5
  <2>2. SubSeq(SubSeq(c, 1, i), 1, i - 1) = SubSeq(c, 1, i - 1)
    BY <1>3, <2>1, PrefixOfPrefix
  <2>. QED
    BY <1>3, <2>1, <2>2 DEF Holds
<1>. QED
  BY <1>4, <1>5

\* DiskKeepsChain follows: LoadChain comes at least as far as the chain.
LEMMA DiskInvKeeps == DiskInv => DiskKeepsChain
<1>. SUFFICES ASSUME DiskInv, up, ~torn PROVE IsPrefix(chain, LoadChain(disk))
  BY DEF DiskKeepsChain
<1>1. /\ chain \in Seq(Body) /\ Len(chain) \in 0..MaxHeight /\ MaxHeight \in Nat
      /\ Files(disk) /\ Holds(disk, chain, Len(chain))
  BY HeightAssumption DEF DiskInv, TypeInv, TypeOK, Files
<1>2. PICK n \in 0..MaxHeight :
          /\ Linked(disk, n)
          /\ n < MaxHeight => ~Linked(disk, n + 1)
          /\ LoadChain(disk) = IF n = 0 THEN <<>> ELSE disk[n]
  BY LoadDepth
<1>3. n >= Len(chain)
  <2>. SUFFICES ASSUME n < Len(chain) PROVE FALSE
    BY <1>1
  <2>1. n + 1 \in 0..Len(chain) /\ n < MaxHeight
    BY <1>1
  <2>2. Holds(disk, chain, n + 1)
    BY <1>1, <2>1 DEF Holds
  <2>. QED
    BY <1>1, <1>2, <2>1, <2>2, HoldsLinked
<1>4. CASE Len(chain) = 0
  <2>1. chain = <<>>
    BY <1>1, <1>4, EmptySeq
  <2>2. Len(LoadChain(disk)) \in Nat
    BY <1>1, LoadChainType, LenProperties
  <2>3. SubSeq(chain, 1, 0) = <<>> /\ SubSeq(LoadChain(disk), 1, 0) = <<>>
    BY SubSeqEmpty
  <2>. QED
    BY <1>4, <2>2, <2>3 DEF IsPrefix
<1>5. CASE Len(chain) # 0
  <2>. DEFINE m == Len(chain)
  <2>1. m \in 1..n /\ n \in Height /\ n # 0 /\ m \in 1..m
    BY <1>1, <1>3, <1>5 DEF Height
  <2>2. disk[m] = SubSeq(chain, 1, m)
    BY <1>1, <2>1 DEF Holds
  <2>3. Holds(disk, disk[n], n)
    BY <1>1, <1>2, <2>1, LinkedHolds
  <2>4. disk[m] = SubSeq(disk[n], 1, m)
    BY <2>1, <2>3 DEF Holds
  <2>5. Len(disk[n]) = n
    BY <1>1, <1>2, <2>1 DEF Linked
  <2>. QED
    BY <1>1, <1>2, <1>3, <2>1, <2>2, <2>4, <2>5 DEF IsPrefix
<1>. QED
  BY <1>4, <1>5

LEMMA AppendDisk ==
  ASSUME DiskInv, Len(chain) < MaxHeight, NEW b \in Body, AppendBlock(b)
  PROVE  up' /\ ~torn' => Holds(disk', chain', Len(chain'))
<1>1. /\ chain \in Seq(Body) /\ Len(chain) \in Nat
      /\ disk \in [Height -> Seq(Body)]
      /\ chain' = Append(chain, b) /\ disk' = [disk EXCEPT ![Len(chain) + 1] = chain']
      /\ UNCHANGED <<up, torn>>
  BY DEF AppendBlock, Persisted, DiskInv, TypeInv, TypeOK
<1>2. chain' \in Seq(Body) /\ Len(chain') = Len(chain) + 1
  BY <1>1, AppendProperties
<1>. SUFFICES ASSUME up, ~torn, NEW i \in 1..Len(chain') PROVE disk'[i] = SubSeq(chain', 1, i)
  BY <1>1 DEF Holds
<1>3. i \in Height
  BY <1>1, <1>2, HeightAssumption DEF Height
<1>4. CASE i = Len(chain')
  <2>1. SubSeq(chain', 1, i) = chain'
    BY <1>2, <1>4, SubSeqFull
  <2>. QED
    BY <1>1, <1>2, <1>3, <1>4, <2>1
<1>5. CASE i # Len(chain')
  <2>1. i \in 1..Len(chain) /\ disk'[i] = disk[i]
    BY <1>1, <1>2, <1>3, <1>5
  <2>2. disk[i] = SubSeq(chain, 1, i)
    BY <2>1 DEF DiskInv, Holds
  <2>3. chain' = chain \o <<b>> /\ <<b>> \in Seq(Body)
    BY <1>1, AppendIsConcat
  <2>4. 1 \in 1..Len(chain)
    BY <1>1, <2>1
  <2>5. SubSeq(chain \o <<b>>, 1, i) = SubSeq(chain, 1, i)
    BY <1>1, <2>1, <2>3, <2>4, SubSeqOfConcat1
  <2>. QED
    BY <2>1, <2>2, <2>3, <2>5
<1>. QED
  BY <1>4, <1>5

LEMMA ReorgDisk ==
  ASSUME DiskInv, NEW fork \in WantedForks, Reorg(fork)
  PROVE  up' /\ ~torn' => Holds(disk', chain', Len(chain'))
<1>. DEFINE new == ForkChain(fork.at, fork.blocks)
            low == SubSeq(chain, 1, fork.at)
<1>1. /\ chain \in Seq(Body) /\ Len(chain) \in Nat /\ Len(chain) <= MaxHeight
      /\ disk \in [Height -> Seq(Body)]
  BY DEF DiskInv, TypeInv, TypeOK
<1>2. /\ fork.at \in 0..Len(chain)
      /\ fork.blocks \in PeerSuffix(fork.at)
  BY <1>1, WantedForkType
<1>3. /\ disk' = WriteAll(disk, new, fork.at) /\ chain' = new
      /\ UNCHANGED <<up, torn>>
  BY DEF Reorg
<1>4. /\ new \in Seq(Body) /\ Len(new) \in 1..MaxHeight
      /\ fork.blocks \in Seq(Body) /\ low \in Seq(Body) /\ Len(low) = fork.at
  BY <1>1, <1>2, ForkChainType
<1>5. new = low \o fork.blocks
  BY DEF ForkChain
<1>. HIDE DEF new
<1>. SUFFICES ASSUME up, ~torn, NEW i \in 1..Len(new) PROVE disk'[i] = SubSeq(new, 1, i)
  BY <1>3 DEF Holds
<1>6. i \in Height /\ ~(i > Len(new)) /\ i \in Nat
  BY <1>4, HeightAssumption DEF Height
<1>7. CASE i > fork.at
  BY <1>3, <1>6, <1>7 DEF WriteAll
<1>8. CASE ~(i > fork.at)
  <2>1. i \in 1..fork.at /\ fork.at \in 1..Len(chain) /\ i \in 1..Len(chain)
    BY <1>1, <1>2, <1>6, <1>8
  <2>2. disk'[i] = disk[i]
    BY <1>3, <1>6, <1>8 DEF WriteAll
  <2>3. disk[i] = SubSeq(chain, 1, i)
    BY <2>1 DEF DiskInv, Holds
  <2>4. SubSeq(low, 1, i) = SubSeq(chain, 1, i)
    BY <1>1, <2>1, PrefixOfPrefix
  <2>. HIDE DEF low
  <2>5. 1 \in 1..Len(low) /\ i \in 1..Len(low)
    BY <1>4, <2>1
  <2>6. SubSeq(low \o fork.blocks, 1, i) = SubSeq(low, 1, i)
    BY <1>4, <2>5, SubSeqOfConcat1
  <2>. QED
    BY <1>5, <2>2, <2>3, <2>4, <2>6
<1>. QED
  BY <1>7, <1>8

LEMMA RestartDisk ==
  ASSUME DiskInv, Restart
  PROVE  Holds(disk', chain', Len(chain'))
<1>1. Files(disk) /\ disk' = disk /\ chain' = LoadChain(disk)
  BY DEF Restart, DiskInv, TypeInv, TypeOK, Files
<1>2. PICK n \in 0..MaxHeight :
          Linked(disk, n) /\ LoadChain(disk) = IF n = 0 THEN <<>> ELSE disk[n]
  BY LoadDepth
<1>3. CASE n = 0
  BY <1>1, <1>2, <1>3 DEF Holds
<1>4. CASE n # 0
  <2>1. n \in Height /\ n \in 1..n
    BY <1>4, HeightAssumption DEF Height
  <2>2. Len(disk[n]) = n
    BY <1>2, <2>1 DEF Linked
  <2>. QED
    BY <1>1, <1>2, <1>4, <2>1, <2>2, LinkedHolds
<1>. QED
  BY <1>3, <1>4

LEMMA DiskInit == Init => DiskInv
<1>. SUFFICES ASSUME Init PROVE DiskInv
  OBVIOUS
<1>1. Len(chain) = 0
  BY DEF Init
<1>. QED
  BY <1>1, TypeInit DEF DiskInv, Holds

LEMMA DiskNext == DiskInv /\ [Next]_vars => DiskInv'
<1>. DEFINE Goal == up' /\ ~torn' => Holds(disk', chain', Len(chain'))
<1>. SUFFICES ASSUME DiskInv, [Next]_vars PROVE Goal
  BY TypeNext DEF DiskInv
<1>1. ASSUME NEW b \in Body, Len(chain) < MaxHeight, AppendBlock(b) PROVE Goal
  BY <1>1, AppendDisk
<1>2. ASSUME NEW w \in Worker, FinishMining(w) PROVE Goal
  <2>1. CASE job[w].base = chain /\ AppendBlock(job[w].body)
    <3>1. job[w].body \in Body /\ Len(chain) < MaxHeight
      BY <1>2, <2>1 DEF FinishMining, DiskInv, TypeInv, TypeOK, JobType
    <3>. QED
      BY <1>1, <2>1, <3>1
  <2>2. CASE UNCHANGED <<up, chain, mempool, mined, cache, disk, torn>>
    BY <2>2 DEF DiskInv, Holds
  <2>. QED
    BY <1>2, <2>1, <2>2 DEF FinishMining
<1>3. ASSUME NEW o \in PeerOffer, AddBlock(o) PROVE Goal
  <2>1. /\ BodyOf(o, Len(chain) + 1) \in Body /\ Len(chain) < MaxHeight
        /\ AppendBlock(BodyOf(o, Len(chain) + 1))
    BY <1>3, BodyOfType DEF AddBlock, Extends, DiskInv, TypeInv, TypeOK
  <2>. QED
    BY <1>1, <2>1
<1>4. ASSUME NEW fork \in WantedForks, Reorg(fork) PROVE Goal
  BY <1>4, ReorgDisk
<1>5. CASE Restart
  BY <1>5, RestartDisk
<1>6. CASE UNCHANGED <<up, chain, disk, torn>>
  BY <1>6 DEF DiskInv, Holds
<1>7. CASE torn' \/ ~up'
  BY <1>7
<1>. QED
  BY <1>2, <1>3, <1>4, <1>5, <1>6, <1>7
     DEF Next, vars, HandleBlocks, HandleBlockSubmit, SubmitTx, GetBalance,
         StartMining, CancelMining, ReorgSaveFails, CrashInReorg, Crash, Forget

\* Unless a reorganisation could not be saved, a restart at any moment finds
\* every block of the chain in memory, in spite of crashes in the middle of
\* earlier reorganisations.
THEOREM DiskCorrect == Spec => []DiskKeepsChain
BY DiskInit, DiskNext, DiskInvKeeps, PTL DEF Spec
=============================================================================
