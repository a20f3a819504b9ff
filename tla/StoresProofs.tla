---------------------------- MODULE StoresProofs ----------------------------
(***************************************************************************)
(* Theorems about the programs that keep files, for every value of their   *)
(* constants. ChainStore: no file is half written, an acknowledged chain   *)
(* survives a loss of power, and SafeStore's promise is kept.              *)
(* PoolDatabase: SafeDatabase's promise is kept. AddrBook: a ban that was  *)
(* saved holds after a restart.                                            *)
(***************************************************************************)
EXTENDS Stores, AddrBook, SumsProofs

-----------------------------------------------------------------------------
(* Prefixes                                                                *)

Below(c, n) == SubSeq(c, 1, n)

LEMMA BelowIs ==
  ASSUME NEW S, NEW c \in Seq(S), NEW n \in 0..Len(c)
  PROVE  /\ Below(c, n) \in Seq(S) /\ Len(Below(c, n)) = n
         /\ \A i \in 1..n : Below(c, n)[i] = c[i]
<1>1. Len(c) \in Nat /\ \A i \in 1..n : c[i] \in S
  BY LenProperties
<1>. QED
  BY <1>1, SubSeqProperties DEF Below

\* Chains agree up to n if they hold the same blocks there.
LEMMA BelowEqual ==
  ASSUME NEW S, NEW c \in Seq(S), NEW d \in Seq(S),
         NEW n \in Nat, n <= Len(c), n <= Len(d)
  PROVE  Below(c, n) = Below(d, n) <=> \A i \in 1..n : c[i] = d[i]
<1>1. n \in 0..Len(c) /\ n \in 0..Len(d)
  BY LenProperties
<1>2. /\ Below(c, n) \in Seq(S) /\ Len(Below(c, n)) = n
      /\ \A i \in 1..n : Below(c, n)[i] = c[i]
  BY <1>1, BelowIs
<1>3. /\ Below(d, n) \in Seq(S) /\ Len(Below(d, n)) = n
      /\ \A i \in 1..n : Below(d, n)[i] = d[i]
  BY <1>1, BelowIs
<1>4. ASSUME \A i \in 1..n : c[i] = d[i] PROVE Below(c, n) = Below(d, n)
  BY <1>2, <1>3, <1>4, SeqEqual
<1>. QED
  BY <1>2, <1>3, <1>4

LEMMA PrefixIs ==
  ASSUME NEW S, NEW s \in Seq(S), NEW t \in Seq(S)
  PROVE  IsPrefix(s, t) <=> Len(s) <= Len(t) /\ \A i \in 1..Len(s) : s[i] = t[i]
<1>1. Len(s) \in Nat /\ Len(t) \in Nat
  BY LenProperties
<1>2. IsPrefix(s, t) <=> Len(s) <= Len(t) /\ Below(s, Len(s)) = Below(t, Len(s))
  BY DEF IsPrefix, Below
<1>3. CASE Len(s) <= Len(t)
  BY <1>1, <1>2, <1>3, BelowEqual
<1>. QED
  BY <1>2, <1>3

LEMMA PrefixBelow ==
  ASSUME NEW S, NEW s \in Seq(S), NEW t \in Seq(S), IsPrefix(s, t), NEW n \in 0..Len(s)
  PROVE  Below(s, n) = Below(t, n) /\ n <= Len(t)
<1>1. /\ Len(s) \in Nat /\ Len(t) \in Nat /\ Len(s) <= Len(t)
      /\ \A i \in 1..Len(s) : s[i] = t[i]
  BY PrefixIs, LenProperties
<1>. QED
  BY <1>1, BelowEqual

LEMMA BelowPrefix ==
  ASSUME NEW S, NEW c \in Seq(S), NEW n \in 0..Len(c)
  PROVE  IsPrefix(Below(c, n), c)
<1>1. /\ Below(c, n) \in Seq(S) /\ Len(Below(c, n)) = n
      /\ \A i \in 1..n : Below(c, n)[i] = c[i]
  BY BelowIs
<1>. QED
  BY <1>1, PrefixIs, LenProperties

LEMMA PrefixTransitive ==
  ASSUME NEW S, NEW s \in Seq(S), NEW t \in Seq(S), NEW u \in Seq(S),
         IsPrefix(s, t), IsPrefix(t, u)
  PROVE  IsPrefix(s, u)
<1>1. Len(s) \in Nat /\ Len(t) \in Nat /\ Len(u) \in Nat
  BY LenProperties
<1>2. Len(s) <= Len(t) /\ \A i \in 1..Len(s) : s[i] = t[i]
  BY PrefixIs
<1>3. Len(t) <= Len(u) /\ \A i \in 1..Len(t) : t[i] = u[i]
  BY PrefixIs
<1>4. Len(s) <= Len(u) /\ \A i \in 1..Len(s) : s[i] = u[i]
  BY <1>1, <1>2, <1>3
<1>. QED
  BY <1>4, PrefixIs

\* What two chains share is a prefix of both, and no longer one is.
LEMMA CommonIs ==
  ASSUME NEW S, NEW c \in Seq(S), NEW d \in Seq(S)
  PROVE  /\ Common(c, d) \in Seq(S)
         /\ IsPrefix(Common(c, d), c) /\ IsPrefix(Common(c, d), d)
         /\ \A s \in Seq(S) : IsPrefix(s, c) /\ IsPrefix(s, d) => Len(s) <= Len(Common(c, d))
<1>. DEFINE P == CommonPrefixes({c, d})
<1>1. ASSUME NEW s PROVE s \in P <=> s \in Seq(S) /\ IsPrefix(s, c) /\ IsPrefix(s, d)
  <2>1. ASSUME NEW e \in Seq(S), NEW x \in Prefixes(e) PROVE x \in Seq(S)
    <3>1. PICK l \in 0..Len(e) : x = Below(e, l)
      BY DEF Prefixes, Below
    <3>. QED
      BY <3>1, BelowIs
  <2>2. ASSUME s \in P PROVE s \in Seq(S) /\ IsPrefix(s, c) /\ IsPrefix(s, d)
    BY <2>1, <2>2 DEF CommonPrefixes
  <2>3. ASSUME s \in Seq(S), IsPrefix(s, c), IsPrefix(s, d) PROVE s \in P
    <3>1. Len(s) \in 0..Len(c)
      BY <2>3, PrefixIs, LenProperties
    <3>2. s = SubSeq(s, 1, Len(s))
      BY <2>3, SubSeqFull
    <3>3. s \in Prefixes(c)
      BY <2>3, <3>1, <3>2 DEF Prefixes, IsPrefix
    <3>. QED
      BY <2>3, <3>3 DEF CommonPrefixes
  <2>. QED
    BY <2>2, <2>3
<1>2. \E s \in P : \A t \in P : Len(t) <= Len(s)
  <2>. DEFINE T == {n \in 0..Len(c) : \E s \in P : Len(s) >= n}
  <2>1. Len(c) \in Nat
    BY LenProperties
  <2>2. 0 \in T
    <3>1. Below(c, 0) = <<>>
      BY SubSeqEmpty DEF Below
    <3>2. <<>> \in Seq(S) /\ Len(<<>>) = 0
      OBVIOUS
    <3>3. IsPrefix(<<>>, c) /\ IsPrefix(<<>>, d)
      <4>1. ASSUME NEW e \in Seq(S) PROVE IsPrefix(<<>>, e)
        <5>1. Len(<<>>) <= Len(e) /\ \A i \in 1..Len(<<>>) : <<>>[i] = e[i]
          BY <3>2, LenProperties
        <5>. QED
          BY <3>2, <5>1, PrefixIs
      <4>. QED
        BY <4>1
    <3>4. <<>> \in P
      BY <1>1, <3>2, <3>3
    <3>. QED
      BY <2>1, <3>2, <3>4
  <2>3. PICK n \in 0..Len(c) : n \in T /\ (n < Len(c) => n + 1 \notin T)
    <3>. HIDE DEF T
    <3>. QED
      BY <2>1, <2>2, LastInside
  <2>4. PICK s \in P : Len(s) >= n
    BY <2>3
  <2>5. ASSUME NEW t \in P PROVE Len(t) <= Len(s)
    <3>1. /\ Len(t) \in Nat /\ Len(s) \in Nat /\ Len(t) <= Len(c)
      BY <1>1, PrefixIs, LenProperties
    <3>2. CASE n = Len(c)
      BY <2>4, <3>1, <3>2
    <3>3. CASE n < Len(c)
      <4>1. n + 1 \in 0..Len(c)
        BY <2>1, <3>3
      <4>2. ~(Len(t) >= n + 1)
        BY <2>3, <3>3, <4>1
      <4>. QED
        BY <2>1, <2>4, <3>1, <4>2
    <3>. QED
      BY <2>1, <3>2, <3>3
  <2>. QED
    BY <2>5
<1>. HIDE DEF P
<1>3. Common(c, d) = CHOOSE s \in P : \A t \in P : Len(t) <= Len(s)
  BY DEF Common, LongestCommonPrefix, P
<1>4. Common(c, d) \in P /\ \A t \in P : Len(t) <= Len(Common(c, d))
  BY <1>2, <1>3
<1>. QED
  BY <1>1, <1>4

LEMMA CommonOfPrefix ==
  ASSUME NEW S, NEW c \in Seq(S), NEW d \in Seq(S), IsPrefix(c, d)
  PROVE  Common(c, d) = c
<1>. DEFINE l == Common(c, d)
<1>1. l \in Seq(S) /\ IsPrefix(l, c) /\ Len(c) <= Len(l)
  <2>1. IsPrefix(c, c)
    BY PrefixIs, LenProperties
  <2>. QED
    BY <2>1, CommonIs
<1>. HIDE DEF l
<1>2. Len(l) <= Len(c) /\ \A i \in 1..Len(l) : l[i] = c[i]
  BY <1>1, PrefixIs
<1>3. Len(l) = Len(c)
  BY <1>1, <1>2, LenProperties
<1>4. l = c
  BY <1>1, <1>2, <1>3, SeqEqual
<1>. QED
  BY <1>4 DEF l

-----------------------------------------------------------------------------
(* Loading files                                                           *)

LEMMA ChainIs ==
  ASSUME NEW c
  PROVE  c \in Chain <=> c \in Seq(Block) /\ Len(c) <= MaxHeight
<1>1. ASSUME c \in Chain PROVE c \in Seq(Block) /\ Len(c) <= MaxHeight
  <2>1. PICK n \in 0..MaxHeight : c \in [1..n -> Block]
    BY <1>1 DEF Chain
  <2>. QED
    BY <2>1, HeightAssumption
<1>2. ASSUME c \in Seq(Block), Len(c) <= MaxHeight PROVE c \in Chain
  <2>1. Len(c) \in 0..MaxHeight /\ c \in [1..Len(c) -> Block]
    BY <1>2, LenProperties, HeightAssumption
  <2>. QED
    BY <2>1 DEF Chain
<1>. QED
  BY <1>1, <1>2

LEMMA EmptyChain == <<>> \in Chain /\ <<>> \in Seq(Block) /\ Len(<<>>) = 0
<1>1. <<>> \in Seq(Block) /\ Len(<<>>) = 0
  BY EmptySeq
<1>2. Len(<<>>) <= MaxHeight
  BY <1>1, HeightAssumption
<1>. QED
  BY <1>1, <1>2, ChainIs, Zenon

LEMMA BelowChain ==
  ASSUME NEW c \in Chain, NEW n \in 0..Len(c)
  PROVE  Below(c, n) \in Chain
<1>1. c \in Seq(Block) /\ Len(c) <= MaxHeight /\ Len(c) \in Nat
  BY ChainIs, LenProperties
<1>2. Below(c, n) \in Seq(Block) /\ Len(Below(c, n)) = n
  BY <1>1, BelowIs
<1>. QED
  BY <1>1, <1>2, ChainIs, HeightAssumption

\* What is loaded is a chain, and the files up to its length hold its blocks.
LEMMA LoadIs ==
  ASSUME NEW d \in [Height -> Chain]
  PROVE  \E n \in 0..MaxHeight :
            /\ n < MaxHeight => ~Linked(d, n + 1)
            /\ LoadChain(d) \in Chain /\ Len(LoadChain(d)) = n
            /\ \A i \in 1..n : d[i] = Below(LoadChain(d), i)
<1>. DEFINE Good(n) == Linked(d, n) /\ (n < MaxHeight => ~Linked(d, n + 1))
<1>1. \E n \in 0..MaxHeight : Good(n)
  <2>. DEFINE S == {n \in 0..MaxHeight : Linked(d, n)}
  <2>1. 0 \in S
    BY HeightAssumption DEF Linked
  <2>2. PICK n \in 0..MaxHeight : n \in S /\ (n < MaxHeight => n + 1 \notin S)
    <3>. HIDE DEF S
    <3>. QED
      BY <2>1, HeightAssumption, LastInside
  <2>. QED
    BY <2>2, HeightAssumption
<1>. DEFINE n == CHOOSE n \in 0..MaxHeight : Good(n)
<1>2. n \in 0..MaxHeight /\ Good(n)
  BY <1>1
<1>3. LoadChain(d) = IF n = 0 THEN <<>> ELSE d[n]
  BY DEF LoadChain
<1>. HIDE DEF n
<1>4. CASE n = 0
  BY <1>2, <1>3, <1>4, EmptyChain
<1>5. CASE n # 0
  <2>1. n \in Height /\ n \in Nat /\ n \in 1..n /\ \A i \in 1..n : i \in Height
    BY <1>2, <1>5, HeightAssumption DEF Height
  <2>2. \A i \in 1..n : /\ d[i] \in Seq(Block) /\ Len(d[i]) = i
                        /\ i > 1 => SubSeq(d[i], 1, i - 1) = d[i - 1]
    BY <1>2, <2>1, ChainIs DEF Linked
  <2>3. \A i \in 1..n : d[i] = Below(d[n], i)
    BY <2>1, <2>2, GrowingPrefixes DEF Below
  <2>. QED
    BY <1>2, <1>3, <1>5, <2>1, <2>2, <2>3
<1>. QED
  BY <1>4, <1>5

\* Files that hold chain c's blocks are loaded at least as far as c.
LEMMA LoadReaches ==
  ASSUME NEW d \in [Height -> Chain], NEW c \in Chain,
         \A i \in 1..Len(c) : d[i] = Below(c, i)
  PROVE  IsPrefix(c, LoadChain(d))
<1>. DEFINE l == LoadChain(d)
<1>1. PICK n \in 0..MaxHeight :
          /\ n < MaxHeight => ~Linked(d, n + 1)
          /\ l \in Chain /\ Len(l) = n
          /\ \A i \in 1..n : d[i] = Below(l, i)
  BY LoadIs
<1>. HIDE DEF l
<1>2. /\ c \in Seq(Block) /\ Len(c) <= MaxHeight /\ Len(c) \in Nat /\ l \in Seq(Block)
      /\ MaxHeight \in Nat
  BY <1>1, ChainIs, LenProperties, HeightAssumption
<1>3. Len(c) <= n
  <2>. SUFFICES ASSUME n < Len(c) PROVE FALSE
    BY <1>1, <1>2
  <2>1. ASSUME NEW i \in 1..(n + 1)
        PROVE  Len(d[i]) = i /\ (i > 1 => SubSeq(d[i], 1, i - 1) = d[i - 1])
    <3>1. i \in 1..Len(c) /\ i \in 0..Len(c) /\ d[i] = Below(c, i)
      BY <1>1, <1>2
    <3>2. Len(d[i]) = i
      BY <1>2, <3>1, BelowIs
    <3>3. ASSUME i > 1 PROVE SubSeq(d[i], 1, i - 1) = d[i - 1]
      <4>1. i - 1 \in 1..Len(c) /\ i - 1 \in 1..i
        BY <1>1, <1>2, <3>1, <3>3
      <4>2. SubSeq(SubSeq(c, 1, i), 1, i - 1) = SubSeq(c, 1, i - 1)
        BY <1>2, <3>1, <4>1, PrefixOfPrefix
      <4>. QED
        BY <3>1, <4>1, <4>2 DEF Below
    <3>. QED
      BY <3>2, <3>3
  <2>2. Linked(d, n + 1)
    BY <2>1 DEF Linked
  <2>. QED
    BY <1>1, <1>2, <2>2
<1>4. CASE Len(c) = 0
  <2>1. Len(c) <= Len(l) /\ \A i \in 1..Len(c) : c[i] = l[i]
    BY <1>1, <1>2, <1>4
  <2>2. IsPrefix(c, l)
    BY <1>2, <2>1, PrefixIs
  <2>. QED
    BY <2>2 DEF l
<1>5. CASE Len(c) # 0
  <2>1. Len(c) \in 1..n /\ Len(c) \in 1..Len(c)
    BY <1>1, <1>2, <1>3, <1>5
  <2>2. Below(c, Len(c)) = Below(l, Len(c))
    BY <1>1, <2>1
  <2>. QED
    BY <1>1, <1>3, <2>2 DEF IsPrefix, Below, l
<1>. QED
  BY <1>4, <1>5

\* Every file's data reached the disk, and is a block of the file's height.
Intact(d) ==
    /\ d \in [Height -> File]
    /\ \A i \in Height :
          /\ d[i].synced
          /\ d[i].block # Torn
          /\ d[i].block = <<>> \/ Len(d[i].block) = i

LEMMA IntactLoads ==
  ASSUME NEW d, Intact(d)
  PROVE  [i \in Height |-> d[i].block] \in [Height -> Chain] /\
         Loaded(d) = LoadChain([i \in Height |-> d[i].block])
BY DEF Intact, File, Loaded

LEMMA LoadedIs ==
  ASSUME NEW d, Intact(d)
  PROVE  /\ Loaded(d) \in Chain
         /\ \A i \in 1..Len(Loaded(d)) : d[i].block = Below(Loaded(d), i)
<1>. DEFINE e == [i \in Height |-> d[i].block]
<1>1. e \in [Height -> Chain] /\ Loaded(d) = LoadChain(e)
  BY IntactLoads
<1>2. \A i \in Height : e[i] = d[i].block
  OBVIOUS
<1>. HIDE DEF e
<1>3. PICK n \in 0..MaxHeight :
          /\ LoadChain(e) \in Chain /\ Len(LoadChain(e)) = n
          /\ \A i \in 1..n : e[i] = Below(LoadChain(e), i)
  BY <1>1, LoadIs
<1>4. \A i \in 1..n : i \in Height
  BY HeightAssumption DEF Height
<1>. QED
  BY <1>1, <1>2, <1>3, <1>4

LEMMA LoadedReaches ==
  ASSUME NEW d, Intact(d), NEW c \in Chain,
         \A i \in 1..Len(c) : d[i].block = Below(c, i)
  PROVE  IsPrefix(c, Loaded(d))
<1>. DEFINE e == [i \in Height |-> d[i].block]
<1>1. e \in [Height -> Chain] /\ Loaded(d) = LoadChain(e)
  BY IntactLoads
<1>2. \A i \in Height : e[i] = d[i].block
  OBVIOUS
<1>. HIDE DEF e
<1>3. \A i \in 1..Len(c) : i \in Height
  BY ChainIs, LenProperties, HeightAssumption DEF Height
<1>. QED
  BY <1>1, <1>2, <1>3, LoadReaches

-----------------------------------------------------------------------------
(* The inductive invariant                                                 *)

AllSynced ==
    /\ Intact(dir)
    /\ Intact(durable)
    /\ save # NoSave /\ save.pc = "rename" => tmp = "synced"

\* A save is of a chain that memory does not hold, above a block it does.
SaveSound ==
    /\ ~up => save = NoSave
    /\ save # NoSave =>
          /\ save.from < save.next /\ save.from < Len(save.chain) /\ save.from <= Len(mem)
          /\ Below(save.chain, save.from) = Below(mem, save.from)
          /\ ~IsPrefix(save.chain, mem)
          /\ IF save.pc = "remove" THEN save.next > Len(save.chain)
                                   ELSE save.next <= Len(save.chain)

FloorInMemory == up => IsPrefix(floor, mem)

\* The files hold the promised chain,
FloorOnDisk == \A i \in 1..Len(floor) : dir[i].block = Below(floor, i)

\* and what the save has written so far.
Done ==
    IF save.pc = "remove" THEN Len(save.chain)
    ELSE IF save.pc = "syncdir" THEN save.next ELSE save.next - 1

SaveOnDisk ==
    save # NoSave =>
        \A i \in (save.from + 1)..Done : dir[i].block = Below(save.chain, i)

\* A renamed block is a promised one again, or ends what is promised; before
\* files are removed, only a part of the saved chain is promised.
FloorGivesWay ==
    save # NoSave =>
        /\ save.pc = "syncdir" =>
              \/ IsPrefix(Below(save.chain, save.next), floor)
              \/ IsPrefix(floor, save.chain) /\ Len(floor) < save.next
        /\ save.pc = "remove" => IsPrefix(floor, save.chain)

\* A file that differs from its durable form is the one just renamed.
Certain ==
    ~doubt => \A i \in Height :
        \/ dir[i].block = <<>>
        \/ durable[i] = dir[i]
        \/ save # NoSave /\ save.pc = "syncdir" /\ i = save.next /\ i > Len(floor)

StoreInv ==
    /\ TypeOK
    /\ AllSynced
    /\ SaveSound
    /\ FloorInMemory
    /\ FloorOnDisk
    /\ SaveOnDisk
    /\ FloorGivesWay
    /\ Certain

LEMMA SaveFields ==
  ASSUME StoreInv, save # NoSave
  PROVE  /\ up = TRUE
         /\ save \in Saves
         /\ save.chain \in Chain /\ save.chain \in Seq(Block) /\ Len(save.chain) \in Nat
         /\ Len(save.chain) <= MaxHeight /\ MaxHeight \in Nat
         /\ save.from \in Nat /\ save.from <= MaxHeight
         /\ save.next \in Nat /\ 0 < save.next /\ save.next <= MaxHeight + 1
         /\ save.pc \in {"write", "sync", "rename", "syncdir", "remove"}
<1>1. save \in Saves
  BY DEF StoreInv, TypeOK
<1>2. /\ save.chain \in Chain /\ save.from \in 0..MaxHeight /\ save.next \in 1..(MaxHeight + 1)
      /\ save.pc \in {"write", "sync", "rename", "syncdir", "remove"}
  BY <1>1 DEF Saves
<1>3. up = TRUE
  BY DEF StoreInv, SaveSound, TypeOK
<1>4. save.chain \in Seq(Block) /\ Len(save.chain) <= MaxHeight /\ Len(save.chain) \in Nat
  BY <1>2, ChainIs, LenProperties
<1>. QED
  BY <1>1, <1>2, <1>3, <1>4, HeightAssumption

LEMMA ChainsAre ==
  ASSUME StoreInv
  PROVE  /\ mem \in Seq(Block) /\ Len(mem) \in Nat /\ Len(mem) <= MaxHeight
         /\ floor \in Seq(Block) /\ Len(floor) \in Nat /\ Len(floor) <= MaxHeight
         /\ MaxHeight \in Nat
BY ChainIs, LenProperties, HeightAssumption DEF StoreInv, TypeOK

LEMMA StoreInit == Init => StoreInv
<1>. SUFFICES ASSUME Init PROVE StoreInv
  OBVIOUS
<1>1. TypeOK
  BY EmptyChain DEF Init, TypeOK, NoFile, File
<1>2. AllSynced
  BY EmptyChain, MarksAssumption DEF Init, AllSynced, Intact, NoFile, File
<1>3. SaveSound /\ SaveOnDisk /\ FloorGivesWay
  BY DEF Init, SaveSound, SaveOnDisk, FloorGivesWay
<1>4. FloorInMemory
  <2>1. IsPrefix(<<>>, <<>>)
    BY EmptyChain DEF IsPrefix
  <2>. QED
    BY <2>1 DEF Init, FloorInMemory
<1>5. FloorOnDisk /\ Certain
  BY EmptyChain DEF Init, FloorOnDisk, Certain
<1>. QED
  BY <1>1, <1>2, <1>3, <1>4, <1>5 DEF StoreInv

-----------------------------------------------------------------------------
(* A save begins                                                           *)

\* From nothing being saved to a save of c above from, which is sound.
LEMMA BeginStep ==
  ASSUME StoreInv, up, save = NoSave,
         NEW c \in Chain, NEW from \in 0..MaxHeight, NEW clean \in BOOLEAN,
         ~IsPrefix(c, mem), from < Len(c), from <= Len(mem),
         Below(c, from) = Below(mem, from),
         save' = Saving(c, from, clean),
         UNCHANGED <<up, mem, tmp, dir, durable, floor, doubt>>
  PROVE  StoreInv' /\ save' # NoSave
<1>. DEFINE new == Saving(c, from, clean)
<1>1. /\ new.chain = c /\ new.from = from /\ new.next = from + 1 /\ new.clean = clean
      /\ new.pc = "write"
  BY DEF Saving
<1>2. new \in Saves
  BY HeightAssumption DEF Saving, Saves
<1>3. new # NoSave /\ save' = new
  BY <1>2, MarksAssumption
<1>. HIDE DEF new
<1>4. Len(c) \in Nat /\ MaxHeight \in Nat
  BY ChainIs, LenProperties, HeightAssumption
<1>5. TypeOK'
  BY <1>2, <1>3 DEF StoreInv, TypeOK
<1>6. AllSynced'
  BY <1>1, <1>3 DEF StoreInv, AllSynced, Intact
<1>7. SaveSound'
  BY <1>1, <1>3, <1>4 DEF StoreInv, SaveSound
<1>8. FloorInMemory' /\ FloorOnDisk' /\ FloorGivesWay'
  BY <1>1, <1>3 DEF StoreInv, FloorInMemory, FloorOnDisk, FloorGivesWay
<1>9. SaveOnDisk'
  BY <1>1, <1>3, <1>4 DEF SaveOnDisk, Done
<1>10. Certain'
  BY <1>1, <1>3 DEF StoreInv, Certain
<1>. QED
  BY <1>3, <1>5, <1>6, <1>7, <1>8, <1>9, <1>10 DEF StoreInv

LEMMA AppendBegins ==
  ASSUME StoreInv, NEW b \in Mined, BeginAppend(b)
  PROVE  StoreInv' /\ save' # NoSave
<1>. DEFINE c == Append(mem, b)
<1>1. /\ mem \in Seq(Block) /\ Len(mem) \in Nat /\ MaxHeight \in Nat /\ b \in Block
      /\ Len(mem) < MaxHeight
  BY ChainsAre, ChainAssumption DEF BeginAppend
<1>2. /\ c \in Seq(Block) /\ Len(c) = Len(mem) + 1
      /\ \A i \in 1..Len(mem) : c[i] = mem[i]
  BY <1>1, AppendProperties
<1>3. /\ UNCHANGED <<up, mem, tmp, dir, durable, floor, doubt>>
      /\ up /\ save = NoSave /\ save' = Saving(c, Len(mem), FALSE)
  BY DEF BeginAppend
<1>. HIDE DEF c
<1>4. c \in Chain /\ Len(mem) \in 0..MaxHeight
  BY <1>1, <1>2, ChainIs
<1>5. ~IsPrefix(c, mem)
  BY <1>1, <1>2, PrefixIs
<1>6. Below(c, Len(mem)) = Below(mem, Len(mem))
  BY <1>1, <1>2, BelowEqual
<1>7. Len(mem) < Len(c) /\ Len(mem) <= Len(mem) /\ FALSE \in BOOLEAN
  BY <1>1, <1>2
<1>. QED
  BY <1>3, <1>4, <1>5, <1>6, <1>7, BeginStep

LEMMA ReorgBegins ==
  ASSUME StoreInv, NEW c \in Fork, NEW from \in 0..Len(c), BeginReorg(c, from)
  PROVE  StoreInv' /\ save' # NoSave
<1>. DEFINE l == Common(mem, c)
<1>1. /\ mem \in Seq(Block) /\ Len(mem) \in Nat /\ MaxHeight \in Nat
      /\ c \in Chain /\ c \in Seq(Block) /\ Len(c) \in Nat /\ Len(c) <= MaxHeight
  BY ChainsAre, ChainAssumption, ChainIs, LenProperties
<1>2. l \in Seq(Block) /\ IsPrefix(l, mem) /\ IsPrefix(l, c) /\ from <= Len(l)
  BY <1>1, CommonIs DEF BeginReorg
<1>3. /\ UNCHANGED <<up, mem, tmp, dir, durable, floor, doubt>>
      /\ up /\ save = NoSave /\ save' = Saving(c, from, TRUE) /\ ~IsPrefix(c, mem)
  BY DEF BeginReorg
<1>. HIDE DEF l
<1>4. Len(l) \in Nat /\ from \in Nat /\ from \in 0..Len(l) /\ from \in 0..MaxHeight
  BY <1>1, <1>2, LenProperties
<1>5. Below(l, from) = Below(mem, from) /\ Below(l, from) = Below(c, from) /\ from <= Len(mem)
  BY <1>1, <1>2, <1>4, PrefixBelow
<1>6. from < Len(c)
  <2>. SUFFICES ASSUME from = Len(c) PROVE FALSE
    BY <1>1, <1>4
  <2>. QED
    BY <1>3, <1>5 DEF IsPrefix, Below
<1>. QED
  BY <1>1, <1>3, <1>4, <1>5, <1>6, BeginStep

-----------------------------------------------------------------------------
(* A block is saved                                                        *)

LEMMA TempStep ==
  ASSUME StoreInv, WriteTemp \/ SyncTemp
  PROVE  StoreInv'
<1>1. PICK pc \in {"sync", "rename"} :
          /\ save # NoSave /\ save.pc \in {"write", "sync"}
          /\ save' = [save EXCEPT !.pc = pc] /\ tmp' \in {"written", "synced"}
          /\ pc = "rename" => tmp' = "synced"
          /\ UNCHANGED <<up, mem, dir, durable, floor, doubt>>
  BY DEF WriteTemp, SyncTemp, At
<1>2. save \in Saves
  BY <1>1, SaveFields
<1>3. /\ save' \in Saves /\ save' # NoSave
      /\ save'.pc = pc /\ save'.chain = save.chain /\ save'.from = save.from
      /\ save'.next = save.next
  BY <1>1, <1>2, MarksAssumption DEF Saves
<1>4. TypeOK'
  BY <1>1, <1>3 DEF StoreInv, TypeOK
<1>5. AllSynced'
  BY <1>1, <1>3 DEF StoreInv, AllSynced, Intact
<1>6. SaveSound'
  BY <1>1, <1>3 DEF StoreInv, SaveSound
<1>7. FloorInMemory' /\ FloorOnDisk' /\ FloorGivesWay'
  BY <1>1, <1>3 DEF StoreInv, FloorInMemory, FloorOnDisk, FloorGivesWay
<1>8. SaveOnDisk'
  BY <1>1, <1>3 DEF StoreInv, SaveOnDisk, Done
<1>9. Certain'
  BY <1>1, <1>3 DEF StoreInv, Certain
<1>. QED
  BY <1>4, <1>5, <1>6, <1>7, <1>8, <1>9 DEF StoreInv

\* What is promised after a block of chain c was renamed: as before, if the
\* block was promised, or less than that block, and a part of c.
LEMMA RenameFloor ==
  ASSUME NEW c \in Seq(Block), NEW f \in Seq(Block), NEW n \in 1..Len(c), NEW g,
         g = IF IsPrefix(Below(c, n), f) THEN f ELSE Common(f, c)
  PROVE  /\ g \in Seq(Block) /\ IsPrefix(g, f)
         /\ \/ g = f /\ IsPrefix(Below(c, n), f)
            \/ IsPrefix(g, c) /\ Len(g) < n
<1>1. CASE IsPrefix(Below(c, n), f)
  BY <1>1, PrefixIs
<1>2. CASE ~IsPrefix(Below(c, n), f)
  <2>1. g \in Seq(Block) /\ IsPrefix(g, f) /\ IsPrefix(g, c)
    BY <1>2, CommonIs
  <2>2. Len(g) < n
    <3>. SUFFICES ASSUME n <= Len(g) PROVE FALSE
      BY <2>1, LenProperties
    <3>1. n \in 0..Len(g) /\ n \in Nat
      BY <2>1, LenProperties
    <3>2. Below(g, n) = Below(c, n)
      BY <2>1, <3>1, PrefixBelow
    <3>3. Below(g, n) \in Seq(Block) /\ IsPrefix(Below(g, n), g)
      BY <2>1, <3>1, BelowIs, BelowPrefix
    <3>4. IsPrefix(Below(g, n), f)
      BY <2>1, <3>3, PrefixTransitive
    <3>. QED
      BY <1>2, <3>2, <3>4
  <2>. QED
    BY <2>1, <2>2
<1>. QED
  BY <1>1, <1>2

LEMMA RenameStep ==
  ASSUME StoreInv, Rename
  PROVE  StoreInv'
<1>. DEFINE c == save.chain
            n == save.next
            block == Below(c, n)
            whole == [block |-> block, synced |-> TRUE]
<1>1. /\ save # NoSave /\ save.pc = "rename" /\ tmp = "synced"
      /\ dir' = [dir EXCEPT ![n] = whole]
      /\ floor' = IF IsPrefix(block, floor) THEN floor ELSE Common(floor, c)
      /\ tmp' = "none" /\ save' = [save EXCEPT !.pc = "syncdir"]
      /\ UNCHANGED <<up, mem, durable, doubt>>
  <2>1. save # NoSave /\ save.pc = "rename" /\ tmp = "synced"
    BY DEF Rename, At, StoreInv, AllSynced
  <2>. QED
    BY <2>1 DEF Rename, Below
<1>2. /\ c \in Chain /\ c \in Seq(Block) /\ Len(c) \in Nat /\ Len(c) <= MaxHeight
      /\ MaxHeight \in Nat /\ n \in Nat /\ 0 < n /\ n <= Len(c) /\ save \in Saves
      /\ save.from \in Nat /\ save.from < n /\ save.from <= Len(mem)
      /\ Below(c, save.from) = Below(mem, save.from) /\ ~IsPrefix(c, mem)
  BY <1>1, SaveFields DEF StoreInv, SaveSound
<1>3. /\ save' \in Saves /\ save' # NoSave /\ save'.pc = "syncdir"
      /\ save'.chain = c /\ save'.from = save.from /\ save'.next = n
  BY <1>1, <1>2, MarksAssumption DEF Saves
<1>4. n \in Height /\ n \in 1..Len(c) /\ n \in 0..Len(c)
  BY <1>2 DEF Height
<1>5. block \in Chain /\ Len(block) = n /\ block # Torn
  BY <1>2, <1>4, BelowChain, BelowIs, MarksAssumption
<1>6. floor \in Seq(Block) /\ Len(floor) \in Nat /\ Len(floor) <= MaxHeight /\ mem \in Seq(Block)
  BY ChainsAre
<1>7. /\ floor' \in Seq(Block) /\ IsPrefix(floor', floor)
      /\ \/ floor' = floor /\ IsPrefix(block, floor)
         \/ IsPrefix(floor', c) /\ Len(floor') < n
  BY <1>1, <1>2, <1>4, <1>6, RenameFloor
<1>8. Len(floor') \in Nat /\ Len(floor') <= Len(floor) /\ floor' \in Chain
  <2>1. Len(floor') \in Nat
    BY <1>7, LenProperties
  <2>2. Len(floor') <= Len(floor)
    BY <1>6, <1>7, PrefixIs
  <2>3. Len(floor') <= MaxHeight
    BY <1>2, <1>6, <2>1, <2>2
  <2>4. floor' \in Chain
    BY <1>7, <2>3, ChainIs
  <2>. QED
    BY <2>1, <2>2, <2>4
<1>9. /\ whole \in File /\ whole.block = block /\ whole.synced = TRUE
      /\ dir' \in [Height -> File] /\ dir'[n] = whole
      /\ \A i \in Height : i # n => dir'[i] = dir[i]
  BY <1>1, <1>4, <1>5 DEF StoreInv, TypeOK, File
<1>. HIDE DEF block, whole, c, n
<1>10. TypeOK'
  BY <1>1, <1>3, <1>5, <1>8, <1>9 DEF StoreInv, TypeOK
<1>11. AllSynced'
  BY <1>1, <1>3, <1>5, <1>9 DEF StoreInv, AllSynced, Intact
<1>12. SaveSound'
  BY <1>1, <1>2, <1>3 DEF StoreInv, SaveSound
<1>13. FloorInMemory'
  BY <1>1, <1>6, <1>7, PrefixTransitive DEF StoreInv, FloorInMemory
<1>14. FloorOnDisk'
  <2>. SUFFICES ASSUME NEW i \in 1..Len(floor') PROVE dir'[i].block = Below(floor', i)
    BY DEF FloorOnDisk
  <2>1. i \in 0..Len(floor') /\ i \in 1..Len(floor) /\ i \in Height
    BY <1>2, <1>6, <1>8 DEF Height
  <2>2. dir[i].block = Below(floor, i) /\ Below(floor', i) = Below(floor, i)
    BY <1>6, <1>7, <2>1, PrefixBelow DEF StoreInv, FloorOnDisk
  <2>3. CASE i # n
    BY <1>9, <2>1, <2>2, <2>3
  <2>4. CASE i = n
    <3>1. IsPrefix(block, floor)
      BY <1>7, <1>8, <2>1, <2>4
    <3>2. n \in 0..Len(block) /\ block \in Seq(Block)
      BY <1>4, <1>5, ChainIs
    <3>3. Below(block, n) = Below(floor, n)
      BY <1>6, <3>1, <3>2, PrefixBelow
    <3>4. Below(block, n) = block
      BY <1>5, <3>2, SubSeqFull DEF Below
    <3>. QED
      BY <1>9, <2>2, <2>4, <3>3, <3>4
  <2>. QED
    BY <2>3, <2>4
<1>15. SaveOnDisk'
  <2>. SUFFICES ASSUME NEW i \in (save.from + 1)..n PROVE dir'[i].block = Below(c, i)
    BY <1>3 DEF SaveOnDisk, Done
  <2>1. CASE i = n
    BY <1>9, <2>1 DEF block
  <2>2. CASE i # n
    <3>1. i \in Height /\ i \in (save.from + 1)..(n - 1)
      BY <1>2, <2>2 DEF Height
    <3>2. dir[i].block = Below(c, i)
      BY <1>1, <3>1 DEF StoreInv, SaveOnDisk, Done, c, n
    <3>. QED
      BY <1>9, <2>2, <3>1, <3>2
  <2>. QED
    BY <2>1, <2>2
<1>16. FloorGivesWay'
  BY <1>1, <1>3, <1>7 DEF FloorGivesWay, block
<1>17. Certain'
  <2>. SUFFICES ASSUME ~doubt, NEW i \in Height
                PROVE  \/ dir'[i].block = <<>>
                       \/ durable[i] = dir'[i]
                       \/ i = n /\ i > Len(floor')
    BY <1>1, <1>3 DEF Certain
  <2>1. dir[i].block = <<>> \/ durable[i] = dir[i]
    BY <1>1 DEF StoreInv, Certain
  <2>2. CASE i # n
    BY <1>9, <2>1, <2>2
  <2>3. CASE i = n /\ Len(floor') < n
    BY <1>8, <2>3
  <2>4. CASE i = n /\ IsPrefix(block, floor) /\ n <= Len(floor)
    <3>1. n \in 1..Len(floor) /\ n \in 0..Len(block) /\ block \in Seq(Block)
      BY <1>4, <1>5, <2>4, ChainIs
    <3>2. Below(block, n) = Below(floor, n) /\ Below(block, n) = block
      BY <1>5, <1>6, <2>4, <3>1, PrefixBelow, SubSeqFull DEF Below
    <3>3. dir[n].block = block /\ dir[n].synced = TRUE /\ dir[n] \in File
      BY <1>4, <3>1, <3>2 DEF StoreInv, FloorOnDisk, AllSynced, TypeOK, Intact, File
    <3>4. dir[n] = whole
      BY <1>9, <3>3 DEF File
    <3>5. Len(<<>>) = 0 /\ block # <<>>
      BY <1>2, <1>5
    <3>. QED
      BY <1>9, <2>1, <2>4, <3>3, <3>4, <3>5
  <2>5. IsPrefix(block, floor) => n <= Len(floor)
    BY <1>5, <1>6, ChainIs, PrefixIs
  <2>. QED
    BY <1>7, <2>2, <2>3, <2>4, <2>5
<1>. QED
  BY <1>10, <1>11, <1>12, <1>13, <1>14, <1>15, <1>16, <1>17 DEF StoreInv

\* The saved blocks are all written.
LEMMA WholeOnDisk ==
  ASSUME StoreInv, save # NoSave, Done = Len(save.chain), Len(floor) >= save.from
  PROVE  \A i \in 1..Len(save.chain) : dir[i].block = Below(save.chain, i)
<1>. DEFINE c == save.chain
            from == save.from
<1>1. /\ c \in Seq(Block) /\ Len(c) \in Nat /\ from \in Nat /\ from <= Len(mem)
      /\ Below(c, from) = Below(mem, from) /\ up /\ from < Len(c)
  BY SaveFields DEF StoreInv, SaveSound
<1>2. /\ mem \in Seq(Block) /\ Len(mem) \in Nat /\ floor \in Seq(Block) /\ Len(floor) \in Nat
      /\ IsPrefix(floor, mem)
  BY <1>1, ChainsAre DEF StoreInv, FloorInMemory
<1>3. SUFFICES ASSUME NEW i \in 1..Len(c) PROVE dir[i].block = Below(c, i)
  OBVIOUS
<1>4. CASE i > from
  <2>1. i \in (from + 1)..Done
    BY <1>1, <1>4
  <2>. QED
    BY <2>1 DEF StoreInv, SaveOnDisk
<1>5. CASE i <= from
  <2>1. i \in 1..Len(floor) /\ i \in 0..Len(floor) /\ i \in 1..from /\ from \in 1..Len(mem)
        /\ from \in 1..Len(c)
    BY <1>1, <1>2, <1>5
  <2>2. dir[i].block = Below(floor, i)
    BY <2>1 DEF StoreInv, FloorOnDisk
  <2>3. Below(floor, i) = Below(mem, i)
    BY <1>2, <2>1, PrefixBelow
  <2>4. SubSeq(SubSeq(c, 1, from), 1, i) = SubSeq(c, 1, i)
    BY <1>1, <2>1, PrefixOfPrefix
  <2>5. SubSeq(SubSeq(mem, 1, from), 1, i) = SubSeq(mem, 1, i)
    BY <1>2, <2>1, PrefixOfPrefix
  <2>. QED
    BY <1>1, <2>2, <2>3, <2>4, <2>5 DEF Below
<1>. QED
  BY <1>1, <1>4, <1>5

\* The save is acknowledged.
LEMMA EndStep ==
  ASSUME StoreInv, save # NoSave, Done = Len(save.chain), End,
         UNCHANGED <<up, tmp, dir>>,
         Intact(durable'), doubt' \in BOOLEAN,
         ~doubt' => \A i \in Height : dir[i].block = <<>> \/ durable'[i] = dir[i]
  PROVE  StoreInv'
<1>. DEFINE c == save.chain
<1>1. /\ save' = NoSave /\ mem' = c
      /\ floor' = IF Len(floor) >= save.from THEN c ELSE floor
  BY DEF End
<1>2. /\ c \in Chain /\ c \in Seq(Block) /\ Len(c) \in Nat
      /\ save.from \in Nat /\ save.from <= Len(mem) /\ save.from < Len(c)
      /\ Below(c, save.from) = Below(mem, save.from) /\ up
  BY SaveFields DEF StoreInv, SaveSound
<1>3. /\ floor \in Seq(Block) /\ Len(floor) \in Nat /\ mem \in Seq(Block) /\ Len(mem) \in Nat
      /\ IsPrefix(floor, mem) /\ floor \in Chain
  BY <1>2, ChainsAre DEF StoreInv, TypeOK, FloorInMemory
<1>. HIDE DEF c
<1>4. TypeOK'
  BY <1>1, <1>2 DEF StoreInv, TypeOK, Intact
<1>5. AllSynced'
  BY <1>1 DEF StoreInv, AllSynced, Intact
<1>6. SaveSound' /\ SaveOnDisk' /\ FloorGivesWay'
  BY <1>1 DEF SaveSound, SaveOnDisk, FloorGivesWay
<1>7. FloorInMemory'
  <2>1. CASE Len(floor) >= save.from
    BY <1>1, <1>2, <2>1, PrefixIs DEF FloorInMemory
  <2>2. CASE ~(Len(floor) >= save.from)
    <3>1. IsPrefix(floor, c)
      <4>1. Len(floor) <= Len(c) /\ \A j \in 1..Len(floor) : j \in 1..save.from
        BY <1>2, <1>3, <2>2
      <4>2. \A j \in 1..Len(floor) : floor[j] = mem[j]
        BY <1>3, PrefixIs
      <4>3. \A j \in 1..save.from : c[j] = mem[j]
        <5>1. save.from <= Len(c)
          BY <1>2
        <5>. QED
          BY <1>2, <1>3, <5>1, BelowEqual
      <4>4. \A j \in 1..Len(floor) : floor[j] = c[j]
        BY <4>1, <4>2, <4>3
      <4>. QED
        BY <1>2, <1>3, <4>1, <4>4, PrefixIs
    <3>. QED
      BY <1>1, <2>2, <3>1 DEF FloorInMemory
  <2>. QED
    BY <2>1, <2>2
<1>8. FloorOnDisk'
  <2>1. CASE Len(floor) >= save.from
    BY <1>1, <2>1, WholeOnDisk DEF FloorOnDisk, c
  <2>2. CASE ~(Len(floor) >= save.from)
    BY <1>1, <2>2 DEF StoreInv, FloorOnDisk
  <2>. QED
    BY <2>1, <2>2
<1>9. Certain'
  BY DEF Certain
<1>. QED
  BY <1>4, <1>5, <1>6, <1>7, <1>8, <1>9 DEF StoreInv

\* The directory's fsync, or its failure, leaves only what is certain.
LEMMA SyncedDir ==
  ASSUME StoreInv, SyncDir
  PROVE  /\ Intact(durable') /\ doubt' \in BOOLEAN
         /\ ~doubt' => durable' = dir
<1>1. CASE durable' = dir /\ doubt' = FALSE
  BY <1>1 DEF StoreInv, TypeOK, AllSynced, Intact
<1>2. CASE durable' = durable /\ doubt' = TRUE
  BY <1>2 DEF StoreInv, TypeOK, AllSynced, Intact
<1>. QED
  BY <1>1, <1>2 DEF SyncDir

\* The last block of a save was renamed: nothing else stays promised.
LEMMA LastRenamed ==
  ASSUME StoreInv, save # NoSave, save.pc = "syncdir", save.next = Len(save.chain)
  PROVE  IsPrefix(floor, save.chain)
<1>. DEFINE c == save.chain
<1>1. c \in Seq(Block) /\ ~IsPrefix(c, mem) /\ up
  BY SaveFields DEF StoreInv, SaveSound
<1>2. floor \in Seq(Block) /\ mem \in Seq(Block) /\ IsPrefix(floor, mem)
  BY <1>1, ChainsAre DEF StoreInv, FloorInMemory
<1>3. Below(c, save.next) = c
  BY <1>1, SubSeqFull DEF Below
<1>4. ~IsPrefix(c, floor)
  BY <1>1, <1>2, PrefixTransitive
<1>. QED
  BY <1>3, <1>4 DEF StoreInv, FloorGivesWay

LEMMA SyncDirStep ==
  ASSUME StoreInv, SyncDir
  PROVE  StoreInv'
<1>1. /\ save # NoSave /\ save.pc = "syncdir" /\ Proceed /\ UNCHANGED <<up, tmp, dir>>
  BY DEF SyncDir, At
<1>2. /\ Intact(durable') /\ doubt' \in BOOLEAN
      /\ ~doubt' => durable' = dir
  BY SyncedDir
<1>3. /\ save \in Saves /\ save.chain \in Chain /\ Len(save.chain) \in Nat
      /\ Len(save.chain) <= MaxHeight /\ MaxHeight \in Nat
      /\ save.next \in Nat /\ 0 < save.next /\ save.next <= Len(save.chain) /\ save.from < save.next
      /\ save.from \in Nat
  BY <1>1, SaveFields DEF StoreInv, SaveSound
<1>4. Done = save.next
  BY <1>1 DEF Done
<1>5. ASSUME NEW pc \in {"write", "remove"},
             save' = [save EXCEPT !.next = @ + 1, !.pc = pc], UNCHANGED <<mem, floor>>,
             IF pc = "write" THEN save.next < Len(save.chain) ELSE save.next = Len(save.chain)
      PROVE  StoreInv'
  <2>1. /\ save' \in Saves /\ save' # NoSave /\ save'.pc = pc
        /\ save'.chain = save.chain /\ save'.from = save.from /\ save'.next = save.next + 1
    <3>1. save.next + 1 \in 1..(MaxHeight + 1)
      BY <1>3
    <3>2. save' \in Saves
      BY <1>3, <1>5, <3>1 DEF Saves
    <3>3. /\ save'.pc = pc /\ save'.chain = save.chain /\ save'.from = save.from
          /\ save'.next = save.next + 1
      BY <1>3, <1>5 DEF Saves
    <3>. QED
      BY <3>2, <3>3, MarksAssumption
  <2>2. TypeOK'
    BY <1>1, <1>2, <1>5, <2>1 DEF StoreInv, TypeOK, Intact
  <2>3. AllSynced'
    BY <1>1, <1>2, <1>5, <2>1 DEF StoreInv, AllSynced, Intact
  <2>4. SaveSound'
    BY <1>1, <1>3, <1>5, <2>1 DEF StoreInv, SaveSound
  <2>5. FloorInMemory' /\ FloorOnDisk'
    BY <1>1, <1>5 DEF StoreInv, FloorInMemory, FloorOnDisk
  <2>6. Done' = Done
    BY <1>3, <1>4, <1>5, <2>1 DEF Done
  <2>7. SaveOnDisk'
    BY <1>1, <2>1, <2>6 DEF StoreInv, SaveOnDisk
  <2>8. FloorGivesWay'
    BY <1>1, <1>5, <2>1, LastRenamed DEF FloorGivesWay
  <2>9. Certain'
    BY <1>1, <1>2 DEF Certain
  <2>. QED
    BY <2>2, <2>3, <2>4, <2>5, <2>7, <2>8, <2>9 DEF StoreInv
<1>6. CASE save.next < Len(save.chain)
  BY <1>1, <1>5, <1>6 DEF Proceed
<1>7. CASE save.next = Len(save.chain) /\ save.clean
  BY <1>1, <1>5, <1>7 DEF Proceed
<1>8. CASE save.next = Len(save.chain) /\ ~save.clean
  <2>1. End
    BY <1>1, <1>8 DEF Proceed
  <2>. QED
    BY <1>1, <1>2, <1>4, <1>8, <2>1, EndStep
<1>. QED
  BY <1>3, <1>6, <1>7, <1>8

LEMMA RemoveStep ==
  ASSUME StoreInv, RemoveFile
  PROVE  StoreInv'
<1>1. /\ save # NoSave /\ save.pc = "remove" /\ UNCHANGED <<up, tmp, durable, doubt>>
  BY DEF RemoveFile, At
<1>2. /\ save \in Saves /\ save.chain \in Seq(Block) /\ Len(save.chain) \in Nat
      /\ save.next \in Nat /\ 0 < save.next /\ Len(save.chain) < save.next
      /\ IsPrefix(floor, save.chain) /\ MaxHeight \in Nat /\ save.next <= MaxHeight + 1
      /\ save.from \in Nat
  BY <1>1, SaveFields DEF StoreInv, SaveSound, FloorGivesWay
<1>3. Done = Len(save.chain)
  BY <1>1 DEF Done
<1>4. floor \in Seq(Block) /\ Len(floor) \in Nat /\ Len(floor) <= Len(save.chain)
  BY <1>2, ChainsAre, PrefixIs
<1>5. CASE /\ save.next <= MaxHeight
           /\ dir' \in {dir, [dir EXCEPT ![save.next] = NoFile]}
           /\ save' = [save EXCEPT !.next = @ + 1]
           /\ UNCHANGED <<mem, floor>>
  <2>1. /\ save' \in Saves /\ save' # NoSave /\ save'.pc = "remove"
        /\ save'.chain = save.chain /\ save'.from = save.from /\ save'.next = save.next + 1
    BY <1>1, <1>2, <1>5, MarksAssumption DEF Saves
  <2>2. NoFile \in File /\ NoFile.synced /\ NoFile.block = <<>> /\ <<>> # Torn
    BY EmptyChain, MarksAssumption DEF NoFile, File
  <2>3. /\ dir' \in [Height -> File]
        /\ \A i \in Height : dir'[i] = dir[i] \/ (i = save.next /\ dir'[i] = NoFile)
    BY <1>2, <1>5, <2>2 DEF StoreInv, TypeOK
  <2>4. TypeOK'
    BY <1>1, <1>5, <2>1, <2>2, <2>3 DEF StoreInv, TypeOK
  <2>5. AllSynced'
    BY <1>1, <2>1, <2>2, <2>3 DEF StoreInv, AllSynced, Intact
  <2>6. SaveSound'
    BY <1>1, <1>2, <1>5, <2>1 DEF StoreInv, SaveSound
  <2>7. FloorInMemory'
    BY <1>1, <1>5 DEF StoreInv, FloorInMemory
  <2>8. \A i \in 1..Len(save.chain) : i \in Height /\ dir'[i] = dir[i]
    BY <1>2, <1>5, <2>3 DEF Height
  <2>9. FloorOnDisk'
    BY <1>4, <1>5, <2>8 DEF StoreInv, FloorOnDisk
  <2>10. SaveOnDisk'
    <3>. SUFFICES ASSUME NEW i \in (save.from + 1)..Len(save.chain)
                  PROVE  dir'[i].block = Below(save.chain, i)
      BY <2>1 DEF SaveOnDisk, Done
    <3>1. dir[i].block = Below(save.chain, i)
      BY <1>1, <1>3 DEF StoreInv, SaveOnDisk
    <3>2. save.from \in Nat /\ i \in 1..Len(save.chain)
      BY <1>1, SaveFields
    <3>. QED
      BY <2>8, <3>1, <3>2
  <2>11. FloorGivesWay'
    BY <1>2, <1>5, <2>1 DEF FloorGivesWay
  <2>12. Certain'
    BY <1>1, <1>5, <2>1, <2>2, <2>3 DEF StoreInv, Certain
  <2>. QED
    BY <2>4, <2>5, <2>6, <2>7, <2>9, <2>10, <2>11, <2>12 DEF StoreInv
<1>6. CASE save.next > MaxHeight /\ dir' = dir /\ End
  <2>1. /\ Intact(durable') /\ doubt' \in BOOLEAN
        /\ ~doubt' => \A i \in Height : dir[i].block = <<>> \/ durable'[i] = dir[i]
    BY <1>1 DEF StoreInv, TypeOK, AllSynced, Intact, Certain
  <2>. QED
    BY <1>1, <1>3, <1>6, <2>1, EndStep
<1>. QED
  BY <1>5, <1>6 DEF RemoveFile

-----------------------------------------------------------------------------
(* Failures                                                                *)

LEMMA FailStep ==
  ASSUME StoreInv, SaveFails
  PROVE  StoreInv'
<1>1. /\ save # NoSave /\ save.pc \in {"write", "sync", "rename"}
      /\ save' = NoSave /\ tmp' = "none"
      /\ UNCHANGED <<up, mem, dir, durable, floor, doubt>>
  BY DEF SaveFails
<1>2. TypeOK' /\ AllSynced'
  BY <1>1 DEF StoreInv, TypeOK, AllSynced, Intact
<1>3. SaveSound' /\ SaveOnDisk' /\ FloorGivesWay'
  BY <1>1 DEF SaveSound, SaveOnDisk, FloorGivesWay
<1>4. FloorInMemory' /\ FloorOnDisk' /\ Certain'
  BY <1>1 DEF StoreInv, FloorInMemory, FloorOnDisk, Certain
<1>. QED
  BY <1>2, <1>3, <1>4 DEF StoreInv

LEMMA KillStep ==
  ASSUME StoreInv, Kill
  PROVE  StoreInv'
<1>1. /\ up' = FALSE /\ mem' = <<>> /\ save' = NoSave /\ tmp' = "none"
      /\ doubt' = (doubt \/ At("syncdir")) /\ UNCHANGED <<dir, durable, floor>>
  BY DEF Kill, Gone
<1>2. doubt' \in BOOLEAN
  BY <1>1
<1>3. TypeOK' /\ AllSynced'
  BY <1>1, <1>2, EmptyChain DEF StoreInv, TypeOK, AllSynced, Intact
<1>4. SaveSound' /\ SaveOnDisk' /\ FloorGivesWay' /\ FloorInMemory'
  BY <1>1 DEF SaveSound, SaveOnDisk, FloorGivesWay, FloorInMemory
<1>5. FloorOnDisk'
  BY <1>1 DEF StoreInv, FloorOnDisk
<1>6. Certain'
  <2>. SUFFICES ASSUME ~doubt, ~At("syncdir"), NEW i \in Height
                PROVE  dir[i].block = <<>> \/ durable[i] = dir[i]
    BY <1>1 DEF Certain
  <2>1. save # NoSave => save.pc # "syncdir"
    BY SaveFields DEF At
  <2>. QED
    BY <2>1 DEF StoreInv, Certain
<1>. QED
  BY <1>3, <1>4, <1>5, <1>6 DEF StoreInv

\* A loss of power leaves, at each height, one of the two files.
LEMMA SurvivorIs ==
  ASSUME StoreInv, NEW d \in Survivors
  PROVE  /\ Intact(d)
         /\ \A i \in Height : d[i] = dir[i] \/ d[i] = durable[i]
<1>1. PICK reached \in SUBSET Height :
          d = [i \in Height |-> AfterLoss(IF i \in reached THEN dir[i] ELSE durable[i])]
  BY DEF Survivors
<1>2. \A i \in Height : d[i] = dir[i] \/ d[i] = durable[i]
  BY <1>1 DEF StoreInv, AllSynced, Intact, AfterLoss
<1>3. d \in [Height -> File]
  <2>1. \A i \in Height : d[i] \in File
    BY <1>2 DEF StoreInv, TypeOK
  <2>2. DOMAIN d = Height /\ d = [i \in Height |-> d[i]]
    BY <1>1
  <2>. QED
    BY <2>1, <2>2
<1>. QED
  BY <1>2, <1>3 DEF StoreInv, TypeOK, AllSynced, Intact

\* The promise holds on what a loss of power leaves, unless it is in doubt.
LEMMA SurvivorHolds ==
  ASSUME StoreInv, ~doubt, NEW d \in Survivors, NEW i \in 1..Len(floor)
  PROVE  d[i].block = Below(floor, i)
<1>1. /\ floor \in Seq(Block) /\ Len(floor) \in Nat /\ Len(floor) <= MaxHeight
      /\ MaxHeight \in Nat
  BY ChainsAre
<1>2. i \in Height /\ i \in 0..Len(floor) /\ ~(i > Len(floor)) /\ i # 0
  BY <1>1 DEF Height
<1>3. dir[i].block = Below(floor, i)
  BY DEF StoreInv, FloorOnDisk
<1>4. dir[i].block # <<>>
  BY <1>1, <1>2, <1>3, BelowIs, EmptyChain
<1>5. durable[i] = dir[i]
  BY <1>2, <1>4 DEF StoreInv, Certain
<1>. QED
  BY <1>2, <1>3, <1>5, SurvivorIs

LEMMA PowerLossStep ==
  ASSUME StoreInv, PowerLoss
  PROVE  StoreInv'
<1>. DEFINE l == Loaded(dir')
<1>1. /\ up' = FALSE /\ mem' = <<>> /\ save' = NoSave /\ tmp' = "none"
      /\ dir' \in Survivors /\ durable' = dir' /\ doubt' = FALSE
      /\ floor' = IF doubt THEN Common(floor, l) ELSE floor
  BY DEF PowerLoss, Gone
<1>2. Intact(dir')
  BY <1>1, SurvivorIs
<1>3. l \in Chain /\ \A i \in 1..Len(l) : dir'[i].block = Below(l, i)
  BY <1>2, LoadedIs
<1>4. floor \in Seq(Block) /\ Len(floor) \in Nat /\ Len(floor) <= MaxHeight /\ floor \in Chain
  BY ChainsAre DEF StoreInv, TypeOK
<1>5. l \in Seq(Block) /\ Len(l) \in Nat
  BY <1>3, ChainIs, LenProperties
<1>. HIDE DEF l
<1>6. floor' \in Chain
  <2>1. CASE doubt
    <3>1. floor' \in Seq(Block) /\ IsPrefix(floor', floor)
      BY <1>1, <1>4, <1>5, <2>1, CommonIs
    <3>2. Len(floor') \in Nat /\ Len(floor') <= Len(floor)
      BY <1>4, <3>1, PrefixIs, LenProperties
    <3>3. Len(floor') <= MaxHeight
      BY <1>4, <3>2, HeightAssumption
    <3>. QED
      BY <3>1, <3>3, ChainIs
  <2>2. CASE ~doubt
    BY <1>1, <1>4, <2>2
  <2>. QED
    BY <2>1, <2>2
<1>7. TypeOK' /\ AllSynced'
  BY <1>1, <1>2, <1>6, EmptyChain DEF StoreInv, TypeOK, AllSynced, Intact
<1>8. SaveSound' /\ SaveOnDisk' /\ FloorGivesWay' /\ FloorInMemory'
  BY <1>1 DEF SaveSound, SaveOnDisk, FloorGivesWay, FloorInMemory
<1>9. FloorOnDisk'
  <2>1. CASE doubt
    <3>. DEFINE f == Common(floor, l)
    <3>1. f \in Seq(Block) /\ IsPrefix(f, l) /\ floor' = f
      BY <1>1, <1>4, <1>5, <2>1, CommonIs
    <3>. HIDE DEF f
    <3>2. Len(f) \in Nat /\ Len(f) <= Len(l)
      BY <1>5, <3>1, PrefixIs, LenProperties
    <3>3. ASSUME NEW i \in 1..Len(f) PROVE dir'[i].block = Below(f, i)
      <4>1. i \in 0..Len(f) /\ i \in 1..Len(l)
        BY <1>5, <3>2
      <4>2. Below(f, i) = Below(l, i)
        BY <1>5, <3>1, <4>1, PrefixBelow
      <4>. QED
        BY <1>3, <4>1, <4>2
    <3>. QED
      BY <3>1, <3>3 DEF FloorOnDisk
  <2>2. CASE ~doubt
    BY <1>1, <2>2, SurvivorHolds DEF FloorOnDisk
  <2>. QED
    BY <2>1, <2>2
<1>10. Certain'
  BY <1>1 DEF Certain
<1>. QED
  BY <1>7, <1>8, <1>9, <1>10 DEF StoreInv

LEMMA RestartStep ==
  ASSUME StoreInv, Restart
  PROVE  StoreInv'
<1>. DEFINE l == Loaded(dir)
<1>1. /\ up' = TRUE /\ mem' = l /\ floor' = l /\ save = NoSave
      /\ UNCHANGED <<save, tmp, dir, durable, doubt>>
  BY DEF Restart, StoreInv, SaveSound
<1>2. l \in Chain /\ \A i \in 1..Len(l) : dir[i].block = Below(l, i)
  BY LoadedIs DEF StoreInv, AllSynced
<1>3. IsPrefix(l, l)
  BY <1>2, ChainIs, PrefixIs, LenProperties
<1>. HIDE DEF l
<1>4. TypeOK' /\ AllSynced'
  BY <1>1, <1>2 DEF StoreInv, TypeOK, AllSynced, Intact
<1>5. SaveSound' /\ SaveOnDisk' /\ FloorGivesWay'
  BY <1>1 DEF SaveSound, SaveOnDisk, FloorGivesWay
<1>6. FloorInMemory' /\ FloorOnDisk'
  BY <1>1, <1>2, <1>3 DEF FloorInMemory, FloorOnDisk
<1>7. Certain'
  BY <1>1 DEF StoreInv, Certain
<1>. QED
  BY <1>4, <1>5, <1>6, <1>7 DEF StoreInv

LEMMA StoreNext == StoreInv /\ [Next]_vars => StoreInv'
<1>. SUFFICES ASSUME StoreInv, [Next]_vars PROVE StoreInv'
  OBVIOUS
<1>1. CASE UNCHANGED vars
  BY <1>1 DEF vars, StoreInv, TypeOK, AllSynced, Intact, SaveSound, FloorInMemory,
              FloorOnDisk, SaveOnDisk, Done, FloorGivesWay, Certain
<1>. QED
  BY <1>1, AppendBegins, ReorgBegins, TempStep, RenameStep, SyncDirStep, RemoveStep,
     FailStep, KillStep, PowerLossStep, RestartStep DEF Next

-----------------------------------------------------------------------------
(* Theorems                                                                *)

\* A loss of power at any moment leaves only files that parse: SaveBlock's
\* fsync before the rename makes up for everything that comes after it.
THEOREM NeverTornCorrect == Spec => []NeverTorn
<1>1. StoreInv => NeverTorn
  BY SurvivorIs DEF NeverTorn, Intact
<1>. QED
  BY <1>1, StoreInit, StoreNext, PTL DEF Spec

\* After a loss of power at any moment the acknowledged chain is loaded, unless
\* an error in the directory's fsync, which SaveBlock ignores, left it in doubt.
THEOREM PowerSafeCorrect == Spec => []PowerSafe
<1>1. StoreInv => PowerSafe
  <2>. SUFFICES ASSUME StoreInv, ~doubt, NEW d \in Survivors PROVE IsPrefix(floor, Loaded(d))
    BY DEF PowerSafe
  <2>1. Intact(d) /\ \A i \in 1..Len(floor) : d[i].block = Below(floor, i)
    BY SurvivorIs, SurvivorHolds
  <2>2. floor \in Chain
    BY DEF StoreInv, TypeOK
  <2>. QED
    BY <2>1, <2>2, LoadedReaches
<1>. QED
  BY <1>1, StoreInit, StoreNext, PTL DEF Spec

-----------------------------------------------------------------------------
(* ChainStore keeps SafeStore's promise                                    *)

\* What would be loaded starts with the promised chain, after every step.
LEMMA FloorKept ==
  ASSUME StoreInv'
  PROVE  /\ Loaded(dir)' = Loaded(dir') /\ Loaded(dir') \in Chain
         /\ IsPrefix(floor', Loaded(dir'))
<1>1. Intact(dir') /\ floor' \in Chain /\ \A i \in 1..Len(floor') : dir'[i].block = Below(floor', i)
  BY DEF StoreInv, AllSynced, TypeOK, FloorOnDisk
<1>2. Loaded(dir') \in Chain /\ IsPrefix(floor', Loaded(dir'))
  BY <1>1, LoadedIs, LoadedReaches
<1>3. Loaded(dir)' = Loaded(dir')
  BY DEF Loaded
<1>. QED
  BY <1>2, <1>3

\* SafeStore's operators on chains are ChainStore's.
LEMMA SafeSame ==
  ASSUME NEW c, NEW d
  PROVE  (Safe!IsPrefix(c, d) <=> IsPrefix(c, d)) /\ Safe!Common(c, d) = Common(c, d)
BY DEF Safe!IsPrefix, IsPrefix, Safe!Common, Common, Safe!LongestCommonPrefix,
       LongestCommonPrefix, Safe!CommonPrefixes, CommonPrefixes, Safe!Prefixes, Prefixes

\* What SafeStore sees of the save in progress.
Shown(sv) == IF sv = NoSave THEN NoSave ELSE [chain |-> sv.chain, from |-> sv.from]

LEMMA ShownIs ==
  ASSUME NEW sv \in Saves
  PROVE  /\ Shown(sv) = [chain |-> sv.chain, from |-> sv.from]
         /\ Shown(sv) # NoSave
         /\ Shown(sv) \in [chain : Chain, from : Nat]
<1>1. sv.chain \in Chain /\ sv.from \in 0..MaxHeight
  BY DEF Saves
<1>2. [chain |-> sv.chain, from |-> sv.from] \in [chain : Chain, from : 0..MaxHeight]
  BY <1>1
<1>. QED
  BY <1>1, <1>2, MarksAssumption, HeightAssumption DEF Shown

LEMMA SafeInit == Init => Safe!Init
<1>. SUFFICES ASSUME Init PROVE Safe!Init
  OBVIOUS
<1>1. Loaded(dir) = <<>>
  <2>1. StoreInv
    BY StoreInit
  <2>2. Loaded(dir) \in Chain /\ \A i \in 1..Len(Loaded(dir)) : dir[i].block = Below(Loaded(dir), i)
    BY <2>1, LoadedIs DEF StoreInv, AllSynced
  <2>3. Loaded(dir) \in Seq(Block) /\ Len(Loaded(dir)) \in Nat /\ Len(Loaded(dir)) <= MaxHeight
    BY <2>2, ChainIs, LenProperties
  <2>4. ASSUME Len(Loaded(dir)) # 0 PROVE FALSE
    <3>1. 1 \in 1..Len(Loaded(dir)) /\ 1 \in 0..Len(Loaded(dir)) /\ 1 \in Height
      BY <2>3, <2>4, HeightAssumption DEF Height
    <3>2. dir[1].block = Below(Loaded(dir), 1) /\ dir[1].block = <<>>
      BY <2>2, <3>1 DEF Init, NoFile
    <3>3. Len(Below(Loaded(dir), 1)) = 1
      BY <2>3, <3>1, BelowIs
    <3>. QED
      BY <3>2, <3>3, EmptyChain
  <2>. QED
    BY <2>3, <2>4, EmptySeq
<1>. QED
  BY <1>1 DEF Init, Safe!Init

\* A step in which the save goes on.
LEMMA SafeWork ==
  ASSUME StoreInv, StoreInv', save # NoSave, save' # NoSave,
         save'.chain = save.chain, save'.from = save.from,
         floor' = floor \/ floor' = Common(floor, save.chain)
  PROVE  Safe!Next
<1>1. save \in Saves /\ save' \in Saves
  BY DEF StoreInv, TypeOK
<1>2. Shown(save) # NoSave /\ Shown(save') = Shown(save) /\ Shown(save).chain = save.chain
  BY <1>1, ShownIs
<1>3. Safe!Work
  BY <1>2, FloorKept, SafeSame DEF Safe!Work, Shown
<1>. QED
  BY <1>3 DEF Safe!Next

LEMMA SafeEnd ==
  ASSUME StoreInv, StoreInv', save # NoSave, End
  PROVE  Safe!Next
<1>1. save \in Saves
  BY DEF StoreInv, TypeOK
<1>2. /\ Shown(save) # NoSave /\ Shown(save).chain = save.chain
      /\ Shown(save).from = save.from /\ Shown(save') = NoSave
  BY <1>1, ShownIs DEF End, Shown
<1>3. Safe!Acknowledge
  BY <1>2, FloorKept, SafeSame DEF Safe!Acknowledge, End, Shown
<1>. QED
  BY <1>3 DEF Safe!Next

\* A stop.
LEMMA SafeStop ==
  ASSUME StoreInv', save' = NoSave,
         floor' = IF doubt THEN Common(floor, Loaded(dir')) ELSE floor
  PROVE  Safe!Next
<1>1. Safe!Stop
  BY FloorKept, SafeSame DEF Safe!Stop
<1>. QED
  BY <1>1 DEF Safe!Next

\* Each step of ChainStore is one of SafeStore's, or none.
LEMMA SafeNext ==
  ASSUME StoreInv, StoreInv', [Next]_vars
  PROVE  [Safe!Next]_(Safe!vars)
<1>1. CASE UNCHANGED vars
  BY <1>1 DEF vars, Safe!vars, Loaded
<1>2. save # NoSave => save \in Saves
  BY DEF StoreInv, TypeOK
<1>3. ASSUME save = NoSave, save' # NoSave, UNCHANGED <<dir, floor, doubt>>
      PROVE  Safe!Next
  <2>1. save' \in Saves
    BY <1>3 DEF StoreInv, TypeOK
  <2>2. Shown(save') \in [chain : Chain, from : Nat] /\ Shown(save) = NoSave
    BY <1>3, <2>1, ShownIs DEF Shown
  <2>3. Safe!Begin
    BY <1>3, <2>2 DEF Safe!Begin, Shown, Loaded
  <2>. QED
    BY <2>3 DEF Safe!Next
<1>4. ASSUME NEW b \in Mined, BeginAppend(b) PROVE Safe!Next
  BY <1>3, <1>4, AppendBegins DEF BeginAppend
<1>5. ASSUME NEW c \in Fork, NEW from \in 0..Len(c), BeginReorg(c, from) PROVE Safe!Next
  BY <1>3, <1>5, ReorgBegins DEF BeginReorg
<1>6. CASE WriteTemp \/ SyncTemp
  <2>1. UNCHANGED <<dir, floor, doubt>> /\ Shown(save') = Shown(save)
    <3>1. PICK pc \in {"sync", "rename"} :
              /\ save # NoSave /\ save' = [save EXCEPT !.pc = pc]
              /\ UNCHANGED <<dir, floor, doubt>>
      BY <1>6 DEF WriteTemp, SyncTemp, At
    <3>2. save' \in Saves /\ save'.chain = save.chain /\ save'.from = save.from
      BY <1>2, <3>1 DEF Saves
    <3>. QED
      BY <1>2, <3>1, <3>2, ShownIs
  <2>. QED
    BY <2>1 DEF Safe!vars, Shown, Loaded
<1>7. CASE Rename
  <2>1. save' # NoSave /\ save'.chain = save.chain /\ save'.from = save.from /\ save # NoSave
    <3>1. save # NoSave /\ save' = [save EXCEPT !.pc = "syncdir"]
      BY <1>7 DEF Rename, At
    <3>. QED
      BY <1>2, <3>1, MarksAssumption DEF Saves
  <2>2. floor' = floor \/ floor' = Common(floor, save.chain)
    BY <1>7 DEF Rename
  <2>. QED
    BY <2>1, <2>2, SafeWork
<1>8. ASSUME SyncDir \/ RemoveFile PROVE Safe!Next
  <2>1. save # NoSave
    BY <1>8 DEF SyncDir, RemoveFile, At
  <2>2. CASE End
    BY <2>1, <2>2, SafeEnd
  <2>3. CASE ~End
    <3>1. save' # NoSave /\ save'.chain = save.chain /\ save'.from = save.from /\ floor' = floor
      <4>1. PICK pc \in {"write", "remove"} :
               /\ floor' = floor /\ save.next <= MaxHeight
               /\ save' = [save EXCEPT !.next = @ + 1, !.pc = pc]
        <5>1. CASE SyncDir
          <6>1. save.pc = "syncdir" /\ floor' = floor
                /\ \/ save' = [save EXCEPT !.next = @ + 1, !.pc = "write"]
                   \/ save' = [save EXCEPT !.next = @ + 1, !.pc = "remove"]
            BY <2>3, <5>1 DEF SyncDir, Proceed, At
          <6>2. save.next <= MaxHeight
            <7>1. save.next <= Len(save.chain)
              BY <2>1, <6>1 DEF StoreInv, SaveSound
            <7>. QED
              BY <2>1, <7>1, SaveFields
          <6>. QED
            BY <6>1, <6>2
        <5>2. CASE RemoveFile
          <6>1. /\ save.pc = "remove" /\ floor' = floor /\ save.next <= MaxHeight
                /\ save' = [save EXCEPT !.next = @ + 1]
            BY <2>3, <5>2 DEF RemoveFile, At
          <6>2. save' = [save EXCEPT !.next = @ + 1, !.pc = "remove"]
            BY <1>2, <2>1, <6>1 DEF Saves
          <6>. QED
            BY <6>1, <6>2
        <5>. QED
          BY <1>8, <5>1, <5>2
      <4>2. save \in Saves /\ save.next + 1 \in 1..(MaxHeight + 1)
        BY <1>2, <2>1, <4>1, SaveFields
      <4>3. save' \in Saves
        BY <4>1, <4>2 DEF Saves
      <4>4. save'.chain = save.chain /\ save'.from = save.from
        BY <4>1, <4>2 DEF Saves
      <4>. QED
        BY <4>1, <4>3, <4>4, MarksAssumption
    <3>. QED
      BY <2>1, <3>1, SafeWork
  <2>. QED
    BY <2>2, <2>3
<1>9. CASE SaveFails
  <2>1. /\ save \in Saves /\ Shown(save') = NoSave
        /\ UNCHANGED <<dir, floor, doubt>>
    BY <1>2, <1>9 DEF SaveFails, Shown
  <2>2. Safe!Fail
    BY <2>1, ShownIs DEF Safe!Fail, Shown, Loaded
  <2>. QED
    BY <2>2 DEF Safe!Next
<1>10. CASE Kill
  <2>1. dir' = dir /\ floor' = floor /\ save' = NoSave
    BY <1>10 DEF Kill, Gone
  <2>2. Loaded(dir') \in Seq(Block) /\ IsPrefix(floor, Loaded(dir')) /\ floor \in Seq(Block)
    BY <2>1, FloorKept, ChainIs, ChainsAre
  <2>3. Common(floor, Loaded(dir')) = floor
    BY <2>2, CommonOfPrefix
  <2>. QED
    BY <2>1, <2>3, SafeStop
<1>11. CASE PowerLoss
  BY <1>11, SafeStop DEF PowerLoss, Gone
<1>12. CASE Restart
  <2>1. /\ Shown(save) = NoSave /\ Shown(save') = NoSave /\ floor' = Loaded(dir)
        /\ UNCHANGED <<dir, doubt>>
    BY <1>12 DEF Restart, StoreInv, SaveSound, Shown
  <2>2. Safe!Restart
    BY <2>1 DEF Safe!Restart, Shown, Loaded
  <2>. QED
    BY <2>2 DEF Safe!Next
<1>. QED
  BY <1>1, <1>4, <1>5, <1>6, <1>7, <1>8, <1>9, <1>10, <1>11, <1>12 DEF Next

\* ChainStore implements SafeStore: what a save acknowledged comes back.
THEOREM SafeStoreImplemented == Spec => ImplementsSafeStore
BY StoreInit, StoreNext, SafeInit, SafeNext, PTL DEF Spec, ImplementsSafeStore, Safe!Spec

-----------------------------------------------------------------------------
(* PoolDatabase keeps SafeDatabase's promise                               *)

\* A call that has been alone is alone, and has the temporary file to itself.
AloneIs ==
    \A s \in alone :
        /\ D!Running(s)
        /\ \A t \in Savers \ {s} : ~D!Running(t)
        /\ call[s].pc = "write" => call[s].fd = "tmp" /\ poolTmp = D!Empty
        /\ call[s].pc = "rename" =>
              /\ call[s].fd = "tmp"
              /\ poolTmp = [of |-> call[s].data, len |-> Size(call[s].data)]

\* A temporary file that a call may rename holds the text of one that runs, or
\* does not parse.
TextOfCall ==
    (\E s \in Savers : call[s].pc \in {"write", "rename"})
        => \/ poolTmp = D!Absent
           \/ ~D!Parses(poolTmp)
           \/ \E t \in Savers : call[t].pc = "rename" /\ call[t].data = poolTmp.of

DatabaseInv ==
    /\ D!TypeOK
    /\ AloneIs
    /\ TextOfCall

LEMMA CallIs ==
  ASSUME D!TypeOK, NEW s \in Savers
  PROVE  /\ D!Running(s) <=> call[s].pc # "idle"
         /\ call[s].pc \in {"idle", "create", "write", "rename"}
         /\ D!Running(s) => /\ call[s] \in [pc : {"create", "write", "rename"}, data : Data,
                                            fd : {"tmp", "db", "gone"}]
                            /\ call[s].data \in Data
<1>1. call[s] \in D!CallState
  BY DEF D!TypeOK
<1>2. CASE call[s] = D!NotCalled
  BY <1>2 DEF D!NotCalled, D!Running
<1>3. CASE call[s] \in [pc : {"create", "write", "rename"}, data : Data, fd : {"tmp", "db", "gone"}]
  <2>1. call[s].pc \in {"create", "write", "rename"} /\ call[s].data \in Data
    BY <1>3
  <2>2. call[s] # D!NotCalled
    BY <2>1 DEF D!NotCalled
  <2>. QED
    BY <1>3, <2>1, <2>2 DEF D!Running
<1>. QED
  BY <1>1, <1>2, <1>3 DEF D!CallState

LEMMA TextIs ==
  ASSUME D!Constants
  PROVE  /\ D!Absent \notin D!Text
         /\ D!Empty \in D!Text
         /\ ~D!Parses(D!Empty)
         /\ \A d \in Data : Size(d) \in Nat /\ Size(d) > 0
<1>1. \A d \in Data : Size(d) \in Nat /\ Size(d) > 0
  BY DEF D!Constants
<1>2. D!Absent.len = -1 /\ \A text \in D!Text : text.len \in Nat
  BY DEF D!Absent, D!Text
<1>3. New \in Data /\ D!Empty \in D!Text /\ D!Empty.of = New /\ D!Empty.len = 0
  BY DEF D!Constants, D!Empty, D!Text
<1>. QED
  BY <1>1, <1>2, <1>3 DEF D!Parses

LEMMA WrittenIs ==
  ASSUME D!Constants, NEW text \in D!Text, NEW d \in Data
  PROVE  /\ D!Written(text, d) \in D!Text
         /\ D!Written(text, d).of = d
         /\ text.len = 0 => D!Written(text, d) = [of |-> d, len |-> Size(d)]
<1>1. text.len \in Nat /\ Size(d) \in Nat
  BY TextIs DEF D!Text
<1>. DEFINE m == D!Max({text.len, Size(d)})
<1>2. m \in {text.len, Size(d)} /\ m >= text.len /\ m >= Size(d)
  <2>1. \E x \in {text.len, Size(d)} : \A y \in {text.len, Size(d)} : x >= y
    BY <1>1
  <2>. QED
    BY <2>1 DEF D!Max
<1>3. D!Written(text, d) = [of |-> d, len |-> m]
  BY DEF D!Written
<1>. HIDE DEF m
<1>4. m \in Nat /\ (text.len = 0 => m = Size(d))
  BY <1>1, <1>2
<1>. QED
  BY <1>3, <1>4 DEF D!Text

LEMMA DatabaseInit ==
  ASSUME D!Constants, D!Init
  PROVE  DatabaseInv
<1>1. \A s \in Savers : call[s] = D!NotCalled /\ call[s].pc = "idle"
  BY DEF D!Init, D!NotCalled
<1>2. D!TypeOK
  BY <1>1 DEF D!Init, D!TypeOK, D!Constants, D!CallState
<1>. QED
  BY <1>1, <1>2 DEF D!Init, DatabaseInv, AloneIs, TextOfCall

\* A call that is alone is the only one that runs.
LEMMA OnlyAlone ==
  ASSUME DatabaseInv, NEW s \in Savers, call[s].pc # "idle", NEW t \in alone
  PROVE  t = s
BY CallIs DEF DatabaseInv, AloneIs, D!TypeOK

LEMMA MarshalStep ==
  ASSUME D!Constants, DatabaseInv, NEW s \in Savers, D!Marshal(s)
  PROVE  DatabaseInv'
<1>. DEFINE new == [pc |-> "create", data |-> data, fd |-> "gone"]
<1>1. /\ call[s].pc = "idle" /\ call' = [call EXCEPT ![s] = new]
      /\ alone' = IF \E t \in Savers : D!Running(t) THEN {} ELSE {s}
      /\ UNCHANGED <<poolUp, data, poolTmp, db, saved>>
  BY CallIs DEF D!Marshal, DatabaseInv
<1>2. /\ new.pc = "create" /\ new # D!NotCalled /\ new \in D!CallState
      /\ new.fd = "gone"
  BY DEF DatabaseInv, D!TypeOK, D!CallState, D!NotCalled
<1>3. /\ call'[s] = new /\ \A t \in Savers \ {s} : call'[t] = call[t]
      /\ call' \in [Savers -> D!CallState]
  BY <1>1, <1>2 DEF DatabaseInv, D!TypeOK
<1>. HIDE DEF new
<1>4. D!TypeOK'
  BY <1>1, <1>2, <1>3 DEF DatabaseInv, D!TypeOK
<1>5. AloneIs'
  <2>. SUFFICES ASSUME NEW a \in alone'
                PROVE  /\ call'[a] # D!NotCalled
                       /\ \A t \in Savers \ {a} : call'[t] = D!NotCalled
                       /\ call'[a].pc = "create"
    BY DEF AloneIs, D!Running
  <2>1. a = s /\ \A t \in Savers : ~D!Running(t)
    BY <1>1
  <2>. QED
    BY <1>2, <1>3, <2>1 DEF D!Running
<1>6. TextOfCall'
  BY <1>1, <1>2, <1>3 DEF DatabaseInv, TextOfCall, D!Parses
<1>. QED
  BY <1>4, <1>5, <1>6 DEF DatabaseInv

LEMMA CreateStep ==
  ASSUME D!Constants, DatabaseInv, NEW s \in Savers, D!CreateTemp(s)
  PROVE  DatabaseInv'
<1>1. /\ call[s].pc = "create" /\ poolTmp' = D!Empty
      /\ call' = [call EXCEPT ![s].pc = "write", ![s].fd = "tmp"]
      /\ UNCHANGED <<poolUp, data, db, alone, saved>>
  BY DEF D!CreateTemp
<1>2. /\ call[s] \in [pc : {"create", "write", "rename"}, data : Data, fd : {"tmp", "db", "gone"}]
      /\ call \in [Savers -> D!CallState]
  BY <1>1, CallIs DEF DatabaseInv, D!TypeOK
<1>3. /\ call'[s].pc = "write" /\ call'[s].fd = "tmp" /\ call'[s].data = call[s].data
      /\ call'[s] \in [pc : {"create", "write", "rename"}, data : Data, fd : {"tmp", "db", "gone"}]
      /\ \A t \in Savers \ {s} : call'[t] = call[t]
      /\ DOMAIN call' = Savers
  BY <1>1, <1>2
<1>4. call'[s] # D!NotCalled /\ call' \in [Savers -> D!CallState]
  BY <1>1, <1>2, <1>3 DEF D!NotCalled, D!CallState
<1>5. D!TypeOK'
  BY <1>1, <1>3, <1>4, TextIs DEF DatabaseInv, D!TypeOK
<1>6. AloneIs'
  <2>. SUFFICES ASSUME NEW a \in alone
                PROVE  /\ call'[a] # D!NotCalled
                       /\ \A t \in Savers \ {a} : call'[t] = D!NotCalled
                       /\ call'[a].pc = "write" /\ call'[a].fd = "tmp"
    BY <1>1 DEF AloneIs, D!Running, D!Empty
  <2>1. a = s /\ \A t \in Savers \ {s} : call[t] = D!NotCalled
    BY <1>1, OnlyAlone DEF DatabaseInv, AloneIs, D!Running
  <2>. QED
    BY <1>3, <1>4, <2>1
<1>7. TextOfCall'
  BY <1>1, TextIs DEF TextOfCall, D!Parses, D!Empty
<1>. QED
  BY <1>5, <1>6, <1>7 DEF DatabaseInv

LEMMA WriteStep ==
  ASSUME D!Constants, DatabaseInv, NEW s \in Savers, D!WriteTemp(s)
  PROVE  DatabaseInv'
<1>. DEFINE d == call[s].data
            wtmp == D!Written(poolTmp, d)
            wdb == D!Written(db, d)
<1>1. /\ call[s].pc = "write" /\ call' = [call EXCEPT ![s].pc = "rename"]
      /\ poolTmp' = IF call[s].fd = "tmp" THEN wtmp ELSE poolTmp
      /\ db' = IF call[s].fd = "db" THEN wdb ELSE db
      /\ UNCHANGED <<poolUp, data, alone, saved>>
  BY DEF D!WriteTemp
<1>2. /\ call[s] \in [pc : {"create", "write", "rename"}, data : Data, fd : {"tmp", "db", "gone"}]
      /\ call \in [Savers -> D!CallState] /\ d \in Data
      /\ poolTmp \in D!Text \cup {D!Absent} /\ db \in D!Text \cup {D!Absent}
  BY <1>1, CallIs DEF DatabaseInv, D!TypeOK
<1>3. /\ call'[s].pc = "rename" /\ call'[s].fd = call[s].fd /\ call'[s].data = d
      /\ call'[s] \in [pc : {"create", "write", "rename"}, data : Data, fd : {"tmp", "db", "gone"}]
      /\ \A t \in Savers \ {s} : call'[t] = call[t]
      /\ DOMAIN call' = Savers
  BY <1>1, <1>2
<1>4. call'[s] # D!NotCalled /\ call' \in [Savers -> D!CallState]
  BY <1>1, <1>2, <1>3 DEF D!NotCalled, D!CallState
<1>5. call[s].fd = "tmp" => /\ poolTmp # D!Absent /\ wtmp \in D!Text /\ wtmp.of = d
                            /\ poolTmp.len = 0 => wtmp = [of |-> d, len |-> Size(d)]
  <2>. SUFFICES ASSUME call[s].fd = "tmp"
                PROVE  /\ poolTmp # D!Absent /\ wtmp \in D!Text /\ wtmp.of = d
                       /\ poolTmp.len = 0 => wtmp = [of |-> d, len |-> Size(d)]
    OBVIOUS
  <2>1. poolTmp # D!Absent
    BY <1>1 DEF DatabaseInv, D!TypeOK
  <2>. QED
    BY <1>2, <2>1, WrittenIs
<1>6. call[s].fd = "db" => db # D!Absent /\ wdb \in D!Text
  <2>. SUFFICES ASSUME call[s].fd = "db" PROVE db # D!Absent /\ wdb \in D!Text
    OBVIOUS
  <2>1. db # D!Absent
    BY <1>1 DEF DatabaseInv, D!TypeOK
  <2>. QED
    BY <1>2, <2>1, WrittenIs
<1>. HIDE DEF wtmp, wdb, d
<1>7. D!TypeOK'
  <2>1. \A t \in Savers : call'[t].fd = call[t].fd
                          /\ (call'[t].pc \in {"write", "rename"} => call[t].pc \in {"write", "rename"})
    BY <1>1, <1>3
  <2>2. \A t \in Savers : call[t].pc \in {"write", "rename"} =>
            /\ call[t].fd = "tmp" => poolTmp # D!Absent
            /\ call[t].fd = "db" => db # D!Absent
    BY DEF DatabaseInv, D!TypeOK
  <2>3. poolTmp # D!Absent => poolTmp' # D!Absent
    BY <1>1, <1>5, TextIs
  <2>4. db # D!Absent => db' # D!Absent
    BY <1>1, <1>6, TextIs
  <2>5. poolTmp' \in D!Text \cup {D!Absent} /\ db' \in D!Text \cup {D!Absent}
    BY <1>1, <1>2, <1>5, <1>6
  <2>6. /\ poolUp' \in BOOLEAN /\ data' \in Data /\ alone' \in SUBSET Savers /\ saved' \in BOOLEAN
    BY <1>1 DEF DatabaseInv, D!TypeOK
  <2>7. \A t \in Savers : call'[t].pc \in {"write", "rename"} =>
            /\ call'[t].fd = "tmp" => poolTmp' # D!Absent
            /\ call'[t].fd = "db" => db' # D!Absent
    BY <2>1, <2>2, <2>3, <2>4
  <2>. QED
    BY <1>4, <2>5, <2>6, <2>7 DEF D!TypeOK, D!Absent
<1>8. AloneIs'
  <2>. SUFFICES ASSUME NEW a \in alone
                PROVE  /\ call'[a] # D!NotCalled
                       /\ \A t \in Savers \ {a} : call'[t] = D!NotCalled
                       /\ call'[a].pc = "rename" /\ call'[a].fd = "tmp"
                       /\ poolTmp' = [of |-> call'[a].data, len |-> Size(call'[a].data)]
    BY <1>1 DEF AloneIs, D!Running
  <2>1. a = s /\ \A t \in Savers \ {s} : call[t] = D!NotCalled
    BY <1>1, OnlyAlone DEF DatabaseInv, AloneIs, D!Running
  <2>2. call[s].fd = "tmp" /\ poolTmp.len = 0
    BY <1>1, <2>1 DEF DatabaseInv, AloneIs, D!Empty
  <2>. QED
    BY <1>1, <1>3, <1>4, <1>5, <2>1, <2>2
<1>9. TextOfCall'
  <2>1. CASE call[s].fd = "tmp"
    BY <1>1, <1>3, <1>5, <2>1 DEF TextOfCall
  <2>2. CASE call[s].fd # "tmp"
    BY <1>1, <1>3, <2>2 DEF DatabaseInv, TextOfCall, D!Parses
  <2>. QED
    BY <2>1, <2>2
<1>. QED
  BY <1>7, <1>8, <1>9 DEF DatabaseInv

Names == {"tmp", "db", "gone"}

LEMMA RenamingIs ==
  ASSUME NEW a \in Names, NEW b \in Names, NEW c \in Names, NEW fd \in Names
  PROVE  LET now == [tmp |-> a, db |-> b, gone |-> c]
         IN  now[fd] = IF fd = "tmp" THEN a ELSE IF fd = "db" THEN b ELSE c
<1>. DEFINE now == [tmp |-> a, db |-> b, gone |-> c]
<1>1. now["tmp"] = a /\ now["db"] = b /\ now["gone"] = c
  OBVIOUS
<1>. QED
  BY <1>1 DEF Names

LEMMA ReturnedIs ==
  ASSUME D!TypeOK, NEW s \in Savers, NEW now, \A fd \in Names : now[fd] \in Names,
         D!Returned(s, now)
  PROVE  /\ call' \in [Savers -> D!CallState] /\ alone' = alone \ {s}
         /\ call'[s] = D!NotCalled
         /\ \A t \in Savers \ {s} :
               IF call[t].pc = "idle" THEN call'[t] = D!NotCalled
               ELSE /\ call'[t].pc = call[t].pc /\ call'[t].data = call[t].data
                    /\ call'[t].fd = now[call[t].fd] /\ call[t].fd \in Names
                    /\ call'[t] # D!NotCalled
<1>1. /\ alone' = alone \ {s} /\ DOMAIN call' = Savers
      /\ call' = [t \in Savers |-> call'[t]]
      /\ \A t \in Savers : call'[t] = IF t = s \/ ~D!Running(t) THEN D!NotCalled
                                      ELSE [call[t] EXCEPT !.fd = now[@]]
  BY DEF D!Returned
<1>2. ASSUME NEW t \in Savers \ {s}, call[t].pc # "idle"
      PROVE  /\ call'[t].pc = call[t].pc /\ call'[t].data = call[t].data
             /\ call'[t].fd = now[call[t].fd] /\ call[t].fd \in Names
             /\ call'[t] # D!NotCalled /\ call'[t] \in D!CallState
  <2>1. /\ D!Running(t) /\ call[t].pc \in {"create", "write", "rename"}
        /\ call[t] \in [pc : {"create", "write", "rename"}, data : Data, fd : Names]
    BY <1>2, CallIs DEF Names
  <2>2. call'[t] = [call[t] EXCEPT !.fd = now[@]]
    BY <1>1, <2>1
  <2>3. call[t].fd \in Names /\ now[call[t].fd] \in Names
    BY <2>1
  <2>4. /\ call'[t].pc = call[t].pc /\ call'[t].data = call[t].data
        /\ call'[t].fd = now[call[t].fd]
        /\ call'[t] \in [pc : {"create", "write", "rename"}, data : Data, fd : Names]
    BY <2>1, <2>2, <2>3
  <2>5. call'[t] # D!NotCalled
    BY <2>1, <2>4 DEF D!NotCalled
  <2>. QED
    BY <2>3, <2>4, <2>5 DEF D!CallState, Names
<1>3. ASSUME NEW t \in Savers, t = s \/ call[t].pc = "idle"
      PROVE  call'[t] = D!NotCalled
  BY <1>1, <1>3, CallIs
<1>4. \A t \in Savers : call'[t] \in D!CallState
  BY <1>2, <1>3 DEF D!CallState
<1>5. call' \in [Savers -> D!CallState]
  BY <1>1, <1>4
<1>. QED
  BY <1>1, <1>2, <1>3, <1>5

\* No call that has been alone is left when one returns.
LEMMA ReturnedAlone ==
  ASSUME DatabaseInv, NEW s \in Savers, call[s].pc # "idle", alone' = alone \ {s}
  PROVE  alone' = {}
<1>1. \A t \in alone : t = s
  BY OnlyAlone
<1>. QED
  BY <1>1

LEMMA RenameCallStep ==
  ASSUME D!Constants, DatabaseInv, NEW s \in Savers, D!Rename(s)
  PROVE  DatabaseInv'
<1>. DEFINE now == [tmp |-> "db", db |-> "gone", gone |-> "gone"]
<1>1. /\ call[s].pc = "rename" /\ poolTmp # D!Absent /\ db' = poolTmp /\ poolTmp' = D!Absent
      /\ D!Returned(s, now) /\ saved' = TRUE /\ UNCHANGED <<poolUp, data>>
  BY DEF D!Rename
<1>2. \A fd \in Names : now[fd] \in Names /\ (now[fd] = "db" <=> fd = "tmp") /\ now[fd] # "tmp"
  BY RenamingIs DEF Names
<1>. HIDE DEF now
<1>3. /\ call' \in [Savers -> D!CallState] /\ alone' = alone \ {s}
      /\ call'[s] = D!NotCalled
      /\ \A t \in Savers \ {s} :
            IF call[t].pc = "idle" THEN call'[t] = D!NotCalled
            ELSE /\ call'[t].pc = call[t].pc
                 /\ call'[t].fd = now[call[t].fd] /\ call[t].fd \in Names
  BY <1>1, <1>2, ReturnedIs DEF DatabaseInv
<1>4. alone' = {}
  BY <1>1, <1>3, ReturnedAlone
<1>5. D!TypeOK'
  <2>1. \A t \in Savers : call'[t].pc \in {"write", "rename"} =>
            call'[t].fd # "tmp" /\ (call'[t].fd = "db" => db' # D!Absent)
    BY <1>1, <1>2, <1>3 DEF D!NotCalled
  <2>. QED
    BY <1>1, <1>3, <1>4, <2>1 DEF DatabaseInv, D!TypeOK, D!Absent
<1>6. AloneIs' /\ TextOfCall'
  BY <1>1, <1>4 DEF AloneIs, TextOfCall, D!Absent
<1>. QED
  BY <1>5, <1>6 DEF DatabaseInv

LEMMA FailedCallStep ==
  ASSUME D!Constants, DatabaseInv, NEW s \in Savers, D!SaveFails(s)
  PROVE  DatabaseInv'
<1>1. /\ call[s].pc # "idle" /\ saved' = FALSE /\ UNCHANGED <<poolUp, data, db>>
  BY CallIs DEF D!SaveFails, DatabaseInv
<1>2. PICK now : /\ D!Returned(s, now)
                 /\ \A fd \in Names : /\ now[fd] \in Names
                                      /\ now[fd] = "db" => fd = "db"
                                      /\ now[fd] = "tmp" => fd = "tmp"
                 /\ \/ call[s].pc = "create" /\ poolTmp' = poolTmp
                    \/ poolTmp' = D!Absent /\ now["tmp"] = "gone"
  <2>1. CASE call[s].pc = "create"
    <3>. DEFINE now == [tmp |-> "tmp", db |-> "db", gone |-> "gone"]
    <3>1. \A fd \in Names : now[fd] = fd
      BY RenamingIs DEF Names
    <3>2. D!Returned(s, now) /\ poolTmp' = poolTmp
      BY <2>1 DEF D!SaveFails
    <3>. HIDE DEF now
    <3>. QED
      BY <2>1, <3>1, <3>2
  <2>2. CASE call[s].pc # "create"
    <3>. DEFINE now == [tmp |-> "gone", db |-> "db", gone |-> "gone"]
    <3>1. /\ now["tmp"] = "gone"
          /\ \A fd \in Names : now[fd] = IF fd = "db" THEN "db" ELSE "gone"
      BY RenamingIs DEF Names
    <3>2. D!Returned(s, now) /\ poolTmp' = D!Absent
      BY <2>2 DEF D!SaveFails
    <3>. HIDE DEF now
    <3>. QED
      BY <3>1, <3>2 DEF Names
  <2>. QED
    BY <2>1, <2>2
<1>3. /\ call' \in [Savers -> D!CallState] /\ alone' = alone \ {s}
      /\ call'[s] = D!NotCalled
      /\ \A t \in Savers \ {s} :
            IF call[t].pc = "idle" THEN call'[t] = D!NotCalled
            ELSE /\ call'[t].pc = call[t].pc /\ call'[t].data = call[t].data
                 /\ call'[t].fd = now[call[t].fd] /\ call[t].fd \in Names
  BY <1>2, ReturnedIs DEF DatabaseInv
<1>4. alone' = {}
  BY <1>1, <1>3, ReturnedAlone
<1>5. D!TypeOK'
  <2>1. ASSUME NEW t \in Savers, call'[t].pc \in {"write", "rename"}
        PROVE  /\ call'[t].fd = "tmp" => poolTmp' # D!Absent
               /\ call'[t].fd = "db" => db' # D!Absent
    <3>1. /\ t # s /\ call[t].pc \in {"write", "rename"}
          /\ call'[t].fd = now[call[t].fd] /\ call[t].fd \in Names
      BY <1>3, <2>1 DEF D!NotCalled
    <3>2. /\ call[t].fd = "tmp" => poolTmp # D!Absent
          /\ call[t].fd = "db" => db # D!Absent
      BY <3>1 DEF DatabaseInv, D!TypeOK
    <3>3. call'[t].fd = "db" => call[t].fd = "db"
      BY <1>2, <3>1
    <3>4. call'[t].fd = "tmp" => call[t].fd = "tmp" /\ poolTmp' = poolTmp
      BY <1>2, <3>1
    <3>. QED
      BY <1>1, <3>2, <3>3, <3>4 DEF D!Absent
  <2>2. poolTmp' \in D!Text \cup {D!Absent} /\ db' \in D!Text \cup {D!Absent}
    BY <1>1, <1>2 DEF DatabaseInv, D!TypeOK
  <2>. QED
    BY <1>1, <1>3, <1>4, <2>1, <2>2 DEF DatabaseInv, D!TypeOK, D!Absent
<1>6. AloneIs'
  BY <1>4 DEF AloneIs
<1>7. TextOfCall'
  <2>1. CASE poolTmp' = D!Absent
    BY <2>1 DEF TextOfCall, D!Absent
  <2>2. CASE call[s].pc = "create" /\ poolTmp' = poolTmp
    <3>. SUFFICES ASSUME NEW t \in Savers, call'[t].pc \in {"write", "rename"}
                  PROVE  \/ poolTmp = D!Absent
                         \/ ~D!Parses(poolTmp)
                         \/ \E u \in Savers : call'[u].pc = "rename" /\ call'[u].data = poolTmp.of
      BY <2>2 DEF TextOfCall, D!Parses, D!Absent
    <3>1. call[t].pc \in {"write", "rename"}
      BY <1>3 DEF D!NotCalled
    <3>2. \/ poolTmp = D!Absent
          \/ ~D!Parses(poolTmp)
          \/ \E u \in Savers : call[u].pc = "rename" /\ call[u].data = poolTmp.of
      BY <3>1 DEF DatabaseInv, TextOfCall
    <3>3. ASSUME NEW u \in Savers, call[u].pc = "rename"
          PROVE  call'[u].pc = "rename" /\ call'[u].data = call[u].data
      BY <1>3, <2>2, <3>3
    <3>. QED
      BY <3>2, <3>3
  <2>. QED
    BY <1>2, <2>1, <2>2
<1>. QED
  BY <1>5, <1>6, <1>7 DEF DatabaseInv

LEMMA DatabaseNext ==
  ASSUME D!Constants, DatabaseInv, [D!Next]_(D!vars)
  PROVE  DatabaseInv'
<1>1. CASE UNCHANGED D!vars \/ D!Change \/ D!Load
  <2>1. UNCHANGED <<call, poolTmp, db, alone>> /\ saved' \in BOOLEAN /\ poolUp' \in BOOLEAN
    BY <1>1 DEF D!vars, D!Change, D!Load, DatabaseInv, D!TypeOK
  <2>2. data' \in Data
    BY <1>1 DEF D!vars, D!Change, D!Load, DatabaseInv, D!TypeOK, D!Text, D!Absent, D!Constants
  <2>. QED
    BY <2>1, <2>2 DEF DatabaseInv, D!TypeOK, AloneIs, TextOfCall, D!Running, D!Parses
<1>2. CASE D!Kill
  <2>1. /\ call' = [s \in Savers |-> D!NotCalled] /\ alone' = {} /\ poolUp' = FALSE
        /\ UNCHANGED <<data, poolTmp, db, saved>>
    BY <1>2 DEF D!Kill
  <2>2. \A s \in Savers : call'[s].pc = "idle"
    BY <2>1 DEF D!NotCalled
  <2>3. D!TypeOK'
    BY <2>1, <2>2 DEF DatabaseInv, D!TypeOK, D!CallState
  <2>. QED
    BY <2>1, <2>2, <2>3 DEF DatabaseInv, AloneIs, TextOfCall
<1>. QED
  BY <1>1, <1>2, MarshalStep, CreateStep, WriteStep, RenameCallStep, FailedCallStep DEF D!Next

\* The calls and the file as SafeDatabase sees them.
Calls == [s \in Savers |-> IF D!Running(s) THEN D!Saving(call[s].data, s \in alone) ELSE D!Idle]

AsFile(text) ==
    IF text = D!Absent THEN D!NoFile
    ELSE IF D!Parses(text) THEN D!Whole(text.of) ELSE D!Broken

LEMMA DatabaseSafeInit ==
  ASSUME D!Constants, D!Init
  PROVE  D!Safe!Init
BY DEF D!Constants, D!Init, D!Running, D!Safe!Init, D!Safe!Idle, D!Idle, D!Safe!NoFile, D!NoFile

\* A call as SafeDatabase sees it depends on its data, and on whether it runs.
LEMMA CallsKept ==
  ASSUME DatabaseInv, DatabaseInv', alone' = alone,
         \A s \in Savers : /\ call'[s].pc = "idle" <=> call[s].pc = "idle"
                           /\ call[s].pc # "idle" => call'[s].data = call[s].data
  PROVE  UNCHANGED Calls
<1>1. \A s \in Savers : D!Running(s) <=> call[s].pc # "idle"
  BY CallIs DEF DatabaseInv
<1>2. \A s \in Savers : call'[s] # D!NotCalled <=> call'[s].pc # "idle"
  <2>. SUFFICES ASSUME NEW s \in Savers PROVE call'[s] # D!NotCalled <=> call'[s].pc # "idle"
    OBVIOUS
  <2>1. call'[s] \in D!CallState
    BY DEF DatabaseInv, D!TypeOK
  <2>. QED
    BY <2>1 DEF D!CallState, D!NotCalled
<1>. QED
  BY <1>1, <1>2 DEF D!Running, Calls

\* Equivalent answers to whether a call is alone are the same one.
LEMMA SameSaving ==
  ASSUME NEW d, NEW a \in BOOLEAN, NEW b \in BOOLEAN, a <=> b
  PROVE  D!Saving(d, a) = D!Saving(d, b)
<1>1. a = b
  BY Zenon
<1>. QED
  BY <1>1

LEMMA SafeMarshal ==
  ASSUME DatabaseInv, NEW s \in Savers, D!Marshal(s)
  PROVE  D!Safe!Begin(s)
<1>1. /\ call[s] = D!NotCalled /\ call \in [Savers -> D!CallState]
      /\ call' = [call EXCEPT ![s] = [pc |-> "create", data |-> data, fd |-> "gone"]]
      /\ alone' = IF \E t \in Savers : D!Running(t) THEN {} ELSE {s}
      /\ UNCHANGED <<data, db, saved>>
  BY DEF D!Marshal, D!Running, DatabaseInv, D!TypeOK
<1>2. call'[s].data = data /\ call'[s] # D!NotCalled /\ \A t \in Savers \ {s} : call'[t] = call[t]
  BY <1>1 DEF D!NotCalled
<1>. DEFINE C == [t \in Savers |-> IF D!Running(t) THEN D!Saving(call[t].data, t \in alone) ELSE D!Idle]
<1>3. DOMAIN C = Savers /\ \A t \in Savers : C[t] = D!Idle <=> call[t] = D!NotCalled
  BY DEF D!Running, D!Saving, D!Idle
<1>4. \A t \in Savers \ {s} : C[t] # D!Idle => C[t].data = call[t].data
  BY DEF D!Saving
<1>5. s \in alone' <=> \A u \in Savers \ {s} : C[u] = D!Idle
  BY <1>1, <1>3 DEF D!Running
<1>6. \A t \in Savers \ {s} : C[t] # D!Idle => t \notin alone'
  BY <1>1, <1>3 DEF D!Running
<1>7. [t \in Savers |-> IF call'[t] # D!NotCalled THEN D!Saving(call'[t].data, t \in alone') ELSE D!Idle]
        = [t \in Savers |-> IF t = s THEN D!Saving(data, \A u \in Savers \ {s} : C[u] = D!Idle)
                            ELSE IF C[t] = D!Idle THEN D!Idle
                            ELSE D!Saving(C[t].data, FALSE)]
  <2>. SUFFICES ASSUME NEW t \in Savers
                PROVE  (IF call'[t] # D!NotCalled THEN D!Saving(call'[t].data, t \in alone') ELSE D!Idle)
                         = IF t = s THEN D!Saving(data, \A u \in Savers \ {s} : C[u] = D!Idle)
                           ELSE IF C[t] = D!Idle THEN D!Idle ELSE D!Saving(C[t].data, FALSE)
    OBVIOUS
  <2>. HIDE DEF C
  <2>1. CASE t = s
    <3>1. (s \in alone') \in BOOLEAN /\ (\A u \in Savers \ {s} : C[u] = D!Idle) \in BOOLEAN
      BY SMT
    <3>2. D!Saving(data, s \in alone') = D!Saving(data, \A u \in Savers \ {s} : C[u] = D!Idle)
      BY <1>5, <3>1, SameSaving
    <3>. QED
      BY <1>2, <2>1, <3>2
  <2>2. CASE t # s /\ C[t] # D!Idle
    <3>1. (t \in alone') \in BOOLEAN /\ FALSE \in BOOLEAN
      BY SMT
    <3>2. D!Saving(C[t].data, t \in alone') = D!Saving(C[t].data, FALSE)
      BY <1>6, <2>2, <3>1, SameSaving
    <3>3. call'[t] = call[t] /\ call[t] # D!NotCalled /\ C[t].data = call[t].data
      BY <1>2, <1>3, <1>4, <2>2
    <3>. QED
      BY <2>2, <3>2, <3>3
  <2>3. CASE t # s /\ C[t] = D!Idle
    BY <1>2, <1>3, <2>3
  <2>. QED
    BY <2>1, <2>2, <2>3
<1>. QED
  BY <1>1, <1>3, <1>7 DEF D!Safe!Begin, D!Safe!Begun, D!Safe!Idle, D!Safe!Saving, D!Running,
                          D!Saving, D!Idle, D!Parses

LEMMA CallShown ==
  ASSUME D!TypeOK, NEW s \in Savers
  PROVE  /\ call[s].pc # "idle" <=> Calls[s] # D!Idle
         /\ call[s].pc # "idle" =>
               Calls[s].data = call[s].data /\ (Calls[s].alone <=> s \in alone)
<1>1. D!Running(s) <=> call[s].pc # "idle"
  BY CallIs
<1>2. CASE call[s].pc = "idle"
  BY <1>1, <1>2 DEF Calls
<1>3. CASE call[s].pc # "idle"
  <2>1. Calls[s] = D!Saving(call[s].data, s \in alone)
    BY <1>1, <1>3 DEF Calls
  <2>2. Calls[s].pc = "saving" /\ D!Idle.pc = "idle"
    BY <2>1 DEF D!Saving, D!Idle
  <2>3. PICK a \in BOOLEAN : a = (s \in alone)
    <3>1. (s \in alone) \in BOOLEAN
      BY SMT
    <3>. QED
      BY <3>1, Zenon
  <2>4. Calls[s] = D!Saving(call[s].data, a)
    BY <2>1, <2>3
  <2>5. Calls[s].data = call[s].data /\ Calls[s].alone = a
    BY <2>4 DEF D!Saving
  <2>. QED
    BY <1>3, <2>2, <2>3, <2>5
<1>. QED
  BY <1>2, <1>3

\* The return of a call, if what it makes of the file is promised.
LEMMA SafeReturn ==
  ASSUME D!TypeOK, D!TypeOK', NEW s \in Savers, call[s].pc # "idle",
         NEW now, \A fd \in Names : now[fd] \in Names, D!Returned(s, now),
         saved' \in BOOLEAN, data' = data,
         IF s \in alone
         THEN AsFile(db') = IF saved' THEN D!Whole(call[s].data) ELSE AsFile(db)
         ELSE \/ AsFile(db') \in {AsFile(db), D!Broken}
              \/ \E t \in Savers : call[t].pc # "idle" /\ AsFile(db') = D!Whole(call[t].data)
  PROVE  D!Safe!Return(s)
<1>1. /\ alone' = alone \ {s} /\ call'[s] = D!NotCalled
      /\ \A t \in Savers \ {s} :
            IF call[t].pc = "idle" THEN call'[t] = D!NotCalled
            ELSE call'[t] # D!NotCalled /\ call'[t].data = call[t].data
  BY ReturnedIs
<1>2. Calls' = [Calls EXCEPT ![s] = D!Idle]
  <2>1. ASSUME NEW t \in Savers \ {s}
        PROVE  (IF call'[t] # D!NotCalled THEN D!Saving(call'[t].data, t \in alone') ELSE D!Idle)
                 = IF D!Running(t) THEN D!Saving(call[t].data, t \in alone) ELSE D!Idle
    <3>1. (t \in alone) \in BOOLEAN /\ (t \in alone') \in BOOLEAN
      BY SMT
    <3>2. D!Saving(call[t].data, t \in alone') = D!Saving(call[t].data, t \in alone)
      BY <1>1, <3>1, SameSaving
    <3>3. D!Running(t) <=> call[t].pc # "idle"
      BY CallIs
    <3>. QED
      BY <1>1, <3>2, <3>3
  <2>. QED
    BY <1>1, <2>1 DEF Calls, D!Running
<1>3. DOMAIN Calls = Savers
  BY DEF Calls
<1>4. AsFile(db') \in IF ~Calls[s].alone
                     THEN {AsFile(db), D!Broken} \cup
                          {D!Whole(Calls[t].data) : t \in {u \in Savers : Calls[u] # D!Idle}}
                     ELSE IF saved' THEN {D!Whole(Calls[s].data)} ELSE {AsFile(db)}
  <2>1. CASE s \in alone
    BY <2>1, CallShown
  <2>2. CASE s \notin alone
    <3>1. ASSUME NEW t \in Savers, call[t].pc # "idle"
          PROVE  D!Whole(call[t].data)
                   \in {D!Whole(Calls[u].data) : u \in {v \in Savers : Calls[v] # D!Idle}}
      BY <3>1, CallShown
    <3>. QED
      BY <2>2, <3>1, CallShown
  <2>. QED
    BY <2>1, <2>2
<1>5. Calls[s] # D!Idle
  BY CallShown
<1>. QED
  BY <1>2, <1>3, <1>4, <1>5 DEF Calls, AsFile, D!Safe!Return, D!Safe!Outcomes, D!Safe!Disturbed,
     D!Safe!Ended, D!Safe!Idle, D!Safe!Whole, D!Safe!Broken, D!Idle, D!Whole, D!Broken,
     D!Parses, D!Absent, D!NoFile

LEMMA SafeRename ==
  ASSUME D!Constants, DatabaseInv, DatabaseInv', NEW s \in Savers, D!Rename(s)
  PROVE  D!Safe!Return(s)
<1>. DEFINE now == [tmp |-> "db", db |-> "gone", gone |-> "gone"]
<1>1. /\ call[s].pc = "rename" /\ poolTmp # D!Absent /\ db' = poolTmp
      /\ D!Returned(s, now) /\ saved' = TRUE /\ data' = data
  BY DEF D!Rename
<1>2. \A fd \in Names : now[fd] \in Names
  BY RenamingIs DEF Names
<1>. HIDE DEF now
<1>3. ASSUME s \in alone PROVE AsFile(db') = D!Whole(call[s].data)
  <2>1. poolTmp = [of |-> call[s].data, len |-> Size(call[s].data)]
    BY <1>1, <1>3 DEF DatabaseInv, AloneIs
  <2>. QED
    BY <1>1, <2>1 DEF AsFile, D!Parses
<1>4. ASSUME s \notin alone
      PROVE  \/ AsFile(db') = D!Broken
             \/ \E t \in Savers : call[t].pc # "idle" /\ AsFile(db') = D!Whole(call[t].data)
  <2>1. \/ ~D!Parses(poolTmp)
        \/ \E t \in Savers : call[t].pc = "rename" /\ call[t].data = poolTmp.of
    BY <1>1 DEF DatabaseInv, TextOfCall
  <2>. QED
    BY <1>1, <2>1 DEF AsFile
<1>. QED
  BY <1>1, <1>2, <1>3, <1>4, SafeReturn DEF DatabaseInv

LEMMA SafeFails ==
  ASSUME D!Constants, DatabaseInv, DatabaseInv', NEW s \in Savers, D!SaveFails(s)
  PROVE  D!Safe!Return(s)
<1>1. /\ call[s].pc # "idle" /\ saved' = FALSE /\ UNCHANGED <<data, db>>
  BY CallIs DEF D!SaveFails, DatabaseInv
<1>2. PICK now : D!Returned(s, now) /\ \A fd \in Names : now[fd] \in Names
  <2>1. PICK a \in Names : D!Returned(s, [tmp |-> a, db |-> "db", gone |-> "gone"])
    BY DEF D!SaveFails, Names
  <2>2. \A fd \in Names : [tmp |-> a, db |-> "db", gone |-> "gone"][fd] \in Names
    BY RenamingIs DEF Names
  <2>. QED
    BY <2>1, <2>2
<1>3. AsFile(db') = AsFile(db)
  BY <1>1 DEF AsFile, D!Parses
<1>. QED
  BY <1>1, <1>2, <1>3, SafeReturn DEF DatabaseInv

\* Writing is seen only if the file that the call has open has become the database.
LEMMA SafeWrite ==
  ASSUME D!Constants, DatabaseInv, DatabaseInv', NEW s \in Savers, D!WriteTemp(s)
  PROVE  D!Safe!Disturb \/ UNCHANGED D!Safe!vars
<1>1. /\ call[s].pc = "write" /\ call' = [call EXCEPT ![s].pc = "rename"]
      /\ db' = IF call[s].fd = "db" THEN D!Written(db, call[s].data) ELSE db
      /\ UNCHANGED <<data, alone, saved>>
  BY DEF D!WriteTemp
<1>2. UNCHANGED Calls
  <2>1. call[s] \in [pc : {"create", "write", "rename"}, data : Data, fd : {"tmp", "db", "gone"}]
    BY <1>1, CallIs DEF DatabaseInv
  <2>2. call'[s].pc = "rename" /\ call'[s].data = call[s].data
    BY <1>1, <2>1 DEF DatabaseInv, D!TypeOK
  <2>3. \A t \in Savers \ {s} : call'[t] = call[t]
    BY <1>1 DEF DatabaseInv, D!TypeOK
  <2>. QED
    BY <1>1, <2>2, <2>3, CallsKept
<1>3. CASE call[s].fd = "db"
  <2>1. s \notin alone /\ db # D!Absent /\ db \in D!Text
    BY <1>1, <1>3 DEF DatabaseInv, AloneIs, D!TypeOK
  <2>2. call[s].data \in Data /\ Calls[s] # D!Idle /\ Calls[s].data = call[s].data /\ ~Calls[s].alone
    BY <1>1, <2>1, CallShown, CallIs DEF DatabaseInv
  <2>3. db' \in D!Text /\ db'.of = call[s].data /\ db' # D!Absent
    BY <1>1, <1>3, <2>1, <2>2, WrittenIs, TextIs
  <2>4. AsFile(db') \in {AsFile(db), D!Broken} \cup
            {D!Whole(Calls[t].data) : t \in {u \in Savers : Calls[u] # D!Idle}}
    BY <2>2, <2>3 DEF AsFile
  <2>5. DOMAIN Calls = Savers /\ \E t \in Savers : Calls[t] # D!Idle /\ ~Calls[t].alone
    BY <2>2 DEF Calls
  <2>. QED
    BY <1>1, <1>2, <2>4, <2>5 DEF Calls, AsFile, D!Safe!Disturb, D!Safe!Overlap, D!Safe!Disturbed,
       D!Safe!Idle, D!Safe!Whole, D!Safe!Broken, D!Idle, D!Whole, D!Broken,
       D!Parses, D!Absent, D!NoFile
<1>4. CASE call[s].fd # "db"
  BY <1>1, <1>2, <1>4 DEF Calls, D!Safe!vars, D!Parses
<1>. QED
  BY <1>3, <1>4

LEMMA SafeCreate ==
  ASSUME DatabaseInv, DatabaseInv', NEW s \in Savers, D!CreateTemp(s)
  PROVE  UNCHANGED D!Safe!vars
<1>1. /\ call[s].pc = "create"
      /\ call' = [call EXCEPT ![s].pc = "write", ![s].fd = "tmp"]
      /\ UNCHANGED <<data, db, alone, saved>>
  BY DEF D!CreateTemp
<1>2. call[s] \in [pc : {"create", "write", "rename"}, data : Data, fd : {"tmp", "db", "gone"}]
  BY <1>1, CallIs DEF DatabaseInv
<1>3. call'[s].pc = "write" /\ call'[s].data = call[s].data
  BY <1>1, <1>2 DEF DatabaseInv, D!TypeOK
<1>4. \A t \in Savers \ {s} : call'[t] = call[t]
  BY <1>1 DEF DatabaseInv, D!TypeOK
<1>5. UNCHANGED Calls
  BY <1>1, <1>3, <1>4, CallsKept
<1>. QED
  BY <1>1, <1>5 DEF Calls, D!Safe!vars, D!Parses

LEMMA DatabaseSafeNext ==
  ASSUME D!Constants, DatabaseInv, DatabaseInv', [D!Next]_(D!vars)
  PROVE  [D!Safe!Next]_(D!Safe!vars)
<1>1. CASE UNCHANGED D!vars
  BY <1>1 DEF D!vars, D!Safe!vars, D!Running, D!Parses
<1>2. CASE D!Change
  BY <1>2 DEF D!Change, D!Safe!Next, D!Safe!Change, D!Running, D!Parses
<1>3. CASE D!Kill
  <2>1. D!Safe!Stop
    BY <1>3 DEF D!Kill, D!Safe!Stop, D!Running, D!Parses, D!Safe!Idle, D!Idle
  <2>. QED
    BY <2>1 DEF D!Safe!Next
<1>4. CASE D!Load
  <2>1. D!Safe!Load
    <3>1. data' = db.of /\ (db = D!Absent \/ D!Parses(db)) /\ UNCHANGED <<call, db, alone, saved>>
      BY <1>4 DEF D!Load
    <3>2. data' \in Data
      BY DEF DatabaseInv, D!TypeOK
    <3>3. AsFile(db) # D!Broken /\ (AsFile(db) # D!NoFile => AsFile(db).data = db.of)
      BY <3>1 DEF AsFile, D!Broken, D!NoFile, D!Whole
    <3>4. UNCHANGED <<Calls, AsFile(db)>>
      BY <3>1 DEF Calls, AsFile, D!Running, D!Parses
    <3>. QED
      BY <3>1, <3>2, <3>3, <3>4 DEF Calls, AsFile, D!Safe!Load, D!Safe!Broken, D!Broken,
         D!Safe!NoFile, D!NoFile, D!Parses
  <2>. QED
    BY <2>1 DEF D!Safe!Next
<1>5. ASSUME NEW s \in Savers, D!Marshal(s) PROVE D!Safe!Next
  BY <1>5, SafeMarshal DEF D!Safe!Next
<1>6. ASSUME NEW s \in Savers, D!Rename(s) \/ D!SaveFails(s) PROVE D!Safe!Next
  BY <1>6, SafeRename, SafeFails DEF D!Safe!Next
<1>7. ASSUME NEW s \in Savers, D!CreateTemp(s) \/ D!WriteTemp(s)
      PROVE  D!Safe!Next \/ UNCHANGED D!Safe!vars
  BY <1>7, SafeCreate, SafeWrite DEF D!Safe!Next
<1>. QED
  BY <1>1, <1>2, <1>3, <1>4, <1>5, <1>6, <1>7 DEF D!Next

\* Database.Save, several goroutines in it at once: a call that was alone puts
\* its database into the file or leaves the file, and says which; calls that
\* overlap leave the database of one of them or a file that does not parse.
THEOREM SafeDatabaseImplemented == D!Spec => ImplementsSafeDatabase
<1>. D!Constants
  BY DataAssumption
<1>1. D!Init => DatabaseInv /\ D!Safe!Init
  BY DatabaseInit, DatabaseSafeInit
<1>2. DatabaseInv /\ [D!Next]_(D!vars) => DatabaseInv'
  BY DatabaseNext
<1>3. DatabaseInv /\ DatabaseInv' /\ [D!Next]_(D!vars) => [D!Safe!Next]_(D!Safe!vars)
  BY DatabaseSafeNext
<1>. QED
  BY <1>1, <1>2, <1>3, PTL
     DEF ImplementsSafeDatabase, D!Spec, D!ImplementsSafeDatabase, D!Safe!Spec
-----------------------------------------------------------------------------
(* The bans in peers.dat                                                   *)

PeersTypes ==
    /\ main \in {"down", "load", "known", "seeds", "run", "save", "exit"}
    /\ book \in [Addrs -> Entry \cup {None}]
    /\ banned \in SUBSET Addrs
    /\ file \in Content \cup {None, Truncated}
    /\ writing \in [Writers -> Content \cup {None}]

FileRead == main \notin {"down", "load"}

\* Nobody writes the file.
NotWritten == \A w \in Writers : writing[w] = None

\* Whoever writes the file writes all bans that were saved before, alone, and
\* when no one does it holds them.
BansKept ==
    /\ FileRead => kept \subseteq banned
    /\ \A v, w \in Writers : writing[v] # None /\ writing[w] # None => v = w
    /\ \A w \in Writers : writing[w] # None =>
          /\ kept \subseteq writing[w].banned /\ writing[w].banned \subseteq banned
          /\ file = Truncated
    /\ NotWritten => kept = {} \/ (file.is = "content" /\ kept \subseteq file.banned)

BansInv == (~FileRead => NotWritten) /\ (~excused => BansKept)

LEMMA ContentIs ==
  /\ None \notin Content /\ Truncated \notin Content
  /\ None.is # "content" /\ Truncated.is # "content"
  /\ \A c \in Content : /\ c.is = "content" /\ c.banned \in SUBSET Addrs
                          /\ c.book \in [Addrs -> Entry \cup {None}]
  /\ \A c \in Content : \A bans \in SUBSET Addrs :
        /\ [c EXCEPT !.banned = bans] \in Content
        /\ [c EXCEPT !.banned = bans].banned = bans
BY DEF None, Truncated, Content

LEMMA EntryIs ==
  /\ None \notin Entry
  /\ \A seed \in BOOLEAN : [is |-> "new", seed |-> seed] \in Entry
  /\ \A e \in Entry : \A when \in {"recent", "past"} : [e EXCEPT !.is = when] \in Entry
BY DEF None, Entry

\* The book after each change is a book.
LEMMA BookType ==
  ASSUME NEW b \in [Addrs -> Entry \cup {None}]
  PROVE  /\ Aged(b) \in [Addrs -> Entry \cup {None}]
         /\ \A a \in Addrs : Attempted(b, a) \in [Addrs -> Entry \cup {None}]
         /\ \A a \in Addrs : \A seed \in BOOLEAN :
               WithAddress(b, a, seed) \in [Addrs -> Entry \cup {None}]
<1>1. ASSUME NEW a \in Addrs, a \in Known(b) PROVE b[a] \in Entry
  BY <1>1 DEF Known
<1>2. Aged(b) \in [Addrs -> Entry \cup {None}]
  BY <1>1, EntryIs DEF Aged
<1>3. ASSUME NEW a \in Addrs PROVE Attempted(b, a) \in [Addrs -> Entry \cup {None}]
  BY <1>1, EntryIs DEF Attempted
<1>4. ASSUME NEW a \in Addrs, NEW seed \in BOOLEAN
      PROVE  WithAddress(b, a, seed) \in [Addrs -> Entry \cup {None}]
  <2>1. [is |-> "new", seed |-> seed] \in Entry
    BY EntryIs
  <2>2. [b EXCEPT ![a] = [is |-> "new", seed |-> seed]] \in [Addrs -> Entry \cup {None}]
    BY <2>1
  <2>. QED
    BY <2>2 DEF WithAddress
<1>. QED
  BY <1>2, <1>3, <1>4

\* Steps that write no file, ban no one and load nothing.
Calm ==
    /\ UNCHANGED <<banned, file, writing, kept, excused>>
    /\ book' \in [Addrs -> Entry \cup {None}]
    /\ main' = main \/ (FileRead /\ main' \in {"run", "seeds"})

LEMMA CalmKeeps ==
  ASSUME PeersTypes, BansInv, Calm
  PROVE  PeersTypes' /\ BansInv'
BY DEF PeersTypes, BansInv, Calm, FileRead, NotWritten, BansKept

LEMMA CalmSteps ==
  ASSUME PeersTypes,
         \/ KnownPeersTried \/ SeedNodesTried \/ MaintainPeers \/ FiveMinutes
         \/ \E a \in Addrs : \/ TryKnownPeer(a) \/ TrySeedNode(a)
                             \/ HandleAddr(a) \/ PruneDeadPeers(a) \/ LosePeer(a)
  PROVE  Calm
<1>. USE DEF fileVars
<1>0. book \in [Addrs -> Entry \cup {None}]
  BY DEF PeersTypes
<1>1. ASSUME NEW a \in Addrs, NEW b \in [Addrs -> Entry \cup {None}], Connect(a, b)
      PROVE  book' \in [Addrs -> Entry \cup {None}]
  BY <1>1, BookType DEF Connect
<1>2. CASE KnownPeersTried \/ SeedNodesTried
  BY <1>0, <1>2 DEF KnownPeersTried, SeedNodesTried, Calm, FileRead
<1>3. CASE FiveMinutes
  BY <1>0, <1>3, BookType DEF FiveMinutes, Calm
<1>4. CASE MaintainPeers
  <2>1. CASE CheckPeers \/ CandidatesTried \/ SeedsTried
    BY <1>0, <2>1 DEF CheckPeers, CandidatesTried, SeedsTried, Calm
  <2>2. ASSUME NEW a \in Addrs, TryCandidate(a) \/ TrySeed(a) PROVE Calm
    BY <1>0, <1>1, <2>2 DEF TryCandidate, TrySeed, Calm
  <2>. QED
    BY <1>4, <2>1, <2>2 DEF MaintainPeers
<1>5. ASSUME NEW a \in Addrs, TryKnownPeer(a) PROVE Calm
  BY <1>0, <1>1, <1>5 DEF TryKnownPeer, Calm
<1>6. ASSUME NEW a \in Addrs, TrySeedNode(a) PROVE Calm
  <2>1. WithAddress(book, a, TRUE) \in [Addrs -> Entry \cup {None}]
    BY <1>0, BookType
  <2>. QED
    BY <1>1, <1>6, <2>1 DEF TrySeedNode, Calm
<1>7. ASSUME NEW a \in Addrs, HandleAddr(a) \/ PruneDeadPeers(a) \/ LosePeer(a)
      PROVE  Calm
  BY <1>0, <1>7, BookType DEF HandleAddr, PruneDeadPeers, LosePeer, Calm
<1>. QED
  BY <1>2, <1>3, <1>4, <1>5, <1>6, <1>7

\* The file is read: its bans are in force again.
LEMMA LoadKeeps ==
  ASSUME PeersTypes, BansInv, Load
  PROVE  PeersTypes' /\ BansInv'
<1>. DEFINE now == [a \in Addrs |-> IF file.is = "content" /\ file.book[a] # None
                                   THEN file.book[a] ELSE book[a]]
<1>1. /\ main = "load" /\ main' = "known" /\ book' = now /\ excused' = FALSE
      /\ banned' = IF file.is = "content" THEN banned \cup file.banned ELSE banned
      /\ kept' = IF excused THEN {} ELSE kept
      /\ file' = file /\ writing' = writing
  BY DEF Load
<1>2. file.is = "content" => file \in Content
  BY ContentIs DEF PeersTypes
<1>3. now \in [Addrs -> Entry \cup {None}]
  BY <1>2, ContentIs DEF PeersTypes
<1>. HIDE DEF now
<1>4. PeersTypes'
  BY <1>1, <1>2, <1>3, ContentIs DEF PeersTypes
<1>5. NotWritten /\ NotWritten'
  BY <1>1 DEF BansInv, FileRead, NotWritten
<1>6. kept' = {} \/ (file.is = "content" /\ kept' \subseteq file.banned)
  BY <1>1, <1>5 DEF BansInv, BansKept
<1>7. kept' \subseteq banned'
  BY <1>1, <1>6
<1>. QED
  BY <1>1, <1>4, <1>5, <1>6, <1>7 DEF BansInv, BansKept, NotWritten

\* A ban expires everywhere.
LEMMA ExpireKeeps ==
  ASSUME PeersTypes, BansInv, NEW a \in Addrs, Expire(a)
  PROVE  PeersTypes' /\ BansInv'
<1>1. /\ banned' = banned \ {a} /\ kept' = kept \ {a}
      /\ file' = IF file.is = "content"
                      THEN [file EXCEPT !.banned = file.banned \ {a}] ELSE file
      /\ writing' = [w \in Writers |->
                        IF writing[w] = None THEN None
                        ELSE [writing[w] EXCEPT !.banned = writing[w].banned \ {a}]]
      /\ UNCHANGED <<main, book, excused>>
  BY DEF Expire
<1>2. file.is = "content" => file \in Content
  BY ContentIs DEF PeersTypes
<1>3. file.is = "content" =>
         /\ file' \in Content /\ file'.is = "content"
         /\ file'.banned = file.banned \ {a}
  BY <1>1, <1>2, ContentIs
<1>4. file.is # "content" => file' = file
  BY <1>1
<1>5. \A w \in Writers :
         /\ writing[w] = None => writing'[w] = None
         /\ writing[w] # None => /\ writing'[w] \in Content /\ writing'[w] # None
                                   /\ writing'[w].banned = writing[w].banned \ {a}
  <2>. SUFFICES ASSUME NEW w \in Writers, writing[w] # None
                PROVE  /\ writing'[w] \in Content /\ writing'[w] # None
                       /\ writing'[w].banned = writing[w].banned \ {a}
    BY <1>1
  <2>1. writing[w] \in Content /\ writing[w].banned \ {a} \in SUBSET Addrs
    BY ContentIs DEF PeersTypes
  <2>2. writing'[w] = [writing[w] EXCEPT !.banned = writing[w].banned \ {a}]
    BY <1>1
  <2>. DEFINE rest == writing[w].banned \ {a}
  <2>3. [writing[w] EXCEPT !.banned = rest] \in Content
        /\ [writing[w] EXCEPT !.banned = rest].banned = rest
    BY <2>1, ContentIs
  <2>. QED
    BY <2>2, <2>3, ContentIs
<1>6. PeersTypes'
  <2>1. writing' \in [Writers -> Content \cup {None}]
    BY <1>1, <1>5
  <2>2. file' \in Content \cup {None, Truncated}
    BY <1>3, <1>4 DEF PeersTypes
  <2>. QED
    BY <1>1, <2>1, <2>2 DEF PeersTypes
<1>7. NotWritten' <=> NotWritten
  BY <1>5 DEF NotWritten
<1>8. ASSUME BansKept PROVE BansKept'
  <2>1. \A w \in Writers : writing[w] # None => file' = Truncated
    BY <1>4, <1>8, ContentIs DEF BansKept
  <2>2. FileRead' => kept' \subseteq banned'
    BY <1>1, <1>8 DEF BansKept, FileRead
  <2>3. \A v, w \in Writers : writing'[v] # None /\ writing'[w] # None => v = w
    BY <1>5, <1>8 DEF BansKept
  <2>4. \A w \in Writers : writing'[w] # None =>
           /\ kept' \subseteq writing'[w].banned /\ writing'[w].banned \subseteq banned'
           /\ file' = Truncated
    BY <1>1, <1>5, <1>8, <2>1 DEF BansKept
  <2>5. NotWritten' => kept' = {} \/ (file'.is = "content" /\ kept' \subseteq file'.banned)
    BY <1>1, <1>3, <1>7, <1>8 DEF BansKept
  <2>. QED
    BY <2>2, <2>3, <2>4, <2>5 DEF BansKept
<1>. QED
  BY <1>1, <1>6, <1>7, <1>8 DEF BansInv, FileRead

\* The file is emptied, to be written.
LEMMA SaveBeginsKeeps ==
  ASSUME PeersTypes, BansInv, NEW w \in Writers, SaveBegins(w)
  PROVE  PeersTypes' /\ BansInv'
<1>. DEFINE c == [is |-> "content", book |-> Aged(book), banned |-> banned]
<1>1. /\ FileRead /\ writing[w] = None /\ writing' = [writing EXCEPT ![w] = c]
      /\ file' = Truncated
      /\ excused' = (excused \/ \E v \in Writers : writing[v] # None)
      /\ UNCHANGED <<main, book, banned, kept>>
  BY DEF SaveBegins, MaySave, FileRead
<1>2. c \in Content /\ c.banned = banned
  BY BookType DEF PeersTypes, Content
<1>. HIDE DEF c
<1>3. /\ writing'[w] = c /\ c # None
      /\ \A v \in Writers : v # w => writing'[v] = writing[v]
  BY <1>1, <1>2, ContentIs DEF PeersTypes
<1>4. PeersTypes'
  BY <1>1, <1>2 DEF PeersTypes
<1>5. FileRead'
  BY <1>1 DEF FileRead
<1>6. ASSUME ~excused' PROVE BansKept'
  <2>1. ~excused /\ \A v \in Writers : writing[v] = None
    BY <1>1, <1>6
  <2>2. kept \subseteq banned
    BY <1>1, <2>1 DEF BansInv, BansKept
  <2>3. \A v \in Writers : writing'[v] # None => v = w
    BY <1>3, <2>1
  <2>. QED
    BY <1>1, <1>2, <1>3, <2>2, <2>3 DEF BansKept, NotWritten
<1>. QED
  BY <1>4, <1>5, <1>6 DEF BansInv

\* It is written.
LEMMA SaveEndsKeeps ==
  ASSUME PeersTypes, BansInv, NEW w \in Writers, SaveEnds(w)
  PROVE  PeersTypes' /\ BansInv'
<1>1. /\ writing[w] # None /\ writing' = [writing EXCEPT ![w] = None]
      /\ file' \in {writing[w]} \cup (IF \E v \in Writers \ {w} : writing[v] # None
                                           THEN {Truncated} ELSE {})
      /\ kept' = kept \cup writing[w].banned
      /\ main' = IF w = "main" THEN "exit" ELSE main
      /\ UNCHANGED <<book, banned, excused>>
  BY DEF SaveEnds
<1>2. writing[w] \in Content /\ writing[w].is = "content"
  BY <1>1, ContentIs DEF PeersTypes
<1>3. \A v \in Writers : writing'[v] = IF v = w THEN None ELSE writing[v]
  BY <1>1 DEF PeersTypes
<1>4. PeersTypes'
  BY <1>1, <1>2 DEF PeersTypes
<1>5. FileRead /\ FileRead'
  BY <1>1 DEF BansInv, NotWritten, FileRead
<1>6. ASSUME ~excused PROVE BansKept'
  <2>1. \A v \in Writers : v # w => writing[v] = None
    BY <1>1, <1>6 DEF BansInv, BansKept
  <2>2. file' = writing[w]
    BY <1>1, <2>1
  <2>3. kept \subseteq writing[w].banned /\ writing[w].banned \subseteq banned
    BY <1>1, <1>6 DEF BansInv, BansKept
  <2>4. \A v \in Writers : writing'[v] = None
    BY <1>3, <2>1
  <2>. QED
    BY <1>1, <1>2, <2>2, <2>3, <2>4 DEF BansKept
<1>. QED
  BY <1>1, <1>4, <1>5, <1>6 DEF BansInv

\* The process ends.
LEMMA DiesKeeps ==
  ASSUME PeersTypes, BansInv, Dies
  PROVE  PeersTypes' /\ BansInv'
<1>1. /\ main' = "down" /\ book' = [a \in Addrs |-> None] /\ banned' = {}
      /\ writing' = [w \in Writers |-> None]
      /\ excused' = (excused \/ file = Truncated)
      /\ UNCHANGED <<file, kept>>
  BY DEF Dies
<1>2. PeersTypes'
  BY <1>1 DEF PeersTypes
<1>3. NotWritten' /\ ~FileRead'
  BY <1>1 DEF NotWritten, FileRead
<1>4. ASSUME ~excused' PROVE BansKept'
  <2>1. ~excused /\ file # Truncated
    BY <1>1, <1>4
  <2>2. NotWritten
    BY <2>1 DEF BansInv, BansKept, NotWritten
  <2>3. kept = {} \/ (file.is = "content" /\ kept \subseteq file.banned)
    BY <2>1, <2>2 DEF BansInv, BansKept
  <2>. QED
    BY <1>1, <1>3, <2>3 DEF BansKept, NotWritten
<1>. QED
  BY <1>2, <1>3, <1>4 DEF BansInv

\* A ban that was saved is in force again after a restart, until it expires,
\* unless the process ended while it wrote the file, wrote it twice at a time, or
\* was shut down before it had read it, for any addresses and limits.
THEOREM SavedBansHoldCorrect ==
  AddrBookSpec => []SavedBansHold
<1>1. AddrBookInit => PeersTypes /\ BansInv
  <2>. SUFFICES ASSUME AddrBookInit PROVE PeersTypes /\ BansInv
    OBVIOUS
  <2>1. PeersTypes
    BY DEF AddrBookInit, PeersTypes
  <2>2. NotWritten /\ kept = {} /\ ~FileRead
    BY DEF AddrBookInit, NotWritten, FileRead
  <2>. QED
    BY <2>1, <2>2 DEF BansInv, BansKept, NotWritten
<1>2. PeersTypes /\ BansInv /\ [AddrBookNext]_addrBookVars => PeersTypes' /\ BansInv'
  <2>. SUFFICES ASSUME PeersTypes, BansInv, [AddrBookNext]_addrBookVars
                PROVE  PeersTypes' /\ BansInv'
    OBVIOUS
  <2>1. CASE AddrBookNext
    <3>1. CASE Start
      BY <3>1 DEF Start, fileVars, PeersTypes, BansInv, BansKept, NotWritten, FileRead
    <3>2. ASSUME NEW a \in Addrs, Ban(a) PROVE PeersTypes' /\ BansInv'
      <4>1. banned' = banned \cup {a} /\ UNCHANGED <<main, book, file, writing, kept, excused>>
        BY <3>2 DEF Ban, fileVars
      <4>. QED
        BY <4>1 DEF PeersTypes, BansInv, BansKept, NotWritten, FileRead
    <3>3. CASE Shutdown
      <4>1. /\ main' = "save" /\ main # "down" /\ excused' = (excused \/ main = "load")
            /\ UNCHANGED <<book, banned, file, writing, kept>>
        BY <3>3 DEF Shutdown
      <4>2. ~excused' => ~excused /\ FileRead
        BY <4>1 DEF FileRead
      <4>3. FileRead' /\ PeersTypes'
        BY <4>1 DEF FileRead, PeersTypes
      <4>. QED
        BY <4>1, <4>2, <4>3 DEF BansInv, BansKept, NotWritten
    <3>4. CASE Exit \/ Crash
      BY <3>4, DiesKeeps DEF Exit, Crash
    <3>. QED
      BY <2>1, <3>1, <3>2, <3>3, <3>4, CalmSteps, CalmKeeps, LoadKeeps, ExpireKeeps,
         SaveBeginsKeeps, SaveEndsKeeps DEF AddrBookNext, Bootstrap
  <2>2. CASE UNCHANGED addrBookVars
    BY <2>2, CalmKeeps DEF addrBookVars, fileVars, Calm, PeersTypes
  <2>. QED
    BY <2>1, <2>2
<1>3. BansInv => SavedBansHold
  BY DEF BansInv, BansKept, SavedBansHold, FileRead
<1>. QED
  BY <1>1, <1>2, <1>3, PTL DEF AddrBookSpec
=============================================================================
