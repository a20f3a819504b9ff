---------------------------- MODULE PeersProofs ----------------------------
(***************************************************************************)
(* For any nodes, addresses, limits and number of connections: the limits  *)
(* on accepted and dialled connections hold as InboundBounded and          *)
(* OutboundBounded state them, and a connection leaves the map of peers    *)
(* while it is being read only if its address was dialled twice.           *)
(*                                                                         *)
(* The steps of Peers fall into three kinds: those that leave the map and  *)
(* the connections as they are and at most end a reader (Quiet), those in  *)
(* which a reader deletes the entry of its key (Deletes), and the six of   *)
(* connecting, each with a lemma of its own.                               *)
(***************************************************************************)
EXTENDS Peers, FiniteSetTheorems, TLAPS

Dialled == {"answered", "done"}

Types ==
    /\ dial \in [Conns -> {"unused", "dialling", "answered", "done", "failed"}]
    /\ caller \in [Conns -> Nodes]
    /\ route \in [Conns -> Addrs]
    /\ accept \in [Conns -> {"none", "queued", "checked", "accepted", "refused"}]
    /\ reader \in [Ends -> {"none", "run", "checked", "greet", "greetAgain", "gone"}]
    /\ tracked \in SUBSET Ends
    /\ alive \in [Nodes -> {"up", "panicked", "vanished"}]
    /\ twice \in SUBSET Conns

\* An end exists once its side of the connection does.
Begun ==
    /\ \A c \in Conns : reader[<<c, "out">>] # "none" => dial[c] = "done"
    /\ \A c \in Conns : reader[<<c, "in">>] # "none" => accept[c] = "accepted"
    /\ \A c \in Conns : accept[c] # "none" => dial[c] \in Dialled
    /\ \A e \in tracked : reader[e] # "none"

Busy(c) == dial[c] \in {"dialling", "answered"} \/ Live(<<c, "out">>)

SameRoute(c, d) == caller[c] = caller[d] /\ route[c] = route[d]

\* Connect lets a second connection to an address pass only where twice records
\* both.
PairsRecorded ==
    \A c, d \in Conns : c # d /\ Busy(c) /\ Busy(d) /\ SameRoute(c, d) => c \in twice

LiveInboundTracked == \A e \in Ends : Inbound(e) /\ Live(e) => e \in tracked

\* What HandleInbound checked still holds when the peer is entered.
OneChecked ==
    \A c, d \in Conns :
        accept[c] = "checked" /\ accept[d] = "checked" /\ Callee(c) = Callee(d) => c = d

CheckedFits ==
    \A c \in Conns : accept[c] = "checked" =>
        /\ InboundCount(Callee(c)) < MaxInbound
        /\ \A e \in tracked : Inbound(e) /\ Owner(e) = Callee(c) => Remote(e) # caller[c]

InboundFits == \A n \in Nodes : InboundCount(n) <= MaxInbound

InboundDistinct ==
    \A e, f \in tracked :
        Inbound(e) /\ Inbound(f) /\ Owner(e) = Owner(f) /\ Remote(e) = Remote(f) => e = f

OutboundInv == OutboundBounded

LostInv == PairsRecorded /\ LostOnlyIfDialledTwice

CheckedInv == OneChecked /\ CheckedFits /\ InboundFits /\ InboundDistinct

InboundInv == LiveInboundTracked /\ CheckedInv

IInv == Types /\ Begun /\ OutboundInv /\ LostInv /\ InboundInv
-----------------------------------------------------------------------------
(* Ends, and the sets that are counted                                     *)

LEMMA EndForm ==
  /\ \A c \in Conns : <<c, "out">> \in Ends /\ <<c, "in">> \in Ends
  /\ \A e \in Ends : /\ e[1] \in Conns
                     /\ e = <<e[1], "out">> \/ e = <<e[1], "in">>
                     /\ Inbound(e) => e = <<e[1], "in">>
                     /\ ~Inbound(e) => e = <<e[1], "out">>
                     /\ Far(e) = IF Inbound(e) THEN <<e[1], "out">> ELSE <<e[1], "in">>
BY DEF Ends, Inbound, Far

LEMMA OwnerOf ==
  /\ \A e \in Ends : Inbound(e) => Owner(e) = Callee(e[1]) /\ Remote(e) = caller[e[1]]
  /\ \A e \in Ends : ~Inbound(e) => Owner(e) = caller[e[1]]
BY EndForm DEF Owner, Remote, Inbound

LEMMA EndsFinite == IsFiniteSet(Ends)
<1>1. IsFiniteSet({"out"} \cup {"in"})
  BY FS_Singleton, FS_AddElement
<1>2. {"out"} \cup {"in"} = {"out", "in"}
  OBVIOUS
<1>. QED
  BY <1>1, <1>2, FS_Product, BoundsAssumption DEF Ends

OutEnds(n) == {e \in PeersOf(n) : ~Inbound(e)}

InEnds(n) == {e \in PeersOf(n) : Inbound(e)}

\* The sets of a state that has its types are finite.
LEMMA CountsFinite ==
  ASSUME Types, NEW n
  PROVE  /\ IsFiniteSet(OutEnds(n)) /\ Cardinality(OutEnds(n)) \in Nat
         /\ IsFiniteSet(InEnds(n)) /\ Cardinality(InEnds(n)) \in Nat
         /\ IsFiniteSet(Dialling(n)) /\ Cardinality(Dialling(n)) \in Nat
<1>1. OutEnds(n) \in SUBSET Ends /\ InEnds(n) \in SUBSET Ends
  BY DEF OutEnds, InEnds, PeersOf, Types
<1>2. Dialling(n) \in SUBSET Conns
  BY DEF Dialling
<1>3. /\ IsFiniteSet(OutEnds(n)) /\ IsFiniteSet(InEnds(n)) /\ IsFiniteSet(Dialling(n))
  BY <1>1, <1>2, EndsFinite, BoundsAssumption, FS_Subset
<1>. QED
  BY <1>3, FS_CardinalityType

\* A step that makes each of these sets smaller, or leaves it, keeps the limits.
LEMMA CountsShrink ==
  ASSUME NEW S, NEW T, IsFiniteSet(T), S \subseteq T
  PROVE  /\ IsFiniteSet(S) /\ Cardinality(S) \in Nat /\ Cardinality(T) \in Nat
         /\ Cardinality(S) <= Cardinality(T)
<1>1. S \in SUBSET T
  OBVIOUS
<1>2. IsFiniteSet(S) /\ Cardinality(S) <= Cardinality(T)
  BY <1>1, FS_Subset
<1>. QED
  BY <1>2, FS_CardinalityType
-----------------------------------------------------------------------------
(* Steps that leave the map and the connections                            *)

ReaderStates == {"none", "run", "checked", "greet", "greetAgain", "gone"}

Quiet ==
    /\ UNCHANGED <<dial, caller, route, accept, tracked, twice>>
    /\ reader' \in [Ends -> ReaderStates]
    /\ alive' \in [Nodes -> {"up", "panicked", "vanished"}]
    /\ \A e \in Ends : reader'[e] = "none" <=> reader[e] = "none"
    /\ \A e \in Ends : Live(e)' => Live(e)

Deletes(e) ==
    /\ e \in Ends
    /\ UNCHANGED <<dial, caller, route, accept, alive, twice>>
    /\ Live(e)
    /\ ReaderGone(e)

LEMMA StopKeepsDead ==
  ASSUME Types, NEW e \in Ends, NEW q, Stop(e, q), UNCHANGED connVars
  PROVE  /\ alive' \in [Nodes -> {"up", "panicked", "vanished"}]
         /\ \A f \in Ends : Up(f)' => Up(f)
<1>1. \A f \in Ends : Owner(f)' = Owner(f) /\ Owner(f) \in Nodes
  BY EndForm, AddrsAssumption DEF Owner, Callee, connVars, Types
<1>2. \/ alive' = alive
      \/ alive' = [alive EXCEPT ![Owner(e)] = "panicked"]
  BY DEF Stop
<1>. QED
  BY <1>1, <1>2 DEF Up, Types

LEMMA ReaderStepQuiet ==
  ASSUME Types, NEW e \in Ends, UNCHANGED <<connVars, tracked, twice>>,
         \/ UNCHANGED reader
         \/ /\ reader[e] \in {"run", "checked", "greet", "greetAgain"}
            /\ \/ reader' = [reader EXCEPT ![e] = "checked"]
               \/ reader' = [reader EXCEPT ![e] = "run"]
               \/ reader' = [reader EXCEPT ![e] = IF state[e] = "handshaking"
                                                  THEN "greet" ELSE "greetAgain"],
         alive' \in [Nodes -> {"up", "panicked", "vanished"}],
         \A f \in Ends : Up(f)' => Up(f)
  PROVE  Quiet
<1>1. \A f \in Ends : reader'[f] = reader[f] \/
                      (/\ reader[f] \in {"run", "checked", "greet", "greetAgain"}
                       /\ reader'[f] \in {"run", "checked", "greet", "greetAgain"})
  BY DEF Types
<1>2. reader' \in [Ends -> ReaderStates]
  BY DEF Types, ReaderStates
<1>3. \A f \in Ends : Live(f)' => Live(f)
  BY <1>1 DEF Live
<1>. QED
  BY <1>1, <1>2, <1>3 DEF Quiet, connVars

LEMMA UpSame ==
  ASSUME Types, UNCHANGED <<connVars, alive>>
  PROVE  /\ alive' \in [Nodes -> {"up", "panicked", "vanished"}]
         /\ \A f \in Ends : Up(f)' = Up(f)
BY DEF Types, Up, Owner, Callee, connVars

\* The reader's, writer's and pinger's steps, and the loss of a machine.
LEMMA QuietSteps ==
  ASSUME Types, NEW e \in Ends,
         \/ HandleVersion(e) \/ StoreVersion(e) \/ Greet(e) \/ HandleVersionAck(e)
         \/ HandlePing(e) \/ HandlePong(e) \/ Malformed(e) \/ WriteFails(e) \/ Ping(e)
  PROVE  Quiet
<1>1. CASE HandleVersion(e)
  <2>1. UNCHANGED <<connVars, tracked, twice>>
    BY <1>1 DEF HandleVersion
  <2>2. reader[e] = "run"
    BY <1>1 DEF HandleVersion, Receives, Reading
  <2>3. CASE /\ Stop(e, Rest(e)) /\ UNCHANGED reader
    BY <2>1, <2>3, StopKeepsDead, ReaderStepQuiet
  <2>4. CASE /\ \E f \in PeersByNonce(Owner(e), Remote(e)) : Stop(f, Rest(e))
             /\ UNCHANGED reader
    <3>1. PICK f \in PeersByNonce(Owner(e), Remote(e)) : Stop(f, Rest(e))
      BY <2>4
    <3>2. f \in Ends
      BY DEF PeersByNonce, PeersOf, Types
    <3>. QED
      BY <2>1, <2>4, <3>1, <3>2, StopKeepsDead, ReaderStepQuiet
  <2>5. CASE reader' = [reader EXCEPT ![e] = "checked"] /\ UNCHANGED alive
    BY <2>1, <2>2, <2>5, UpSame, ReaderStepQuiet
  <2>. QED
    BY <1>1, <2>3, <2>4, <2>5 DEF HandleVersion
<1>2. CASE StoreVersion(e)
  <2>1. /\ UNCHANGED <<connVars, tracked, twice, alive>>
        /\ reader[e] = "checked"
        /\ reader' = [reader EXCEPT ![e] = IF state[e] = "handshaking"
                                           THEN "greet" ELSE "greetAgain"]
    BY <1>2 DEF StoreVersion
  <2>. QED
    BY <2>1, UpSame, ReaderStepQuiet
<1>3. CASE Greet(e)
  <2>1. /\ UNCHANGED <<connVars, tracked, twice, alive>>
        /\ reader[e] \in {"greet", "greetAgain"}
        /\ reader' = [reader EXCEPT ![e] = "run"]
    BY <1>3 DEF Greet
  <2>. QED
    BY <2>1, UpSame, ReaderStepQuiet
<1>4. CASE HandleVersionAck(e) \/ HandlePing(e) \/ HandlePong(e) \/ Malformed(e)
  <2>1. UNCHANGED <<connVars, tracked, twice, alive, reader>>
    BY <1>4 DEF HandleVersionAck, HandlePing, HandlePong, Malformed
  <2>. QED
    BY <2>1, UpSame, ReaderStepQuiet
<1>5. CASE WriteFails(e)
  <2>1. UNCHANGED <<connVars, tracked, twice, reader>> /\ Stop(e, queue)
    BY <1>5 DEF WriteFails
  <2>. QED
    BY <2>1, StopKeepsDead, ReaderStepQuiet
<1>6. CASE Ping(e)
  <2>1. /\ UNCHANGED <<connVars, tracked, twice, reader>>
        /\ Stop(e, queue) \/ UNCHANGED alive
    BY <1>6 DEF Ping
  <2>. QED
    BY <2>1, UpSame, StopKeepsDead, ReaderStepQuiet
<1>. QED
  BY <1>1, <1>2, <1>3, <1>4, <1>5, <1>6

LEMMA VanishQuiet ==
  ASSUME Types, NEW n \in Nodes, Vanish(n)
  PROVE  Quiet
<1>1. UNCHANGED <<connVars, tracked, twice, reader>>
  BY DEF Vanish, endVars
<1>2. alive' = [alive EXCEPT ![n] = "vanished"]
  BY DEF Vanish
<1>3. \A f \in Ends : Owner(f)' = Owner(f) /\ Owner(f) \in Nodes
  BY <1>1, EndForm, AddrsAssumption DEF Owner, Callee, connVars, Types
<1>4. /\ alive' \in [Nodes -> {"up", "panicked", "vanished"}]
      /\ \A f \in Ends : Up(f)' => Up(f)
  BY <1>2, <1>3 DEF Up, Types
<1>5. \A f \in Ends : Live(f)' => Live(f)
  BY <1>1, <1>4 DEF Live
<1>. QED
  BY <1>1, <1>4, <1>5 DEF Quiet, connVars, Types, ReaderStates
-----------------------------------------------------------------------------
(* What these steps keep                                                   *)

\* Who owns an end depends on the connection alone.
LEMMA SameOwners ==
  ASSUME UNCHANGED <<caller, route>>
  PROVE  /\ \A e \in Ends : Owner(e)' = Owner(e) /\ Remote(e)' = Remote(e)
         /\ \A c \in Conns : Callee(c)' = Callee(c)
         /\ \A c, d \in Conns : SameRoute(c, d)' <=> SameRoute(c, d)
         /\ \A e, f \in Ends : SameKey(e, f)' <=> SameKey(e, f)
BY DEF Owner, Remote, Callee, SameRoute, SameKey

\* A step after which no more ends are tracked or dialled out keeps the limit.
LEMMA OutboundKept ==
  ASSUME IInv,
         \A n \in Nodes : /\ OutEnds(n)' \subseteq OutEnds(n)
                          /\ Dialling(n)' \subseteq Dialling(n)
  PROVE  OutboundInv'
<1>. SUFFICES ASSUME NEW n \in Nodes
              PROVE  OutboundCount(n)' + Cardinality(Dialling(n)')
                         <= MaxOutbound + MaxDialers[n] - 1
  BY DEF OutboundInv, OutboundBounded
<1>1. IsFiniteSet(OutEnds(n)) /\ IsFiniteSet(Dialling(n))
  BY CountsFinite DEF IInv
<1>2. /\ OutboundCount(n)' \in Nat /\ OutboundCount(n) \in Nat
      /\ OutboundCount(n)' <= OutboundCount(n)
  BY <1>1, CountsShrink DEF OutboundCount, OutEnds
<1>3. /\ Cardinality(Dialling(n)') \in Nat /\ Cardinality(Dialling(n)) \in Nat
      /\ Cardinality(Dialling(n)') <= Cardinality(Dialling(n))
  BY <1>1, CountsShrink
<1>4. OutboundCount(n) + Cardinality(Dialling(n)) <= MaxOutbound + MaxDialers[n] - 1
  BY DEF IInv, OutboundInv, OutboundBounded
<1>. QED
  BY <1>2, <1>3, <1>4, BoundsAssumption, DialersAssumption

\* A step that checks no connection and enters no accepted one keeps what
\* HandleInbound checked.
LEMMA InboundKept ==
  ASSUME IInv,
         tracked' \subseteq Ends,
         \A e \in tracked' : Inbound(e) => /\ e \in tracked
                                           /\ Owner(e)' = Owner(e) /\ Remote(e)' = Remote(e),
         \A c \in Conns : accept'[c] = "checked" =>
             accept[c] = "checked" /\ Callee(c)' = Callee(c) /\ caller'[c] = caller[c]
  PROVE  CheckedInv'
<1>1. \A c \in Conns : Callee(c) \in Nodes
  BY AddrsAssumption DEF IInv, Types, Callee
<1>2. ASSUME NEW n \in Nodes
      PROVE  /\ InboundCount(n)' \in Nat /\ InboundCount(n) \in Nat
             /\ InboundCount(n)' <= InboundCount(n)
  <2>1. InEnds(n)' \subseteq InEnds(n)
    BY DEF InEnds, PeersOf, Inbound
  <2>2. IsFiniteSet(InEnds(n))
    BY CountsFinite DEF IInv
  <2>. QED
    BY <2>1, <2>2, CountsShrink DEF InEnds, InboundCount
<1>3. OneChecked'
  BY DEF IInv, InboundInv, CheckedInv, OneChecked
<1>4. CheckedFits'
  <2>. SUFFICES ASSUME NEW c \in Conns, accept'[c] = "checked"
                PROVE  /\ InboundCount(Callee(c))' < MaxInbound
                       /\ \A e \in tracked' : Inbound(e) /\ Owner(e)' = Callee(c)'
                                                  => Remote(e)' # caller'[c]
    BY DEF CheckedFits, Inbound
  <2>1. /\ InboundCount(Callee(c)) < MaxInbound
        /\ \A e \in tracked : Inbound(e) /\ Owner(e) = Callee(c) => Remote(e) # caller[c]
    BY DEF IInv, InboundInv, CheckedInv, CheckedFits
  <2>2. PICK n \in Nodes : n = Callee(c) /\ Callee(c)' = n
    BY <1>1
  <2>3. InboundCount(n)' < MaxInbound
    BY <1>2, <2>1, <2>2, BoundsAssumption
  <2>4. InboundCount(Callee(c))' = InboundCount(n)'
    BY <2>2 DEF InboundCount, PeersOf
  <2>. QED
    BY <2>1, <2>2, <2>3, <2>4
<1>5. InboundFits'
  BY <1>2, BoundsAssumption DEF IInv, InboundInv, CheckedInv, InboundFits
<1>6. InboundDistinct'
  <2>. SUFFICES ASSUME NEW e \in tracked', NEW f \in tracked',
                       Inbound(e), Inbound(f), Owner(e)' = Owner(f)', Remote(e)' = Remote(f)'
                PROVE  e = f
    BY DEF InboundDistinct, Inbound
  <2>. QED
    BY DEF IInv, InboundInv, CheckedInv, InboundDistinct
<1>. QED
  BY <1>3, <1>4, <1>5, <1>6 DEF CheckedInv

\* A step that makes no connection busy and loses no live end keeps LostInv.
LEMMA LostKept ==
  ASSUME IInv, twice \subseteq twice',
         \A c \in Conns : Busy(c)' => /\ Busy(c)
                                      /\ caller'[c] = caller[c] /\ route'[c] = route[c],
         \A e \in Ends : Live(e)' /\ e \notin tracked' => Live(e) /\ e \notin tracked
  PROVE  LostInv'
<1>1. PairsRecorded'
  BY DEF IInv, LostInv, PairsRecorded, SameRoute
<1>2. LostOnlyIfDialledTwice'
  BY DEF IInv, LostInv, LostOnlyIfDialledTwice
<1>. QED
  BY <1>1, <1>2 DEF LostInv

\* With the connections as they were and a smaller map, the limits hold.
LEMMA SmallerMap ==
  ASSUME IInv, UNCHANGED <<dial, caller, route, accept>>, tracked' \subseteq tracked
  PROVE  OutboundInv' /\ CheckedInv'
<1>1. tracked \subseteq Ends
  BY DEF IInv, Types
<1>2. \A n \in Nodes : OutEnds(n)' \subseteq OutEnds(n) /\ Dialling(n)' = Dialling(n)
  BY <1>1, SameOwners DEF OutEnds, PeersOf, Inbound, Dialling
<1>3. OutboundInv'
  BY <1>2, OutboundKept
<1>. QED
  BY <1>1, <1>3, SameOwners, InboundKept

LEMMA QuietKeeps ==
  ASSUME IInv, Quiet
  PROVE  IInv'
<1>. USE DEF Quiet
<1>1. Types'
  BY DEF IInv, Types, ReaderStates
<1>2. Begun'
  <2>1. \A e \in tracked : e \in Ends /\ reader'[e] # "none"
    BY DEF IInv, Types, Begun
  <2>2. \A c \in Conns : /\ reader'[<<c, "out">>] # "none" => reader[<<c, "out">>] # "none"
                         /\ reader'[<<c, "in">>] # "none" => reader[<<c, "in">>] # "none"
    BY EndForm
  <2>. QED
    BY <2>1, <2>2 DEF IInv, Begun
<1>3. OutboundInv' /\ CheckedInv'
  BY SmallerMap
<1>4. LostInv'
  <2>1. \A c \in Conns : Busy(c)' => Busy(c)
    <3>. SUFFICES ASSUME NEW c \in Conns, Busy(c)' PROVE Busy(c)
      OBVIOUS
    <3>1. <<c, "out">> \in Ends
      BY EndForm
    <3>. QED
      BY <3>1 DEF Busy
  <2>. QED
    BY <2>1, LostKept
<1>5. LiveInboundTracked'
  BY DEF IInv, InboundInv, LiveInboundTracked, Inbound
<1>. QED
  BY <1>1, <1>2, <1>3, <1>4, <1>5 DEF IInv, InboundInv

\* The entry that a reader deletes and that is not its own belongs to a second
\* connection with the same route.
LEMMA DeletesKeeps ==
  ASSUME IInv, NEW e, Deletes(e)
  PROVE  IInv'
<1>. USE DEF Deletes
<1>1. /\ reader' = [reader EXCEPT ![e] = "gone"]
      /\ tracked' = {f \in tracked : ~SameKey(e, f)}
      /\ reader[e] \notin {"none", "gone"}
  BY DEF ReaderGone, Live
<1>2. Types'
  BY <1>1 DEF IInv, Types
<1>3. \A f \in Ends : /\ reader'[f] # "none" => reader[f] # "none"
                      /\ reader[f] # "none" => reader'[f] # "none"
  BY <1>1 DEF IInv, Types
<1>4. Begun'
  <2>1. \A f \in tracked' : reader'[f] # "none"
    BY <1>1, <1>3 DEF IInv, Types, Begun
  <2>2. \A c \in Conns : /\ reader'[<<c, "out">>] # "none" => reader[<<c, "out">>] # "none"
                         /\ reader'[<<c, "in">>] # "none" => reader[<<c, "in">>] # "none"
    BY <1>3, EndForm
  <2>. QED
    BY <2>1, <2>2 DEF IInv, Begun
<1>5. OutboundInv' /\ CheckedInv'
  <2>1. tracked' \subseteq tracked
    BY <1>1
  <2>. QED
    BY <2>1, SmallerMap
<1>6. \A f \in Ends : Live(f)' => Live(f) /\ f # e
  BY <1>1, SameOwners DEF IInv, Types, Live, Up
<1>7. PairsRecorded'
  <2>1. \A c \in Conns : Busy(c)' => Busy(c)
    <3>. SUFFICES ASSUME NEW c \in Conns, Busy(c)' PROVE Busy(c)
      OBVIOUS
    <3>1. <<c, "out">> \in Ends
      BY EndForm
    <3>. QED
      BY <3>1, <1>6 DEF Busy
  <2>. QED
    BY <2>1, SameOwners DEF IInv, LostInv, PairsRecorded
<1>8. ASSUME NEW f \in Ends, Live(f)', f \notin tracked', f \in tracked
      PROVE  ~Inbound(f) /\ f[1] \in twice
  <2>1. Live(f) /\ f # e /\ SameKey(e, f)
    BY <1>1, <1>6, <1>8
  <2>2. ~Inbound(e) /\ ~Inbound(f) /\ Owner(e) = Owner(f) /\ route[e[1]] = route[f[1]]
    BY <2>1 DEF SameKey
  <2>3. e = <<e[1], "out">> /\ f = <<f[1], "out">> /\ e[1] \in Conns /\ f[1] \in Conns
    BY <2>2, EndForm
  <2>4. Busy(e[1]) /\ Busy(f[1]) /\ e[1] # f[1]
    BY <2>1, <2>3 DEF Busy
  <2>5. SameRoute(f[1], e[1])
    BY <2>2, OwnerOf DEF SameRoute
  <2>. QED
    BY <2>2, <2>3, <2>4, <2>5 DEF IInv, LostInv, PairsRecorded
<1>9. LostOnlyIfDialledTwice'
  BY <1>6, <1>8 DEF IInv, LostInv, LostOnlyIfDialledTwice
<1>10. LiveInboundTracked'
  BY <1>6, <1>8 DEF IInv, InboundInv, LiveInboundTracked, Inbound
<1>. QED
  BY <1>2, <1>4, <1>5, <1>7, <1>9, <1>10 DEF IInv, InboundInv, LostInv
-----------------------------------------------------------------------------
(* Connecting                                                              *)

LEMMA NoneUnder ==
  ASSUME Types, Begun, NEW c \in Conns, dial[c] = "unused"
  PROVE  /\ accept[c] = "none"
         /\ \A e \in Ends : e[1] = c => reader[e] = "none" /\ e \notin tracked
<1>1. accept[c] = "none"
  BY DEF Begun, Dialled
<1>2. reader[<<c, "out">>] = "none" /\ reader[<<c, "in">>] = "none"
  BY <1>1 DEF Begun
<1>3. \A e \in Ends : e[1] = c => reader[e] = "none"
  BY <1>2, EndForm
<1>. QED
  BY <1>1, <1>3 DEF Begun

LEMMA ConnectKeeps ==
  ASSUME IInv, NEW n, NEW addr, <<n, addr>> \in Dials, NEW c \in Conns, Connect(n, addr, c)
  PROVE  IInv'
<1>1. dial[c] = "unused" /\ n \in Nodes /\ addr \in Addrs
  BY BoundsAssumption, AddrsAssumption DEF Connect
<1>2. /\ dial' = [dial EXCEPT ![c] = "dialling"]
      /\ caller' = [caller EXCEPT ![c] = n]
      /\ route' = [route EXCEPT ![c] = addr]
      /\ UNCHANGED <<accept, reader, tracked, alive>>
  BY DEF Connect, endVars
<1>. DEFINE same == {d \in Conns : /\ caller[d] = n /\ route[d] = addr
                                   /\ \/ d \in Dialling(n)
                                      \/ Live(<<d, "out">>) /\ <<d, "out">> \notin tracked}
<1>3. twice' = IF same = {} THEN twice ELSE twice \cup same \cup {c}
  BY DEF Connect
<1>4. Types /\ Begun
  BY DEF IInv
<1>5. Types'
  <2>1. twice' \subseteq Conns
    BY <1>3, <1>4 DEF Types
  <2>. QED
    BY <1>1, <1>2, <1>4, <2>1 DEF Types
<1>6. /\ accept[c] = "none"
      /\ \A e \in Ends : e[1] = c => reader[e] = "none" /\ e \notin tracked
  BY <1>1, <1>4, NoneUnder
<1>7. /\ \A d \in Conns : d # c => /\ dial'[d] = dial[d] /\ caller'[d] = caller[d]
                                   /\ route'[d] = route[d] /\ Callee(d)' = Callee(d)
      /\ dial'[c] = "dialling" /\ caller'[c] = n /\ route'[c] = addr
  BY <1>2, <1>4 DEF Types, Callee
<1>8. \A e \in Ends : e[1] # c => Owner(e)' = Owner(e) /\ Remote(e)' = Remote(e)
  <2>. SUFFICES ASSUME NEW e \in Ends, e[1] # c
                PROVE  Owner(e)' = Owner(e) /\ Remote(e)' = Remote(e)
    OBVIOUS
  <2>. QED
    BY <1>7, EndForm DEF Owner, Remote, Far
<1>9. Begun'
  <2>1. \A e \in Ends : reader[e] # "none" => e[1] # c
    BY <1>6
  <2>2. \A d \in Conns : /\ reader[<<d, "out">>] # "none" => d # c
                         /\ reader[<<d, "in">>] # "none" => d # c
    <3>1. \A d \in Conns : <<d, "out">>[1] = d /\ <<d, "in">>[1] = d
      OBVIOUS
    <3>. QED
      BY <2>1, <3>1, EndForm
  <2>. QED
    BY <1>2, <1>4, <1>6, <1>7, <2>2 DEF Begun
<1>10. \A e \in Ends : Live(e)' <=> Live(e) /\ e[1] # c
  BY <1>2, <1>6, <1>8 DEF Live, Up
<1>11. CheckedInv'
  <2>1. \A e \in tracked' : Inbound(e) => /\ e \in tracked
                                          /\ Owner(e)' = Owner(e) /\ Remote(e)' = Remote(e)
    BY <1>2, <1>4, <1>6, <1>8 DEF Types
  <2>2. \A d \in Conns : accept'[d] = "checked" =>
            accept[d] = "checked" /\ Callee(d)' = Callee(d) /\ caller'[d] = caller[d]
    BY <1>2, <1>6, <1>7
  <2>3. tracked' \subseteq Ends
    BY <1>5 DEF Types
  <2>. QED
    BY <2>1, <2>2, <2>3, InboundKept
<1>12. OutboundInv'
  <2>. SUFFICES ASSUME NEW m \in Nodes
                PROVE  OutboundCount(m)' + Cardinality(Dialling(m)')
                           <= MaxOutbound + MaxDialers[m] - 1
    BY DEF OutboundInv, OutboundBounded
  <2>1. OutboundCount(m)' = OutboundCount(m)
    <3>1. \A e \in tracked : e \in Ends /\ Owner(e)' = Owner(e)
      BY <1>4, <1>6, <1>8 DEF Types
    <3>2. OutEnds(m)' = OutEnds(m)
      BY <1>2, <3>1 DEF OutEnds, PeersOf, Inbound
    <3>. QED
      BY <3>2 DEF OutboundCount, OutEnds
  <2>2. OutboundCount(m) \in Nat /\ IsFiniteSet(Dialling(m)) /\ Cardinality(Dialling(m)) \in Nat
    BY <1>4, CountsFinite DEF OutboundCount, OutEnds
  <2>3. CASE m = n
    <3>1. Dialling(m)' = Dialling(m) \cup {c} /\ c \notin Dialling(m)
      BY <1>1, <1>7, <2>3 DEF Dialling
    <3>2. Cardinality(Dialling(m)') = Cardinality(Dialling(m)) + 1
      BY <2>2, <3>1, FS_AddElement
    <3>3. OutboundCount(m) < MaxOutbound /\ Cardinality(Dialling(m)) < MaxDialers[m]
      BY <2>3 DEF Connect, MayConnect
    <3>. QED
      BY <2>1, <2>2, <3>2, <3>3, BoundsAssumption, DialersAssumption
  <2>4. CASE m # n
    <3>1. Dialling(m)' = Dialling(m)
      BY <1>1, <1>7, <2>4 DEF Dialling
    <3>. QED
      BY <2>1, <3>1 DEF IInv, OutboundInv, OutboundBounded
  <2>. QED
    BY <2>3, <2>4
<1>13. ASSUME NEW d \in Conns, d # c, Busy(d), caller[d] = n, route[d] = addr
       PROVE  c \in twice' /\ d \in twice'
  <2>1. CASE dial[d] \in {"dialling", "answered"}
    <3>1. d \in same
      BY <1>13, <2>1 DEF Dialling
    <3>. QED
      BY <1>3, <3>1
  <2>2. CASE Live(<<d, "out">>)
    <3>. DEFINE e == <<d, "out">>
    <3>1. e \in Ends /\ ~Inbound(e) /\ Owner(e) = n /\ route[e[1]] = addr
      BY <1>13, EndForm, OwnerOf DEF Inbound
    <3>2. ~IsConnected(n, addr)
      BY DEF Connect, MayConnect
    <3>3. e \notin tracked
      BY <3>1, <3>2 DEF IsConnected, PeersOf
    <3>4. d \in same
      BY <1>13, <2>2, <3>3
    <3>. QED
      BY <1>3, <3>4
  <2>. QED
    BY <1>13, <2>1, <2>2 DEF Busy
<1>14. \A d \in Conns : d # c => (Busy(d)' <=> Busy(d))
  BY <1>7, <1>10, EndForm DEF Busy
<1>15. twice \subseteq twice'
  BY <1>3
<1>. HIDE DEF same
<1>16. PairsRecorded'
  <2>. SUFFICES ASSUME NEW d \in Conns, NEW f \in Conns, d # f, Busy(d)', Busy(f)',
                       SameRoute(d, f)'
                PROVE  d \in twice'
    BY DEF PairsRecorded
  <2>1. CASE d = c
    BY <1>7, <1>13, <1>14, <2>1 DEF SameRoute
  <2>2. CASE f = c
    BY <1>7, <1>13, <1>14, <2>2 DEF SameRoute
  <2>3. CASE d # c /\ f # c
    BY <1>7, <1>14, <1>15, <2>3 DEF SameRoute, IInv, LostInv, PairsRecorded
  <2>. QED
    BY <2>1, <2>2, <2>3
<1>17. LostOnlyIfDialledTwice'
  BY <1>2, <1>10, <1>15 DEF IInv, LostInv, LostOnlyIfDialledTwice
<1>18. LiveInboundTracked'
  BY <1>2, <1>10 DEF IInv, InboundInv, LiveInboundTracked, Inbound
<1>. QED
  BY <1>5, <1>9, <1>11, <1>12, <1>16, <1>17, <1>18 DEF IInv, InboundInv, LostInv

\* A dial that goes on or fails.
LEMMA DialKeeps ==
  ASSUME IInv, NEW c \in Conns, Answer(c) \/ DialFails(c)
  PROVE  IInv'
<1>1. dial[c] = "dialling" /\ accept[c] = "none"
  BY DEF Answer, DialFails, IInv, Begun, Dialled
<1>2. /\ \/ dial' = [dial EXCEPT ![c] = "answered"] /\ accept' = [accept EXCEPT ![c] = "queued"]
         \/ dial' = [dial EXCEPT ![c] = "failed"] /\ accept' = accept
      /\ UNCHANGED <<caller, route, reader, tracked, alive, twice>>
  BY DEF Answer, DialFails, endVars
<1>3. Types /\ Types'
  BY <1>2 DEF IInv, Types
<1>4. reader[<<c, "out">>] = "none" /\ reader[<<c, "in">>] = "none"
  BY <1>1 DEF IInv, Begun
<1>5. \A d \in Conns : d # c => dial'[d] = dial[d] /\ accept'[d] = accept[d]
  BY <1>2, <1>3 DEF Types
<1>6. \/ dial'[c] = "answered" /\ accept'[c] = "queued"
      \/ dial'[c] = "failed" /\ accept'[c] = "none"
  BY <1>1, <1>2, <1>3 DEF Types
<1>7. Begun'
  BY <1>2, <1>4, <1>5, <1>6 DEF IInv, Begun, Dialled
<1>8. \A e \in Ends : /\ Owner(e)' = Owner(e) /\ Remote(e)' = Remote(e)
                      /\ Live(e)' = Live(e)
  BY <1>2, SameOwners DEF Live, Up
<1>9. OutboundInv'
  <2>1. \A n \in Nodes : OutEnds(n)' \subseteq OutEnds(n)
    BY <1>2, <1>3, <1>8 DEF OutEnds, PeersOf, Types, Inbound
  <2>2. \A n \in Nodes : Dialling(n)' \subseteq Dialling(n)
    BY <1>1, <1>2, <1>5, <1>6 DEF Dialling
  <2>. QED
    BY <2>1, <2>2, OutboundKept
<1>10. CheckedInv'
  <2>1. \A d \in Conns : accept'[d] = "checked" => accept[d] = "checked"
    BY <1>5, <1>6
  <2>2. \A e \in tracked' : e \in Ends /\ e \in tracked
    BY <1>2, <1>3 DEF Types
  <2>. QED
    BY <1>2, <1>8, <2>1, <2>2, SameOwners, InboundKept
<1>11. LostInv'
  <2>1. \A d \in Conns : Busy(d)' => Busy(d)
    BY <1>1, <1>5, <1>8, EndForm DEF Busy
  <2>. QED
    BY <1>2, <1>8, <2>1, LostKept
<1>12. LiveInboundTracked'
  BY <1>2, <1>8 DEF IInv, InboundInv, LiveInboundTracked, Inbound
<1>. QED
  BY <1>3, <1>7, <1>9, <1>10, <1>11, <1>12 DEF IInv, InboundInv

\* The dial is replaced by an outbound peer: their sum does not grow.
LEMMA ConnectedKeeps ==
  ASSUME IInv, NEW c \in Conns, Connected(c)
  PROVE  IInv'
<1>. DEFINE e == <<c, "out">>
<1>1. /\ dial[c] = "answered" /\ alive[caller[c]] = "up"
      /\ dial' = [dial EXCEPT ![c] = "done"]
      /\ reader' = [reader EXCEPT ![e] = "run"]
      /\ tracked' = {f \in tracked : ~SameKey(e, f)} \cup {e}
      /\ UNCHANGED <<caller, route, accept, alive, twice>>
  BY DEF Connected, NewPeer
<1>2. Types
  BY DEF IInv
<1>3. /\ e \in Ends /\ ~Inbound(e) /\ e[1] = c /\ Owner(e) = caller[c]
  BY EndForm, OwnerOf DEF Inbound
<1>4. reader[e] = "none" /\ e \notin tracked
  BY <1>1 DEF IInv, Begun
<1>5. /\ dial'[c] = "done" /\ reader'[e] = "run"
      /\ \A d \in Conns : d # c => dial'[d] = dial[d]
      /\ \A f \in Ends : f # e => reader'[f] = reader[f]
  BY <1>1, <1>2, <1>3 DEF Types
<1>6. Types'
  BY <1>1, <1>2, <1>3 DEF Types
<1>7. Begun'
  <2>1. \A d \in Conns : reader'[<<d, "out">>] # "none" => dial'[d] = "done"
    <3>. SUFFICES ASSUME NEW d \in Conns, reader'[<<d, "out">>] # "none", d # c
                  PROVE  dial'[d] = "done"
      BY <1>5
    <3>1. <<d, "out">> # e /\ <<d, "out">> \in Ends
      BY EndForm
    <3>. QED
      BY <1>5, <3>1 DEF IInv, Begun
  <2>2. \A d \in Conns : <<d, "in">> # e /\ <<d, "in">> \in Ends
    BY EndForm
  <2>3. \A d \in Conns : reader'[<<d, "in">>] # "none" => accept'[d] = "accepted"
    BY <1>1, <1>5, <2>2 DEF IInv, Begun
  <2>4. \A d \in Conns : accept'[d] # "none" => dial'[d] \in Dialled
    BY <1>1, <1>5 DEF IInv, Begun, Dialled
  <2>5. \A f \in tracked' : reader'[f] # "none"
    BY <1>1, <1>2, <1>5 DEF IInv, Begun, Types
  <2>. QED
    BY <2>1, <2>3, <2>4, <2>5 DEF Begun
<1>8. \A f \in Ends : Owner(f)' = Owner(f) /\ Remote(f)' = Remote(f)
  BY <1>1, SameOwners
<1>9. \A f \in Ends : f # e => (Live(f)' <=> Live(f))
  BY <1>1, <1>5, <1>8 DEF Live, Up
<1>10. \A f \in tracked' : f # e => f \in tracked /\ f \in Ends
  BY <1>1, <1>2 DEF Types
<1>. HIDE DEF e
<1>11. OutboundInv'
  <2>. SUFFICES ASSUME NEW m \in Nodes
                PROVE  OutboundCount(m)' + Cardinality(Dialling(m)')
                           <= MaxOutbound + MaxDialers[m] - 1
    BY DEF OutboundInv, OutboundBounded
  <2>1. /\ IsFiniteSet(OutEnds(m)) /\ IsFiniteSet(Dialling(m))
        /\ Cardinality(OutEnds(m)) \in Nat /\ Cardinality(Dialling(m)) \in Nat
    BY <1>2, CountsFinite
  <2>2. Cardinality(OutEnds(m)) + Cardinality(Dialling(m)) <= MaxOutbound + MaxDialers[m] - 1
    BY DEF IInv, OutboundInv, OutboundBounded, OutboundCount, OutEnds
  <2>3. OutboundCount(m)' = Cardinality(OutEnds(m)')
    BY DEF OutboundCount, OutEnds
  <2>4. CASE m = caller[c]
    <3>1. Dialling(m)' = Dialling(m) \ {c} /\ c \in Dialling(m)
      BY <1>1, <1>5, <2>4 DEF Dialling
    <3>2. Cardinality(Dialling(m)') = Cardinality(Dialling(m)) - 1
      BY <2>1, <3>1, FS_RemoveElement
    <3>3. OutEnds(m)' \subseteq OutEnds(m) \cup {e}
      BY <1>8, <1>10 DEF OutEnds, PeersOf, Inbound
    <3>4. /\ IsFiniteSet(OutEnds(m) \cup {e})
          /\ Cardinality(OutEnds(m) \cup {e}) <= Cardinality(OutEnds(m)) + 1
      <4>1. /\ IsFiniteSet(OutEnds(m) \cup {e})
            /\ Cardinality(OutEnds(m) \cup {e}) =
                   IF e \in OutEnds(m) THEN Cardinality(OutEnds(m))
                   ELSE Cardinality(OutEnds(m)) + 1
        BY <2>1, FS_AddElement, Zenon
      <4>. QED
        BY <2>1, <4>1
    <3>5. /\ Cardinality(OutEnds(m)') \in Nat /\ Cardinality(OutEnds(m) \cup {e}) \in Nat
          /\ Cardinality(OutEnds(m)') <= Cardinality(OutEnds(m) \cup {e})
      BY <3>3, <3>4, CountsShrink
    <3>. QED
      BY <2>1, <2>2, <2>3, <3>2, <3>4, <3>5, BoundsAssumption, DialersAssumption
  <2>5. CASE m # caller[c]
    <3>1. Dialling(m)' = Dialling(m)
      BY <1>1, <1>5, <2>5 DEF Dialling
    <3>2. OutEnds(m)' \subseteq OutEnds(m)
      BY <1>3, <1>8, <1>10, <2>5 DEF OutEnds, PeersOf, Inbound
    <3>3. Cardinality(OutEnds(m)') \in Nat /\ Cardinality(OutEnds(m)') <= Cardinality(OutEnds(m))
      BY <2>1, <3>2, CountsShrink
    <3>. QED
      BY <2>1, <2>2, <2>3, <3>1, <3>3, BoundsAssumption, DialersAssumption
  <2>. QED
    BY <2>4, <2>5
<1>12. CheckedInv'
  <2>1. \A f \in tracked' : Inbound(f) => /\ f \in tracked
                                          /\ Owner(f)' = Owner(f) /\ Remote(f)' = Remote(f)
    BY <1>3, <1>8, <1>10
  <2>2. tracked' \subseteq Ends
    BY <1>6 DEF Types
  <2>. QED
    BY <1>1, <2>1, <2>2, SameOwners, InboundKept
<1>13. PairsRecorded'
  <2>1. ASSUME NEW d \in Conns, Busy(d)'
        PROVE  Busy(d)
    <3>1. CASE d = c
      BY <1>1, <3>1 DEF Busy
    <3>2. CASE d # c
      <4>1. <<d, "out">> # e /\ <<d, "out">> \in Ends
        BY <3>2, EndForm DEF e
      <4>. QED
        BY <1>5, <1>9, <2>1, <3>2, <4>1 DEF Busy
    <3>. QED
      BY <3>1, <3>2
  <2>. QED
    BY <1>1, <2>1, SameOwners DEF IInv, LostInv, PairsRecorded
<1>14. ASSUME NEW f \in Ends, Live(f)', f \notin tracked', f \in tracked
       PROVE  ~Inbound(f) /\ f[1] \in twice
  <2>1. f # e /\ SameKey(e, f) /\ Live(f)
    BY <1>1, <1>9, <1>14
  <2>2. ~Inbound(f) /\ Owner(e) = Owner(f) /\ route[e[1]] = route[f[1]]
    BY <2>1 DEF SameKey
  <2>3. f = <<f[1], "out">> /\ f[1] \in Conns /\ f[1] # c
    BY <2>1, <2>2, EndForm DEF e
  <2>4. Busy(c) /\ Busy(f[1]) /\ SameRoute(f[1], c)
    BY <1>1, <1>3, <2>1, <2>2, <2>3, OwnerOf DEF Busy, SameRoute
  <2>. QED
    BY <2>2, <2>3, <2>4 DEF IInv, LostInv, PairsRecorded
<1>15. \A f \in Ends : Live(f)' /\ f \notin tracked' => f # e /\ Live(f)
  BY <1>1, <1>9
<1>16. LostOnlyIfDialledTwice'
  BY <1>1, <1>14, <1>15 DEF IInv, LostInv, LostOnlyIfDialledTwice
<1>17. LiveInboundTracked'
  BY <1>14, <1>15 DEF IInv, InboundInv, LiveInboundTracked, Inbound
<1>. QED
  BY <1>6, <1>7, <1>11, <1>12, <1>13, <1>16, <1>17 DEF IInv, InboundInv, LostInv

\* A single goroutine checks: no other connection to the node is checked.
LEMMA HandleInboundKeeps ==
  ASSUME IInv, NEW c \in Conns, HandleInbound(c)
  PROVE  IInv'
<1>. DEFINE n == Callee(c)
<1>1. /\ accept[c] = "queued"
      /\ \A d \in Conns : accept[d] = "checked" => Callee(d) # n
      /\ UNCHANGED <<dial, caller, route, reader, tracked, alive, twice>>
  BY DEF HandleInbound, endVars
<1>2. /\ accept' = [accept EXCEPT ![c] = "refused"]
         \/ /\ accept' = [accept EXCEPT ![c] = "checked"]
            /\ ~(InboundCount(n) >= MaxInbound)
            /\ ~IsConnectedByIP(n, caller[c])
  BY DEF HandleInbound
<1>3. Types /\ Types'
  BY <1>1, <1>2 DEF IInv, Types
<1>4. n \in Nodes /\ InboundCount(n) \in Nat
  BY <1>3, AddrsAssumption, CountsFinite DEF Types, Callee, InboundCount, InEnds
<1>5. \A d \in Conns : d # c => accept'[d] = accept[d]
  BY <1>2, <1>3 DEF Types
<1>6. accept'[c] \in {"refused", "checked"}
  BY <1>2, <1>3 DEF Types
<1>7. Begun'
  BY <1>1, <1>5, <1>6 DEF IInv, Begun, Dialled
<1>8. /\ \A e \in Ends : Owner(e)' = Owner(e) /\ Remote(e)' = Remote(e)
      /\ \A d \in Conns : Callee(d)' = Callee(d)
      /\ \A e \in Ends : Live(e)' <=> Live(e)
  BY <1>1, SameOwners DEF Live, Up
<1>9. \A e \in tracked : e \in Ends
  BY <1>3 DEF Types
<1>10. \A m \in Nodes : InboundCount(m)' = InboundCount(m) /\ OutEnds(m)' = OutEnds(m)
  BY <1>1, <1>8, <1>9 DEF InboundCount, OutEnds, PeersOf, Inbound
<1>11. OutboundInv'
  <2>1. \A m \in Nodes : Dialling(m)' = Dialling(m)
    BY <1>1 DEF Dialling
  <2>. QED
    BY <1>10, <2>1, OutboundKept
<1>12. LostInv'
  <2>1. \A d \in Conns : Busy(d)' => Busy(d)
    BY <1>1, <1>8, EndForm DEF Busy
  <2>. QED
    BY <1>1, <1>8, <2>1, LostKept
<1>13. LiveInboundTracked'
  BY <1>1, <1>8 DEF IInv, InboundInv, LiveInboundTracked, Inbound
<1>14. OneChecked'
  <2>. SUFFICES ASSUME NEW d \in Conns, NEW f \in Conns, accept'[d] = "checked",
                       accept'[f] = "checked", Callee(d) = Callee(f)
                PROVE  d = f
    BY <1>8 DEF OneChecked
  <2>. QED
    BY <1>1, <1>5 DEF IInv, InboundInv, CheckedInv, OneChecked
<1>15. CheckedFits'
  <2>. SUFFICES ASSUME NEW d \in Conns, accept'[d] = "checked"
                PROVE  /\ InboundCount(Callee(d))' < MaxInbound
                       /\ \A e \in tracked' : Inbound(e) /\ Owner(e)' = Callee(d)'
                                                  => Remote(e)' # caller'[d]
    BY DEF CheckedFits, Inbound
  <2>1. InboundCount(Callee(d))' = InboundCount(Callee(d))
    BY <1>1, <1>8, <1>9 DEF InboundCount, PeersOf, Inbound
  <2>2. CASE d = c
    <3>1. ~(InboundCount(n) >= MaxInbound) /\ ~IsConnectedByIP(n, caller[c])
      BY <1>2, <1>3, <2>2 DEF Types
    <3>2. \A e \in tracked : Owner(e) = n => Remote(e) # caller[c]
      BY <3>1 DEF IsConnectedByIP, PeersOf
    <3>. QED
      BY <1>1, <1>4, <1>8, <1>9, <2>1, <2>2, <3>1, <3>2, BoundsAssumption
  <2>3. CASE d # c
    <3>1. /\ InboundCount(Callee(d)) < MaxInbound
          /\ \A e \in tracked : Inbound(e) /\ Owner(e) = Callee(d) => Remote(e) # caller[d]
      BY <1>5, <2>3 DEF IInv, InboundInv, CheckedInv, CheckedFits
    <3>. QED
      BY <1>1, <1>8, <1>9, <2>1, <3>1
  <2>. QED
    BY <2>2, <2>3
<1>16. InboundFits'
  BY <1>10 DEF IInv, InboundInv, CheckedInv, InboundFits
<1>17. InboundDistinct'
  BY <1>1, <1>8, <1>9 DEF IInv, InboundInv, CheckedInv, InboundDistinct, Inbound
<1>. QED
  BY <1>3, <1>7, <1>11, <1>12, <1>13, <1>14, <1>15, <1>16, <1>17
     DEF IInv, InboundInv, CheckedInv

\* The peer is entered as it was checked.
LEMMA AcceptedKeeps ==
  ASSUME IInv, NEW c \in Conns, Accepted(c)
  PROVE  IInv'
<1>. DEFINE e == <<c, "in">>
            n == Callee(c)
<1>1. /\ accept[c] = "checked"
      /\ accept' = [accept EXCEPT ![c] = "accepted"]
      /\ reader' = [reader EXCEPT ![e] = "run"]
      /\ tracked' = {f \in tracked : ~SameKey(e, f)} \cup {e}
      /\ UNCHANGED <<dial, caller, route, alive, twice>>
  BY DEF Accepted, NewPeer
<1>2. Types
  BY DEF IInv
<1>3. e \in Ends /\ Inbound(e) /\ e[1] = c /\ Owner(e) = n /\ Remote(e) = caller[c]
  BY EndForm, OwnerOf DEF Inbound
<1>4. tracked' = tracked \cup {e} /\ e \notin tracked
  <2>1. \A f \in tracked : SameKey(e, f) => f = e
    BY <1>3 DEF SameKey
  <2>2. reader[e] = "none"
    BY <1>1 DEF IInv, Begun
  <2>. QED
    BY <1>1, <2>1, <2>2 DEF IInv, Begun
<1>5. /\ accept'[c] = "accepted" /\ reader'[e] = "run"
      /\ \A d \in Conns : d # c => accept'[d] = accept[d]
      /\ \A f \in Ends : f # e => reader'[f] = reader[f]
  BY <1>1, <1>2, <1>3 DEF Types
<1>6. Types'
  BY <1>1, <1>2, <1>3 DEF Types
<1>7. Begun'
  <2>1. \A d \in Conns : <<d, "out">> # e /\ <<d, "out">> \in Ends
    BY EndForm
  <2>2. \A d \in Conns : d # c => <<d, "in">> # e /\ <<d, "in">> \in Ends
    BY EndForm
  <2>3. \A d \in Conns : reader'[<<d, "out">>] # "none" => dial'[d] = "done"
    BY <1>1, <1>5, <2>1 DEF IInv, Begun
  <2>4. \A d \in Conns : reader'[<<d, "in">>] # "none" => accept'[d] = "accepted"
    BY <1>5, <2>2 DEF IInv, Begun
  <2>5. \A d \in Conns : accept'[d] # "none" => dial'[d] \in Dialled
    BY <1>1, <1>5 DEF IInv, Begun
  <2>6. \A f \in tracked' : reader'[f] # "none"
    BY <1>2, <1>4, <1>5 DEF IInv, Begun, Types
  <2>. QED
    BY <2>3, <2>4, <2>5, <2>6 DEF Begun
<1>8. /\ \A f \in Ends : Owner(f)' = Owner(f) /\ Remote(f)' = Remote(f)
      /\ \A d \in Conns : Callee(d)' = Callee(d)
      /\ \A f \in tracked : f \in Ends
  BY <1>1, <1>2, SameOwners DEF Types
<1>9. \A f \in Ends : f # e => (Live(f)' <=> Live(f))
  BY <1>1, <1>5, <1>8 DEF Live, Up
<1>. HIDE DEF e
<1>10. OutboundInv'
  <2>1. \A m \in Nodes : Dialling(m)' = Dialling(m)
    BY <1>1 DEF Dialling
  <2>2. \A m \in Nodes : OutEnds(m)' \subseteq OutEnds(m)
    BY <1>3, <1>4, <1>8 DEF OutEnds, PeersOf, Inbound
  <2>. QED
    BY <2>1, <2>2, OutboundKept
<1>11. LostInv'
  <2>1. \A d \in Conns : Busy(d)' => Busy(d)
    <3>1. \A d \in Conns : <<d, "out">> # e /\ <<d, "out">> \in Ends
      BY EndForm DEF e
    <3>. QED
      BY <1>1, <1>9, <3>1 DEF Busy
  <2>2. \A f \in Ends : Live(f)' /\ f \notin tracked' => Live(f) /\ f \notin tracked
    BY <1>4, <1>9
  <2>. QED
    BY <1>1, <2>1, <2>2, LostKept
<1>12. LiveInboundTracked'
  BY <1>4, <1>9 DEF IInv, InboundInv, LiveInboundTracked, Inbound
<1>13. OneChecked'
  BY <1>5, <1>8 DEF IInv, InboundInv, CheckedInv, OneChecked
<1>14. /\ InboundCount(n) < MaxInbound
       /\ \A f \in tracked : Inbound(f) /\ Owner(f) = n => Remote(f) # caller[c]
  BY <1>1 DEF IInv, InboundInv, CheckedInv, CheckedFits
<1>15. CheckedFits'
  <2>. SUFFICES ASSUME NEW d \in Conns, accept'[d] = "checked"
                PROVE  /\ InboundCount(Callee(d))' < MaxInbound
                       /\ \A f \in tracked' : Inbound(f) /\ Owner(f)' = Callee(d)'
                                                  => Remote(f)' # caller'[d]
    BY DEF CheckedFits, Inbound
  <2>1. d # c /\ accept[d] = "checked"
    BY <1>5
  <2>2. Callee(d) # n
    BY <1>1, <2>1 DEF IInv, InboundInv, CheckedInv, OneChecked
  <2>3. InboundCount(Callee(d))' = InboundCount(Callee(d))
    <3>1. {f \in tracked' : Owner(f)' = Callee(d) /\ Inbound(f)}
              = {f \in tracked : Owner(f) = Callee(d) /\ Inbound(f)}
      BY <1>3, <1>4, <1>8, <2>2
    <3>2. {f \in PeersOf(Callee(d)) : Inbound(f)}
              = {f \in tracked : Owner(f) = Callee(d) /\ Inbound(f)}
      BY DEF PeersOf
    <3>3. InboundCount(Callee(d))'
              = Cardinality({f \in tracked' : Owner(f)' = Callee(d) /\ Inbound(f)})
      BY <1>8 DEF InboundCount, PeersOf, Inbound
    <3>. QED
      BY <3>1, <3>2, <3>3 DEF InboundCount
  <2>4. /\ InboundCount(Callee(d)) < MaxInbound
        /\ \A f \in tracked : Inbound(f) /\ Owner(f) = Callee(d) => Remote(f) # caller[d]
    BY <2>1 DEF IInv, InboundInv, CheckedInv, CheckedFits
  <2>. QED
    BY <1>1, <1>3, <1>4, <1>8, <2>2, <2>3, <2>4
<1>16. InboundFits'
  <2>. SUFFICES ASSUME NEW m \in Nodes PROVE InboundCount(m)' <= MaxInbound
    BY DEF InboundFits
  <2>1. /\ IsFiniteSet(InEnds(m)) /\ Cardinality(InEnds(m)) \in Nat
        /\ InboundCount(m)' = Cardinality(InEnds(m)')
        /\ InboundCount(m) = Cardinality(InEnds(m))
    BY <1>2, CountsFinite DEF InboundCount, InEnds
  <2>2. CASE m = n
    <3>1. InEnds(m)' = InEnds(m) \cup {e} /\ e \notin InEnds(m)
      BY <1>3, <1>4, <1>8, <2>2 DEF InEnds, PeersOf, Inbound
    <3>2. Cardinality(InEnds(m)') = Cardinality(InEnds(m)) + 1
      BY <2>1, <3>1, FS_AddElement
    <3>. QED
      BY <1>14, <2>1, <2>2, <3>2, BoundsAssumption
  <2>3. CASE m # n
    <3>1. InEnds(m)' = InEnds(m)
      BY <1>3, <1>4, <1>8, <2>3 DEF InEnds, PeersOf, Inbound
    <3>. QED
      BY <2>1, <3>1 DEF IInv, InboundInv, CheckedInv, InboundFits
  <2>. QED
    BY <2>2, <2>3
<1>17. InboundDistinct'
  <2>. SUFFICES ASSUME NEW f \in tracked', NEW g \in tracked', Inbound(f), Inbound(g),
                       Owner(f)' = Owner(g)', Remote(f)' = Remote(g)'
                PROVE  f = g
    BY DEF InboundDistinct, Inbound
  <2>1. CASE f # e /\ g # e
    BY <1>4, <1>8, <2>1 DEF IInv, InboundInv, CheckedInv, InboundDistinct
  <2>2. CASE f = e /\ g # e
    BY <1>3, <1>4, <1>8, <1>14, <2>2
  <2>3. CASE f # e /\ g = e
    BY <1>3, <1>4, <1>8, <1>14, <2>3
  <2>. QED
    BY <2>1, <2>2, <2>3
<1>. QED
  BY <1>6, <1>7, <1>10, <1>11, <1>12, <1>13, <1>15, <1>16, <1>17
     DEF IInv, InboundInv, CheckedInv
-----------------------------------------------------------------------------
(* The theorems                                                            *)

LEMMA InitHolds == Init => IInv
<1>. SUFFICES ASSUME Init PROVE IInv
  OBVIOUS
<1>1. /\ \A c \in Conns : dial[c] = "unused" /\ accept[c] = "none"
      /\ \A e \in Ends : reader[e] = "none"
      /\ tracked = {} /\ twice = {}
  BY DEF Init
<1>2. Types
  <2>1. (CHOOSE n \in Nodes : TRUE) \in Nodes /\ (CHOOSE a \in Addrs : TRUE) \in Addrs
    BY AddrsAssumption
  <2>. QED
    BY <2>1 DEF Init, Types
<1>3. Begun
  BY <1>1, EndForm DEF Begun
<1>4. \A n : PeersOf(n) = {} /\ Dialling(n) = {}
  BY <1>1 DEF PeersOf, Dialling
<1>5. \A n : OutboundCount(n) = 0 /\ InboundCount(n) = 0 /\ Cardinality(Dialling(n)) = 0
  <2>. SUFFICES ASSUME NEW n
                PROVE  /\ OutboundCount(n) = 0 /\ InboundCount(n) = 0
                       /\ Cardinality(Dialling(n)) = 0
    OBVIOUS
  <2>1. /\ {e \in PeersOf(n) : ~Inbound(e)} = {} /\ {e \in PeersOf(n) : Inbound(e)} = {}
        /\ Dialling(n) = {}
    BY <1>4
  <2>. QED
    BY <2>1, FS_EmptySet DEF OutboundCount, InboundCount
<1>6. OutboundInv
  BY <1>5, BoundsAssumption, DialersAssumption DEF OutboundInv, OutboundBounded
<1>7. \A e \in Ends : ~Live(e)
  BY <1>1 DEF Live
<1>8. LostInv
  <2>1. \A c \in Conns : ~Busy(c)
    BY <1>1, <1>7, EndForm DEF Busy
  <2>. QED
    BY <1>7, <2>1 DEF LostInv, PairsRecorded, LostOnlyIfDialledTwice
<1>9. InboundInv
  BY <1>1, <1>5, <1>7, BoundsAssumption
     DEF InboundInv, CheckedInv, LiveInboundTracked, OneChecked, CheckedFits, InboundFits,
         InboundDistinct
<1>. QED
  BY <1>2, <1>3, <1>6, <1>8, <1>9 DEF IInv

LEMMA NextKeeps == IInv /\ [Next]_vars => IInv'
<1>. SUFFICES ASSUME IInv, [Next]_vars PROVE IInv'
  OBVIOUS
<1>1. Types
  BY DEF IInv
<1>2. ASSUME NEW c \in Conns, NEW d \in Dials, Connect(d[1], d[2], c)
      PROVE  IInv'
  <2>1. <<d[1], d[2]>> \in Dials
    BY AddrsAssumption
  <2>. QED
    BY <1>2, <2>1, ConnectKeeps
<1>3. ASSUME NEW c \in Conns,
             Answer(c) \/ DialFails(c) \/ Connected(c) \/ HandleInbound(c) \/ Accepted(c)
      PROVE  IInv'
  BY <1>3, DialKeeps, ConnectedKeeps, HandleInboundKeeps, AcceptedKeeps
<1>4. ASSUME NEW e \in Ends, ReaderEnds(e) \/ Spam(e)
      PROVE  IInv'
  <2>1. Deletes(e)
    BY <1>4 DEF ReaderEnds, Spam, Deletes, Live, Reading, connVars
  <2>. QED
    BY <2>1, DeletesKeeps
<1>5. ASSUME NEW e \in Ends,
             \/ HandleVersion(e) \/ StoreVersion(e) \/ Greet(e) \/ HandleVersionAck(e)
             \/ HandlePing(e) \/ HandlePong(e) \/ Malformed(e) \/ WriteFails(e) \/ Ping(e)
      PROVE  IInv'
  <2>1. Quiet
    BY <1>1, <1>5, QuietSteps
  <2>. QED
    BY <2>1, QuietKeeps
<1>6. ASSUME NEW n \in Nodes, Vanish(n)
      PROVE  IInv'
  BY <1>1, <1>6, VanishQuiet, QuietKeeps
<1>7. CASE UNCHANGED vars
  <2>1. UNCHANGED <<dial, caller, route, accept, tracked, twice, reader, alive>>
    BY <1>7 DEF vars, connVars, endVars
  <2>2. \A e \in Ends : Live(e)' <=> Live(e)
    BY <2>1, SameOwners DEF Live, Up
  <2>3. Quiet
    BY <1>1, <2>1, <2>2 DEF Quiet, Types, ReaderStates
  <2>. QED
    BY <2>3, QuietKeeps
<1>. QED
  BY <1>2, <1>3, <1>4, <1>5, <1>6, <1>7 DEF Next, ReaderStep

LEMMA Invariance == Spec => []IInv
<1>. QED
  BY InitHolds, NextKeeps, PTL DEF Spec

LEMMA LiveInboundFit == IInv => InboundBounded
<1>. SUFFICES ASSUME IInv, NEW n \in Nodes
              PROVE  LET live == {e \in Ends : Inbound(e) /\ Live(e) /\ Owner(e) = n}
                     IN /\ live \subseteq tracked
                        /\ Cardinality(live) <= MaxInbound
                        /\ \A e, f \in live : Remote(e) = Remote(f) => e = f
  BY DEF InboundBounded
<1>. DEFINE live == {e \in Ends : Inbound(e) /\ Live(e) /\ Owner(e) = n}
<1>1. live \subseteq tracked /\ live \subseteq InEnds(n)
  BY DEF IInv, InboundInv, LiveInboundTracked, InEnds, PeersOf
<1>2. IsFiniteSet(InEnds(n))
  BY CountsFinite DEF IInv
<1>3. /\ Cardinality(live) \in Nat /\ Cardinality(InEnds(n)) \in Nat
      /\ Cardinality(live) <= Cardinality(InEnds(n))
  BY <1>1, <1>2, CountsShrink
<1>4. Cardinality(InEnds(n)) <= MaxInbound
  BY DEF IInv, InboundInv, CheckedInv, InboundFits, InboundCount, InEnds
<1>5. Cardinality(live) <= MaxInbound
  BY <1>3, <1>4, BoundsAssumption
<1>6. \A e, f \in live : Remote(e) = Remote(f) => e = f
  BY <1>1 DEF IInv, InboundInv, CheckedInv, InboundDistinct
<1>. QED
  BY <1>1, <1>5, <1>6

\* The accepted connections that are read are in the map, within the limit and
\* of different machines: HandleInbound checks and enters in two steps, of one
\* goroutine.
THEOREM InboundBoundedCorrect == Spec => []InboundBounded
<1>. QED
  BY Invariance, LiveInboundFit, PTL

\* The limit of outbound peers that Connect checks before it dials is overrun
\* by one for each further goroutine of the node that dials, and no more.
THEOREM OutboundBoundedCorrect == Spec => []OutboundBounded
<1>1. IInv => OutboundBounded
  BY DEF IInv, OutboundInv
<1>. QED
  BY <1>1, Invariance, PTL

\* The map loses a connection that is still read only to another that was
\* dialled to the same address: Connect does not look at the dials under way,
\* and handleDisconnect deletes by address.
THEOREM LostOnlyIfDialledTwiceCorrect == Spec => []LostOnlyIfDialledTwice
<1>1. IInv => LostOnlyIfDialledTwice
  BY DEF IInv, LostInv
<1>. QED
  BY <1>1, Invariance, PTL
=============================================================================
