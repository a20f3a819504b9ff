------------------------------- MODULE Peers -------------------------------
(***************************************************************************)
(* The connections of a PeerManager: who dials whom, the handshake by      *)
(* version and verack, the dropping of second connections to the same      *)
(* node, pings, bans, and the map of peers that all of this is judged by.  *)
(*                                                                         *)
(* A connection has an end on the node that dialled ("out") and one on the *)
(* node that accepted ("in"): an end is the Peer object of that node. Its  *)
(* goroutines are a reader, a writer and a pinger.  The dialling runs in   *)
(* several goroutines at a time (bootstrap, the maintenance loop, the API);*)
(* accepted connections go through one.                                    *)
(*                                                                         *)
(* A queue holds what an end sent and the other has not read: the buffer   *)
(* sendCh, never full here, and the TCP stream behind it. Messages other   *)
(* than those of the handshake and the pings do not change what is         *)
(* modelled.  The address book is in AddrBook, the sync in Sync.           *)
(***************************************************************************)
EXTENDS Integers, Sequences, FiniteSets

CONSTANTS
    Nodes,
    Nonce,         \* pm.nonce, drawn at random
    Addrs,         \* addresses that can be dialled
    NodeAt,        \* the node that listens at an address
    Named,         \* addresses whose host is a name, not the node's IP
    Dials,         \* <<n, addr>>: node n learns of addr
    Rogues,        \* nodes that may send malformed messages, too many, or an old version
    Conns,         \* bound: connections that are tried
    MaxDialers,    \* goroutines of a node that call Connect at a time
    MaxOutbound, MaxInbound,
    BanThreshold,
    MaxTroubles    \* bound: penalties and lost machines

ASSUME DialersAssumption == MaxDialers \in [Nodes -> Nat \ {0}]
ASSUME NonceAssumption == /\ Nonce \in [Nodes -> Nat]
                          /\ \A m, n \in Nodes : Nonce[m] = Nonce[n] => m = n
ASSUME AddrsAssumption == /\ Addrs # {}
                          /\ NodeAt \in [Addrs -> Nodes]
                          /\ Named \subseteq Addrs
                          /\ Dials \subseteq Nodes \X Addrs
                          /\ Rogues \subseteq Nodes
ASSUME BoundsAssumption == /\ Conns \subseteq Nat /\ IsFiniteSet(Conns)
                           /\ MaxOutbound \in Nat \ {0}
                           /\ MaxInbound \in Nat \ {0}
                           /\ BanThreshold \in Nat \ {0}
                           /\ MaxTroubles \in Nat

VARIABLES
    dial,      \* per connection: where the call to Connect stands
    caller,    \* the node that dials, and
    route,     \* the address it dials
    accept,    \* where the accepting node stands with it
    state,     \* peer.State of an end
    stopped,   \* the end's stopCh and socket are closed
    reader,    \* what an end's readLoop does between two messages
    known,     \* peer.Nonce is set: the end has stored the other's version
    pinging,   \* peer.PingPending
    unsent,    \* the end's writeLoop has a message for a closed socket
    queue,     \* messages for an end that it has not read
    tracked,   \* the ends in their node's map pm.peers
    score,     \* peer.misbehaviorScore
    banned,    \* <<n, host>>: pm.banned of n has an entry for host
    alive,     \* "up", "panicked" or "vanished"
    troubles,
    twice      \* history: connections dialled while their address was being dialled,
               \* or was that of a connection missing from the map

connVars == <<dial, caller, route, accept>>
endVars == <<state, stopped, reader, known, pinging, unsent, queue, score>>
vars == <<connVars, endVars, tracked, banned, alive, troubles, twice>>

Ends == Conns \X {"out", "in"}

Far(e) == <<e[1], IF e[2] = "out" THEN "in" ELSE "out">>

Inbound(e) == e[2] = "in"

Callee(c) == NodeAt[route[c]]

Owner(e) == IF Inbound(e) THEN Callee(e[1]) ELSE caller[e[1]]

Remote(e) == Owner(Far(e))

Messages == {"version", "verack", "ping", "pong"}

TypeOK ==
    /\ dial \in [Conns -> {"unused", "dialling", "answered", "done", "failed"}]
    /\ caller \in [Conns -> Nodes]
    /\ route \in [Conns -> Addrs]
    /\ accept \in [Conns -> {"none", "queued", "checked", "accepted", "refused"}]
    /\ state \in [Ends -> {"none", "connected", "handshaking", "active", "disconnected"}]
    /\ stopped \in [Ends -> BOOLEAN]
    /\ reader \in [Ends -> {"none", "run", "checked", "greet", "greetAgain", "gone"}]
    /\ known \in [Ends -> BOOLEAN]
    /\ pinging \in [Ends -> BOOLEAN]
    /\ unsent \in [Ends -> BOOLEAN]
    /\ queue \in [Ends -> Seq(Messages)]
    /\ tracked \in SUBSET Ends
    /\ score \in [Ends -> Nat]
    /\ banned \in SUBSET (Nodes \X (Nodes \cup Named))
    /\ alive \in [Nodes -> {"up", "panicked", "vanished"}]
    /\ troubles \in 0..MaxTroubles
    /\ twice \in SUBSET Conns

Init ==
    /\ dial = [c \in Conns |-> "unused"]
    /\ caller = [c \in Conns |-> CHOOSE n \in Nodes : TRUE]
    /\ route = [c \in Conns |-> CHOOSE a \in Addrs : TRUE]
    /\ accept = [c \in Conns |-> "none"]
    /\ state = [e \in Ends |-> "none"]
    /\ stopped = [e \in Ends |-> FALSE]
    /\ reader = [e \in Ends |-> "none"]
    /\ known = [e \in Ends |-> FALSE]
    /\ pinging = [e \in Ends |-> FALSE]
    /\ unsent = [e \in Ends |-> FALSE]
    /\ queue = [e \in Ends |-> <<>>]
    /\ tracked = {}
    /\ score = [e \in Ends |-> 0]
    /\ banned = {}
    /\ alive = [n \in Nodes |-> "up"]
    /\ troubles = 0
    /\ twice = {}
-----------------------------------------------------------------------------
(* The map of peers, and what is asked of it                               *)

Host(addr) == IF addr \in Named THEN addr ELSE NodeAt[addr]

PeerHost(e) == IF Inbound(e) THEN Remote(e) ELSE Host(route[e[1]])

\* Faulty: the key has no port.
SameKeyHostOnly(e, f) == Owner(e) = Owner(f) /\ PeerHost(e) = PeerHost(f)

\* pm.peers is keyed by the address dialled, or by the remote address of an
\* accepted connection, whose port is that connection's own.
SameKey(e, f) ==
    /\ Owner(e) = Owner(f)
    /\ e = f \/ (~Inbound(e) /\ ~Inbound(f) /\ route[e[1]] = route[f[1]])

PeersOf(n) == {e \in tracked : Owner(e) = n}

IsConnected(n, addr) == \E e \in PeersOf(n) : ~Inbound(e) /\ route[e[1]] = addr

\* Every node listens on the same port; a peer's is known with its version.
IsConnectedByListenPort(n, addr) ==
    \E e \in PeersOf(n) : known[e] /\ PeerHost(e) = Host(addr)

IsConnectedByIP(n, m) == \E e \in PeersOf(n) : Remote(e) = m

PeersByNonce(n, m) == {e \in PeersOf(n) : known[e] /\ Remote(e) = m}

OutboundCount(n) == Cardinality({e \in PeersOf(n) : ~Inbound(e)})

InboundCount(n) == Cardinality({e \in PeersOf(n) : Inbound(e)})

\* A ban by the name a node was dialled by holds for that name only.
IsBanned(n, host) == <<n, host>> \in banned
-----------------------------------------------------------------------------
(* An end                                                                  *)

Up(e) == alive[Owner(e)] = "up"

Live(e) == Up(e) /\ reader[e] \notin {"none", "gone"}

\* The socket of e is closed, as the other end sees it.
Closed(e) ==
    \/ stopped[e]
    \/ alive[Owner(e)] = "panicked"
    \/ Inbound(e) /\ accept[e[1]] = "refused"

\* Peer.Send of ms by an end in state s, on queues q.  What is sent to an end
\* whose reader is gone is never read.
Send(e, s, ms, q) ==
    LET lost == stopped[e] \/ Closed(Far(e))
    IN /\ unsent' = [unsent EXCEPT ![e] = @ \/ (s # "disconnected" /\ lost)]
       /\ queue' = IF s = "disconnected" \/ lost \/ reader[Far(e)] = "gone" THEN q
                   ELSE [q EXCEPT ![Far(e)] = @ \o ms]

\* Peer.Stop.  An end whose state was overwritten after it was stopped closes
\* its channel again, and the process dies.
Stop(e, q) ==
    \/ /\ state[e] = "disconnected"
       /\ queue' = q
       /\ UNCHANGED <<state, stopped, alive>>
    \/ /\ state[e] # "disconnected"
       /\ ~stopped[e]
       /\ state' = [state EXCEPT ![e] = "disconnected"]
       /\ stopped' = [stopped EXCEPT ![e] = TRUE]
       /\ queue' = [q EXCEPT ![e] = <<>>]
       /\ UNCHANGED alive
    \/ /\ state[e] # "disconnected"
       /\ stopped[e]
       /\ alive' = [alive EXCEPT ![Owner(e)] = "panicked"]
       /\ queue' = q
       /\ UNCHANGED <<state, stopped>>

\* NewPeer, entered in the map under its key, and Start.
NewPeer(e, s) ==
    /\ state' = [state EXCEPT ![e] = s]
    /\ reader' = [reader EXCEPT ![e] = "run"]
    /\ tracked' = {f \in tracked : ~SameKey(e, f)} \cup {e}

\* handleDisconnect deletes what is in the map under the key of e, and leaves
\* the socket as it is.
ReaderGone(e) ==
    /\ reader' = [reader EXCEPT ![e] = "gone"]
    /\ tracked' = {f \in tracked : ~SameKey(e, f)}
-----------------------------------------------------------------------------
(* Connecting                                                              *)

Dialling(n) == {c \in Conns : caller[c] = n /\ dial[c] \in {"dialling", "answered"}}

\* Faulty: one more than the limit.
MayConnectOneMore(n, addr) ==
    /\ ~IsConnected(n, addr)
    /\ ~IsConnectedByListenPort(n, addr)
    /\ ~IsBanned(n, Host(addr))
    /\ OutboundCount(n) <= MaxOutbound

\* The addresses being dialled are not looked at.  isOwnAddress knows
\* localhost and 0.0.0.0, which no address here is.
MayConnect(n, addr) ==
    /\ ~IsConnected(n, addr)
    /\ ~IsConnectedByListenPort(n, addr)
    /\ ~IsBanned(n, Host(addr))
    /\ OutboundCount(n) < MaxOutbound

\* Connections are numbered in the order they are dialled.
Connect(n, addr, c) ==
    /\ alive[n] = "up"
    /\ \A d \in Conns : (dial[d] = "unused") <=> (d >= c)
    /\ Cardinality(Dialling(n)) < MaxDialers[n]
    /\ MayConnect(n, addr)
    /\ dial' = [dial EXCEPT ![c] = "dialling"]
    /\ caller' = [caller EXCEPT ![c] = n]
    /\ route' = [route EXCEPT ![c] = addr]
    /\ LET same == {d \in Conns : /\ caller[d] = n /\ route[d] = addr
                                  /\ \/ d \in Dialling(n)
                                     \/ Live(<<d, "out">>) /\ <<d, "out">> \notin tracked}
       IN twice' = IF same = {} THEN twice ELSE twice \cup same \cup {c}
    /\ UNCHANGED <<accept, endVars, tracked, banned, alive, troubles>>

\* net.DialTimeout: the kernel of the callee answers,
Answer(c) ==
    /\ dial[c] = "dialling"
    /\ alive[caller[c]] = "up"
    /\ alive[Callee(c)] = "up"
    /\ dial' = [dial EXCEPT ![c] = "answered"]
    /\ accept' = [accept EXCEPT ![c] = "queued"]
    /\ UNCHANGED <<caller, route, endVars, tracked, banned, alive, troubles, twice>>

\* or the dial is refused or times out.
DialFails(c) ==
    /\ dial[c] = "dialling"
    /\ alive[caller[c]] = "up"
    /\ dial' = [dial EXCEPT ![c] = "failed"]
    /\ UNCHANGED <<caller, route, accept, endVars, tracked, banned, alive, troubles, twice>>

Connected(c) ==
    /\ dial[c] = "answered"
    /\ alive[caller[c]] = "up"
    /\ dial' = [dial EXCEPT ![c] = "done"]
    /\ NewPeer(<<c, "out">>, "handshaking")
    /\ Send(<<c, "out">>, "handshaking", <<"version">>, queue)
    /\ UNCHANGED <<caller, route, accept, stopped, known, pinging, score, banned, alive,
                   troubles, twice>>

\* Faulty: a goroutine for every connection.
HandleInboundSpawned(c) ==
    LET n == Callee(c)
    IN /\ accept[c] = "queued"
       /\ alive[n] = "up"
       /\ accept' = [accept EXCEPT ![c] =
              IF \/ IsBanned(n, caller[c])
                 \/ InboundCount(n) >= MaxInbound
                 \/ IsConnectedByIP(n, caller[c])
              THEN "refused" ELSE "checked"]
       /\ UNCHANGED <<dial, caller, route, endVars, tracked, banned, alive, troubles, twice>>

\* acceptConnections calls HandleInbound for one connection after the other.
HandleInbound(c) ==
    LET n == Callee(c)
    IN /\ accept[c] = "queued"
       /\ alive[n] = "up"
       /\ \A d \in Conns : accept[d] = "checked" => Callee(d) # n
       /\ accept' = [accept EXCEPT ![c] =
              IF \/ IsBanned(n, caller[c])
                 \/ InboundCount(n) >= MaxInbound
                 \/ IsConnectedByIP(n, caller[c])
              THEN "refused" ELSE "checked"]
       /\ UNCHANGED <<dial, caller, route, endVars, tracked, banned, alive, troubles, twice>>

Accepted(c) ==
    /\ accept[c] = "checked"
    /\ alive[Callee(c)] = "up"
    /\ accept' = [accept EXCEPT ![c] = "accepted"]
    /\ NewPeer(<<c, "in">>, "connected")
    /\ UNCHANGED <<dial, caller, route, stopped, known, pinging, unsent, queue, score,
                   banned, alive, troubles, twice>>
-----------------------------------------------------------------------------
(* The reader                                                              *)

Reading(e) == Up(e) /\ reader[e] = "run" /\ ~stopped[e]

Receives(e, type) == Reading(e) /\ queue[e] # <<>> /\ Head(queue[e]) = type

Rest(e) == [queue EXCEPT ![e] = Tail(@)]

\* A connection to oneself or to a node of an older protocol is dropped; of two to
\* the same node, this one or the other, and then this one gets no answer.
\* Nothing is stored yet.
HandleVersion(e) ==
    LET n    == Owner(e)
        same == PeersByNonce(n, Remote(e))
    IN /\ Receives(e, "version")
       /\ \/ /\ \/ Remote(e) = n
                \/ same # {} /\ Nonce[n] > Nonce[Remote(e)]
                \/ same = {} /\ Remote(e) \in Rogues
             /\ Stop(e, Rest(e))
             /\ UNCHANGED reader
          \/ /\ Remote(e) # n /\ Nonce[n] < Nonce[Remote(e)]
             /\ \E f \in same : Stop(f, Rest(e))
             /\ UNCHANGED reader
          \/ /\ Remote(e) # n /\ same = {}
             /\ reader' = [reader EXCEPT ![e] = "checked"]
             /\ queue' = Rest(e)
             /\ UNCHANGED <<state, stopped, alive>>
       /\ UNCHANGED <<connVars, known, pinging, unsent, score, tracked, banned, troubles, twice>>

StoreVersion(e) ==
    /\ Up(e)
    /\ reader[e] = "checked"
    /\ known' = [known EXCEPT ![e] = TRUE]
    /\ reader' = [reader EXCEPT ![e] =
           IF state[e] = "handshaking" THEN "greet" ELSE "greetAgain"]
    /\ UNCHANGED <<connVars, state, stopped, pinging, unsent, queue, score, tracked, banned,
                   alive, troubles, twice>>

\* The version (by the end that accepted) and the verack are sent; the state
\* becomes handshaking whatever it was, unless it was before.
Greet(e) ==
    LET sends == IF Inbound(e) THEN "handshaking" ELSE state[e]
    IN /\ Up(e)
       /\ reader[e] \in {"greet", "greetAgain"}
       /\ state' = [state EXCEPT ![e] =
              IF reader[e] = "greetAgain" THEN "handshaking" ELSE sends]
       /\ Send(e, sends, IF Inbound(e) THEN <<"version", "verack">> ELSE <<"verack">>, queue)
       /\ reader' = [reader EXCEPT ![e] = "run"]
       /\ UNCHANGED <<connVars, stopped, known, pinging, score, tracked, banned, alive,
                      troubles, twice>>

HandleVersionAck(e) ==
    /\ Receives(e, "verack")
    /\ queue' = Rest(e)
    /\ state' = [state EXCEPT ![e] = IF @ = "handshaking" THEN "active" ELSE @]
    /\ UNCHANGED <<connVars, stopped, reader, known, pinging, unsent, score, tracked, banned,
                   alive, troubles, twice>>

\* Other messages are ignored unless the handshake is complete.
HandlePing(e) ==
    /\ Receives(e, "ping")
    /\ Send(e, IF state[e] = "active" THEN "active" ELSE "disconnected", <<"pong">>, Rest(e))
    /\ UNCHANGED <<connVars, state, stopped, reader, known, pinging, score, tracked, banned,
                   alive, troubles, twice>>

HandlePong(e) ==
    /\ Receives(e, "pong")
    /\ queue' = Rest(e)
    /\ pinging' = [pinging EXCEPT ![e] = @ /\ state[e] # "active"]
    /\ UNCHANGED <<connVars, state, stopped, reader, known, unsent, score, tracked, banned,
                   alive, troubles, twice>>

\* The end was stopped, or the other end closed the connection.
ReaderEnds(e) ==
    /\ Up(e)
    /\ reader[e] = "run"
    /\ stopped[e] \/ (queue[e] = <<>> /\ Closed(Far(e)))
    /\ ReaderGone(e)
    /\ UNCHANGED <<connVars, state, stopped, known, pinging, unsent, queue, score, banned,
                   alive, troubles, twice>>

Trouble == troubles < MaxTroubles /\ troubles' = troubles + 1

\* AddMisbehavior bans the host.  Disconnect(host) then finds no peer, their
\* keys having a port.
Misbehaves(e, points) ==
    /\ score' = [score EXCEPT ![e] = @ + points]
    /\ banned' = IF score'[e] >= BanThreshold
                 THEN banned \cup {<<Owner(e), PeerHost(e)>>} ELSE banned

\* A line that is no message, or one too many in ten seconds, handshake or not.
Malformed(e) ==
    /\ Reading(e)
    /\ Remote(e) \in Rogues
    /\ Trouble
    /\ Misbehaves(e, 1)
    /\ UNCHANGED <<connVars, state, stopped, reader, known, pinging, unsent, queue, tracked,
                   alive, twice>>

Spam(e) ==
    /\ Reading(e)
    /\ Remote(e) \in Rogues
    /\ Trouble
    /\ Misbehaves(e, BanThreshold)
    /\ ReaderGone(e)
    /\ UNCHANGED <<connVars, state, stopped, known, pinging, unsent, queue, alive, twice>>
-----------------------------------------------------------------------------
(* The writer, the pinger and the machine                                  *)

WriteFails(e) ==
    /\ Up(e)
    /\ unsent[e]
    /\ Stop(e, queue)
    /\ unsent' = [unsent EXCEPT ![e] = FALSE]
    /\ UNCHANGED <<connVars, reader, known, pinging, score, tracked, banned, troubles, twice>>

\* Faulty: a ping that is unanswered is followed by another.
PingWithoutTimeout(e) ==
    /\ Up(e)
    /\ ~stopped[e]
    /\ state[e] = "active"
    /\ pinging' = [pinging EXCEPT ![e] = TRUE]
    /\ IF pinging[e] THEN UNCHANGED <<queue, unsent>> ELSE Send(e, "active", <<"ping">>, queue)
    /\ UNCHANGED <<connVars, state, stopped, reader, known, score, tracked, banned, alive,
                   troubles, twice>>

\* PingTimeout is shorter than PingInterval: a ping that is unanswered at the
\* next tick has timed out.
Ping(e) ==
    /\ Up(e)
    /\ ~stopped[e]
    /\ state[e] = "active"
    /\ IF pinging[e]
       THEN Stop(e, queue) /\ UNCHANGED <<pinging, unsent>>
       ELSE /\ pinging' = [pinging EXCEPT ![e] = TRUE]
            /\ Send(e, "active", <<"ping">>, queue)
            /\ UNCHANGED <<state, stopped, alive>>
    /\ UNCHANGED <<connVars, reader, known, score, tracked, banned, troubles, twice>>

Vanish(n) ==
    /\ alive[n] = "up"
    /\ Trouble
    /\ alive' = [alive EXCEPT ![n] = "vanished"]
    /\ UNCHANGED <<connVars, endVars, tracked, banned, twice>>
-----------------------------------------------------------------------------
ReaderStep(e) ==
    \/ HandleVersion(e) \/ StoreVersion(e) \/ Greet(e)
    \/ HandleVersionAck(e) \/ HandlePing(e) \/ HandlePong(e)
    \/ ReaderEnds(e)

Next ==
    \/ \E c \in Conns : \/ \E d \in Dials : Connect(d[1], d[2], c)
                        \/ Answer(c) \/ DialFails(c) \/ Connected(c)
                        \/ HandleInbound(c) \/ Accepted(c)
    \/ \E e \in Ends : ReaderStep(e) \/ Malformed(e) \/ Spam(e)
                       \/ WriteFails(e) \/ Ping(e)
    \/ \E n \in Nodes : Vanish(n)

\* The pinger's timer fires while it runs.
Ticks == \A e \in Ends : WF_vars(Ping(e))

\* The pings are all that OneSidedEnds needs: they are a timer's, and a side
\* that is read reads, or finds its connection closed, by itself.
Spec == Init /\ [][Next]_vars /\ Ticks
-----------------------------------------------------------------------------
(* Properties                                                              *)

\* A node's accepted connections that are being read are in its map, are at
\* most MaxInbound, and no two are from the same machine: the check and the
\* entry of HandleInbound are two steps, but of a single goroutine.
InboundBounded ==
    \A n \in Nodes :
        LET live == {e \in Ends : Inbound(e) /\ Live(e) /\ Owner(e) = n}
        IN /\ live \subseteq tracked
           /\ Cardinality(live) <= MaxInbound
           /\ \A e, f \in live : Remote(e) = Remote(f) => e = f

\* Connect counts the outbound peers before it dials: each goroutine that
\* dials can take the node one beyond MaxOutbound, and none further.
OutboundBounded ==
    \A n \in Nodes :
        OutboundCount(n) + Cardinality(Dialling(n)) <= MaxOutbound + MaxDialers[n] - 1

\* A connection that is being read but is not in the map, so that no broadcast
\* and no limit sees it, shares its key with another one: Connect can be called
\* for an address while it is being dialled, and the first of the two that goes
\* deletes the other's entry.
LostOnlyIfDialledTwice ==
    \A e \in Ends : Live(e) /\ e \notin tracked => e[1] \in twice

\* An end that takes the handshake for complete while the other does not, for
\* whatever reason, does not stay so: its pings get no answer.
OneSidedEnds ==
    \A e \in Ends :
        (Up(e) /\ state[e] = "active" /\ state[Far(e)] # "active")
            ~> (~Up(e) \/ state[e] # "active" \/ state[Far(e)] = "active")
=============================================================================
