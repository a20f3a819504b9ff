------------------------------- MODULE Census -------------------------------
(***************************************************************************)
(* The census.  Every node announces itself every 5 minutes; a node keeps  *)
(* the last announcement of every other, passes each on once, forgets what *)
(* is older than 30 minutes, and sends all it has to a peer it meets.      *)
(*                                                                         *)
(* Time is in half-hours.  A node's state lasts as long as its process.    *)
(***************************************************************************)
EXTENDS Network, Integers, Sequences, SequencesExt

CONSTANTS
    MaxAnnouncements,  \* that a node keeps: 10000
    TTL,               \* of a new announcement: 3
    FanOut,            \* peers that one is passed on to: 3
    MaxTime,           \* bound: the clock
    MaxEmitted,        \* bound: announcements
    MaxMeetings        \* bound: connections that are made again

\* Assumed where the module is used.
Constants ==
    /\ MaxAnnouncements \in Nat /\ TTL \in Nat \ {0} /\ FanOut \in Nat \ {0}
    /\ MaxTime \in Nat /\ MaxEmitted \in Nat /\ MaxMeetings \in Nat

VARIABLES
    clock,
    announcements, \* cm.announcements
    seen,          \* cm.seen
    link,          \* announcements under way between two peers
    emitted, meetings,
    newest         \* history: of a node, the last announcement that was kept

vars == <<clock, announcements, seen, link, emitted, meetings, newest>>

Times == 0..MaxTime

NodeAnnounceMsg == [node : Nodes, time : Times, ttl : 1..TTL]

TypeOK ==
    /\ clock \in Times
    /\ announcements \in [Nodes -> SUBSET NodeAnnounceMsg]
    /\ seen \in [Nodes -> SUBSET (Nodes \X Times)]
    /\ link \in [Links -> Seq(NodeAnnounceMsg)]
    /\ emitted \in 0..MaxEmitted
    /\ meetings \in 0..MaxMeetings
    /\ newest \in [Nodes -> [Nodes -> Times \cup {-1}]]

Init ==
    /\ clock = 0
    /\ announcements = [n \in Nodes |-> {}]
    /\ seen = [n \in Nodes |-> {}]
    /\ link = [l \in Links |-> <<>>]
    /\ emitted = 0
    /\ meetings = 0
    /\ newest = [n \in Nodes |-> [m \in Nodes |-> -1]]

Tick ==
    /\ clock < MaxTime
    /\ clock' = clock + 1
    /\ UNCHANGED <<announcements, seen, link, emitted, meetings, newest>>

SendTo(n, peers, msg, links) ==
    [l \in Links |-> IF l[1] = n /\ l[2] \in peers THEN Append(links[l], msg) ELSE links[l]]

\* Announcements of a node have times of their own.
EmitAnnouncement(n) ==
    /\ newest[n][n] < clock
    /\ emitted < MaxEmitted
    /\ emitted' = emitted + 1
    /\ newest' = [newest EXCEPT ![n][n] = clock]
    /\ link' = SendTo(n, Neighbours[n], [node |-> n, time |-> clock, ttl |-> TTL], link)
    /\ UNCHANGED <<clock, announcements, seen, meetings>>
-----------------------------------------------------------------------------
(* ProcessAnnouncement, and handleNodeAnnounce, which passes it on         *)

\* Faulty: an announcement of any age is taken.
TooOldNever(msg) == FALSE

TooOld(msg) == clock - msg.time > 1

KeptOf(n, node) == {ann \in announcements[n] : ann.node = node}

Accepts(n, msg) ==
    /\ msg.node # n
    /\ ~TooOld(msg)
    /\ <<msg.node, msg.time>> \notin seen[n]
    /\ \A ann \in KeptOf(n, msg.node) : ann.time < msg.time
    /\ KeptOf(n, msg.node) # {} \/ Cardinality(announcements[n]) < MaxAnnouncements

\* The peers of a message that p sent and n passes on.
ForwardTo(n, p) ==
    LET others == Neighbours[n] \ {p}
    IN kSubset(Min({FanOut, Cardinality(others)}), others)

\* (The age is looked at before the lock is taken; here in the same step.)
HandleNodeAnnounce(n, p) ==
    /\ <<p, n>> \in Links
    /\ link[<<p, n>>] # <<>>
    /\ LET msg  == Head(link[<<p, n>>])
           rest == [link EXCEPT ![<<p, n>>] = Tail(@)]
       IN IF Accepts(n, msg)
          THEN /\ announcements' = [announcements EXCEPT
                      ![n] = (@ \ KeptOf(n, msg.node)) \cup {msg}]
               /\ seen' = [seen EXCEPT ![n] = @ \cup {<<msg.node, msg.time>>}]
               /\ newest' = [newest EXCEPT ![n][msg.node] = msg.time]
               /\ IF msg.ttl > 1
                  THEN \E peers \in ForwardTo(n, p) :
                           link' = SendTo(n, peers, [msg EXCEPT !.ttl = @ - 1], rest)
                  ELSE link' = rest
          ELSE link' = rest /\ UNCHANGED <<announcements, seen, newest>>
    /\ UNCHANGED <<clock, emitted, meetings>>

\* pruneStale: what was seen is remembered for longer than it is taken.
PruneStale(n) ==
    /\ announcements' = [announcements EXCEPT ![n] = {ann \in @ : ann.time >= clock - 1}]
    /\ seen' = [seen EXCEPT ![n] = {key \in @ : key[2] >= clock - 2}]
    /\ <<announcements', seen'>> # <<announcements, seen>>
    /\ UNCHANGED <<clock, link, emitted, meetings, newest>>

\* Two peers connect again: what was under way is lost, and handleGetNodeAnnounce
\* sends all of what each has to the other, as it was received.
Meet(n, p) ==
    /\ <<n, p>> \in Links
    /\ meetings < MaxMeetings
    /\ meetings' = meetings + 1
    /\ \E mine \in SetToSeqs(announcements[n]), theirs \in SetToSeqs(announcements[p]) :
           link' = [link EXCEPT ![<<n, p>>] = mine, ![<<p, n>>] = theirs]
    /\ UNCHANGED <<clock, announcements, seen, emitted, newest>>
-----------------------------------------------------------------------------
Next ==
    \/ Tick
    \/ \E n \in Nodes : \/ EmitAnnouncement(n) \/ PruneStale(n)
                        \/ \E p \in Nodes : HandleNodeAnnounce(n, p) \/ Meet(n, p)

Spec == Init /\ [][Next]_vars
-----------------------------------------------------------------------------
(* Properties                                                              *)

\* What a node knows of another never goes back, although announcements arrive by
\* several ways, are sent again to who connects, and are forgotten: no
\* announcement is taken for new twice, and none after a later one.
NeverRevived ==
    [][\A n \in Nodes : \A ann \in announcements'[n] \ announcements[n] :
           ann.time > newest[n][ann.node]]_vars
=============================================================================
