----------------------------- MODULE MCGossip ------------------------------
(* Update announcements and the census, each among three nodes.  They share  *)
(* the connections and no state: a behaviour is of one of them.              *)
(*                                                                          *)
(* Of the nodes that update themselves, one is a peer of a seed that has     *)
(* the new version and of one that has yet to get it.                        *)
EXTENDS Gossip, TLC

VARIABLE study

MCNeighbours == [n \in Nodes |-> IF n = "node" THEN Nodes \ {n} ELSE {"node"}]
MCFirstVersion == [n \in Nodes |-> IF n = "seed" THEN 2 ELSE 1]

censusVars == <<clock, announcements, known, censusLink, emitted, requests, newest>>

\* No node is up, or comes up.
UpdatesIdle ==
    /\ process = [n \in Nodes |-> "down"]
    /\ running = FirstVersion /\ exec = FirstVersion
    /\ old = [n \in Nodes |-> 0]
    /\ update = [n \in Nodes |-> NoUpdates]
    /\ seen = [n \in Nodes |-> {}]
    /\ updateLink = [l \in Links |-> <<>>]
    /\ faults = 0 /\ restarts = MaxRestarts
    /\ lastError = [n \in Nodes |-> FALSE] /\ failed = lastError /\ overlapped = lastError

MCNext ==
    \/ study = "updates" /\ UpdatesNext /\ UNCHANGED <<study, censusVars>>
    \/ study = "census" /\ C!Next /\ UNCHANGED <<study, updateVars>>

Spec == /\ C!Init
        /\ \/ study = "updates" /\ UpdatesInit
           \/ study = "census" /\ UpdatesIdle
        /\ [][MCNext]_<<study, updateVars, censusVars>>
        /\ UpdatesFairness

PeersUpdate == PeersOfSeedsUpdate
=============================================================================
