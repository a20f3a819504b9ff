------------------------------- MODULE Gossip -------------------------------
(***************************************************************************)
(* What nodes announce by the same flooding over their connections: new    *)
(* versions of the program (Updates), and themselves (Census, as C).       *)
(***************************************************************************)
EXTENDS Updates

CONSTANTS MaxAnnouncements, CensusTTL, CensusFanOut, MaxTime, MaxEmitted, MaxRequests

VARIABLES clock, announcements, known, censusLink, emitted, requests, newest

C == INSTANCE Census WITH
        TTL <- CensusTTL, FanOut <- CensusFanOut, MaxMeetings <- MaxRequests,
        seen <- known, link <- censusLink, meetings <- requests

ASSUME CensusAssumption == C!Constants

\* What a node knows of another never goes back (see Census).
NeverRevived == C!NeverRevived
=============================================================================
