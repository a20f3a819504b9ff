------------------------------ MODULE AddrBook ------------------------------
(***************************************************************************)
(* How a node keeps finding peers: the address book, the ban list, the     *)
(* bootstrap, the loop that maintains the outbound connections, and the    *)
(* file peers.dat, which is written in place, by the saver every few       *)
(* minutes, and at a shutdown by the main goroutine and the saver.         *)
(*                                                                         *)
(* An address is a host.  The connections themselves are in Peers: one     *)
(* that is made here completes its handshake.  Of the times of an entry    *)
(* the model keeps whether it was tried, and whether in the last five      *)
(* minutes; its age, which decides on pruning, may be anything.            *)
(***************************************************************************)
EXTENDS Integers, FiniteSets

CONSTANTS
    Addrs,
    Seeds,         \* config.SeedNodes
    Reachable,     \* addresses that answer
    Gossiped,      \* addresses that peers tell of
    Bannable,      \* addresses that may be banned
    MaxAddrBook, MinPeers, MaxOutbound,
    MaxEvents      \* bound: bans, lost peers, shutdowns and crashes

ASSUME SeedsAssumption == /\ Seeds \subseteq Addrs
                          /\ Reachable \subseteq Addrs
                          /\ Gossiped \subseteq Addrs
                          /\ Bannable \subseteq Addrs
ASSUME LimitsAssumption == /\ MaxAddrBook \in Nat \ {0}
                           /\ MaxOutbound \in Nat
                           /\ MinPeers \in 0..MaxOutbound
                           /\ MaxEvents \in Nat

VARIABLES
    main,      \* what the main goroutine does
    book,      \* pm.addrBook
    peers,     \* addresses of the outbound peers
    banned,    \* pm.banned
    todo,      \* addresses that Bootstrap, or the maintenance loop, has yet to try
    connected, \* Bootstrap made a connection
    needed,    \* peers the loop still wants from the book
    loop,      \* what the maintenance loop does
    file,      \* peers.dat
    writing,   \* what the main goroutine and the saver are writing to it
    kept,      \* history: the bans that were saved and not lifted since
    excused,   \* history: peers.dat was cut off, written by two at a time, or written
               \* before it was read
    events

addrBookVars == <<main, book, peers, banned, todo, connected, needed, loop, file, writing,
                  kept, excused, events>>

fileVars == <<file, writing, kept, excused>>

Writers == {"main", "saver"}

None == [is |-> "none"]

Entry == [is : {"new", "recent", "past"}, seed : BOOLEAN]

Truncated == [is |-> "torn"]

Content == [is : {"content"}, book : [Addrs -> Entry \cup {None}], banned : SUBSET Addrs]

\* "known", "seeds" and "run" follow LoadPeerDatabase in Bootstrap.
AddrBookTypeOK ==
    /\ main \in {"down", "load", "known", "seeds", "run", "save", "exit"}
    /\ book \in [Addrs -> Entry \cup {None}]
    /\ peers \in SUBSET Addrs
    /\ banned \in SUBSET Addrs
    /\ todo \in [{"main", "loop"} -> SUBSET Addrs]
    /\ connected \in BOOLEAN
    /\ needed \in 0..MinPeers
    /\ loop \in {"idle", "book", "seeds"}
    /\ file \in Content \cup {None, Truncated}
    /\ writing \in [Writers -> Content \cup {None}]
    /\ kept \in SUBSET Addrs
    /\ excused \in BOOLEAN
    /\ events \in 0..MaxEvents

AddrBookInit ==
    /\ main = "down"
    /\ book = [a \in Addrs |-> None]
    /\ peers = {}
    /\ banned = {}
    /\ todo = [g \in {"main", "loop"} |-> {}]
    /\ connected = FALSE
    /\ needed = 0
    /\ loop = "idle"
    /\ file = None
    /\ writing = [w \in Writers |-> None]
    /\ kept = {}
    /\ excused = FALSE
    /\ events = 0

Up == main # "down"

Event == events < MaxEvents /\ events' = events + 1
-----------------------------------------------------------------------------
(* The book                                                                *)

Known(b) == {a \in Addrs : b[a] # None}

\* addAddressDirect
WithAddress(b, a, seed) ==
    IF a \in peers \cup Known(b) \/ Cardinality(Known(b)) >= MaxAddrBook THEN b
    ELSE [b EXCEPT ![a] = [is |-> "new", seed |-> seed]]

\* recordAttempt
Attempted(b, a) == IF a \in Known(b) THEN [b EXCEPT ![a] = [@ EXCEPT !.is = "recent"]] ELSE b

HandleAddr(a) ==
    /\ Up
    /\ a \in Gossiped
    /\ book' = WithAddress(book, a, FALSE)
    /\ UNCHANGED <<main, peers, banned, todo, connected, needed, loop, fileVars, events>>

\* An entry that was tried and is no seed may have had no success for long.
PruneDeadPeers(a) ==
    /\ Up
    /\ a \in Known(book)
    /\ book[a].is = "past" /\ ~book[a].seed
    /\ book' = [book EXCEPT ![a] = None]
    /\ UNCHANGED <<main, peers, banned, todo, connected, needed, loop, fileVars, events>>

Aged(b) == [a \in Addrs |-> IF a \in Known(b) /\ b[a].is = "recent"
                            THEN [b[a] EXCEPT !.is = "past"] ELSE b[a]]

FiveMinutes ==
    /\ Up
    /\ book' = Aged(book)
    /\ UNCHANGED <<main, peers, banned, todo, connected, needed, loop, fileVars, events>>
-----------------------------------------------------------------------------
(* Connecting                                                              *)

MayConnect(a) ==
    /\ a \notin peers
    /\ a \notin banned
    /\ Cardinality(peers) < MaxOutbound

Connects(a) == MayConnect(a) /\ a \in Reachable

\* Connect, b being the book.
Connect(a, b) ==
    /\ peers' = IF Connects(a) THEN peers \cup {a} ELSE peers
    /\ book' = IF MayConnect(a) THEN Attempted(b, a) ELSE b

LosePeer(a) ==
    /\ Up
    /\ a \in peers
    /\ Event
    /\ peers' = peers \ {a}
    /\ UNCHANGED <<main, book, banned, todo, connected, needed, loop, fileVars>>

\* AddMisbehavior or handleBanPeer.  The peer stays connected: see Peers.
Ban(a) ==
    /\ Up
    /\ a \in Bannable \ banned
    /\ Event
    /\ banned' = banned \cup {a}
    /\ UNCHANGED <<main, book, peers, todo, connected, needed, loop, fileVars>>

\* The ban expires, wherever it stands.
Expire(a) ==
    /\ a \in banned \cup kept
    /\ Event
    /\ banned' = banned \ {a}
    /\ kept' = kept \ {a}
    /\ file' = IF file.is = "content" THEN [file EXCEPT !.banned = @ \ {a}] ELSE file
    /\ writing' = [w \in Writers |-> IF writing[w] = None THEN None
                                     ELSE [writing[w] EXCEPT !.banned = @ \ {a}]]
    /\ UNCHANGED <<main, book, peers, todo, connected, needed, loop, excused>>
-----------------------------------------------------------------------------
(* Bootstrap                                                               *)

\* The process starts, its peer manager with it; Bootstrap comes later.
Start ==
    /\ main = "down"
    /\ main' = "load"
    /\ UNCHANGED <<book, peers, banned, todo, connected, needed, loop, fileVars, events>>

\* What LoadPeerDatabase finds joins what is there.  Of an unreadable file it
\* warns, and goes on.
Load ==
    LET loaded == [a \in Addrs |-> IF file.is = "content" /\ file.book[a] # None
                                   THEN file.book[a] ELSE book[a]]
    IN /\ main = "load"
       /\ main' = "known"
       /\ book' = loaded
       /\ banned' = IF file.is = "content" THEN banned \cup file.banned ELSE banned
       /\ todo' = [todo EXCEPT !["main"] = Known(loaded)]
       /\ connected' = FALSE
       /\ kept' = IF excused THEN {} ELSE kept
       /\ excused' = FALSE
       /\ UNCHANGED <<peers, needed, loop, file, writing, events>>

TryKnownPeer(a) ==
    /\ main = "known"
    /\ a \in todo["main"]
    /\ Cardinality(peers) < MaxOutbound
    /\ todo' = [todo EXCEPT !["main"] = @ \ {a}]
    /\ connected' = (connected \/ Connects(a))
    /\ Connect(a, book)
    /\ UNCHANGED <<main, banned, needed, loop, fileVars, events>>

\* All were tried, MaxOutbound is reached, or SeedTimeout has passed.
KnownPeersTried ==
    /\ main = "known"
    /\ main' = IF connected THEN "run" ELSE "seeds"
    /\ todo' = [todo EXCEPT !["main"] = IF connected THEN {} ELSE Seeds]
    /\ UNCHANGED <<book, peers, banned, connected, needed, loop, fileVars, events>>

\* trySeedNodes, of the names the DNS gives and of those in the program.
TrySeedNode(a) ==
    /\ main = "seeds"
    /\ a \in todo["main"]
    /\ todo' = [todo EXCEPT !["main"] = IF Connects(a) THEN {} ELSE @ \ {a}]
    /\ Connect(a, WithAddress(book, a, TRUE))
    /\ UNCHANGED <<main, banned, connected, needed, loop, fileVars, events>>

SeedNodesTried ==
    /\ main = "seeds"
    /\ todo["main"] = {}
    /\ main' = "run"
    /\ UNCHANGED <<book, peers, banned, todo, connected, needed, loop, fileVars, events>>
-----------------------------------------------------------------------------
(* The maintenance loop                                                    *)

Missing == IF Cardinality(peers) < MinPeers THEN MinPeers - Cardinality(peers) ELSE 0

\* checkAndConnectPeers, and the candidates of connectToNewPeers.
CheckPeers ==
    /\ Up
    /\ loop = "idle"
    /\ Missing > 0
    /\ loop' = "book"
    /\ needed' = Missing
    /\ todo' = [todo EXCEPT !["loop"] =
                    {a \in Known(book) : a \notin peers /\ book[a].is # "recent"}]
    /\ UNCHANGED <<main, book, peers, banned, connected, fileVars, events>>

TryCandidate(a) ==
    /\ loop = "book"
    /\ needed > 0
    /\ a \in todo["loop"]
    /\ todo' = [todo EXCEPT !["loop"] = @ \ {a}]
    /\ needed' = IF Connects(a) THEN needed - 1 ELSE needed
    /\ Connect(a, book)
    /\ UNCHANGED <<main, banned, connected, loop, fileVars, events>>

\* Faulty: the seeds are not asked.
CandidatesTriedNoSeeds ==
    /\ loop = "book"
    /\ needed = 0 \/ todo["loop"] = {}
    /\ loop' = "idle"
    /\ todo' = [todo EXCEPT !["loop"] = {}]
    /\ UNCHANGED <<main, book, peers, banned, connected, needed, fileVars, events>>

\* The seeds are there once Bootstrap has begun.
CandidatesTried ==
    /\ loop = "book"
    /\ needed = 0 \/ todo["loop"] = {}
    /\ LET more == Missing > 0 /\ main # "load"
       IN /\ loop' = IF more THEN "seeds" ELSE "idle"
          /\ todo' = [todo EXCEPT !["loop"] = IF more THEN Seeds ELSE {}]
    /\ UNCHANGED <<main, book, peers, banned, connected, needed, fileVars, events>>

TrySeed(a) ==
    /\ loop = "seeds"
    /\ a \in todo["loop"]
    /\ todo' = [todo EXCEPT !["loop"] = @ \ {a}]
    /\ Connect(a, book)
    /\ UNCHANGED <<main, banned, connected, needed, loop, fileVars, events>>

SeedsTried ==
    /\ loop = "seeds"
    /\ todo["loop"] = {}
    /\ loop' = "idle"
    /\ UNCHANGED <<main, book, peers, banned, todo, connected, needed, fileVars, events>>
-----------------------------------------------------------------------------
(* peers.dat                                                               *)

\* Faulty: the saver starts with the process.
MaySaveEarly(w) == IF w = "saver" THEN main # "down" ELSE main = "save"

\* The saver starts when the file was read.
MaySave(w) == IF w = "saver" THEN main \notin {"down", "load"} ELSE main = "save"

\* SavePeerDatabase takes its picture under the locks, and os.WriteFile empties
\* the file.  A restart takes longer than the five minutes of "recent".
SaveBegins(w) ==
    /\ MaySave(w)
    /\ writing[w] = None
    /\ writing' = [writing EXCEPT ![w] =
                       [is |-> "content", book |-> Aged(book), banned |-> banned]]
    /\ file' = Truncated
    /\ excused' = (excused \/ \E v \in Writers : writing[v] # None)
    /\ UNCHANGED <<main, book, peers, banned, todo, connected, needed, loop, kept, events>>

\* Two that write at a time may leave a mixture.
SaveEnds(w) ==
    /\ writing[w] # None
    /\ file' \in {writing[w]} \cup (IF \E v \in Writers \ {w} : writing[v] # None
                                    THEN {Truncated} ELSE {})
    /\ kept' = kept \cup writing[w].banned
    /\ writing' = [writing EXCEPT ![w] = None]
    /\ main' = IF w = "main" THEN "exit" ELSE main
    /\ UNCHANGED <<book, peers, banned, todo, connected, needed, loop, excused, events>>

\* A signal, which is waited for when Bootstrap is done, or an update.
Shutdown ==
    /\ main \in {"load", "known", "seeds", "run"}
    /\ Event
    /\ main' = "save"
    /\ excused' = (excused \/ main = "load")
    /\ UNCHANGED <<book, peers, banned, todo, connected, needed, loop, file, writing, kept>>

\* The process ends, whatever is being written.
Dies ==
    /\ main' = "down"
    /\ book' = [a \in Addrs |-> None]
    /\ peers' = {}
    /\ banned' = {}
    /\ todo' = [g \in {"main", "loop"} |-> {}]
    /\ connected' = FALSE
    /\ needed' = 0
    /\ loop' = "idle"
    /\ writing' = [w \in Writers |-> None]
    /\ excused' = (excused \/ file = Truncated)
    /\ UNCHANGED <<file, kept>>

Exit == main = "exit" /\ Dies /\ UNCHANGED events

Crash == Up /\ Event /\ Dies
-----------------------------------------------------------------------------
Bootstrap ==
    \/ Load \/ KnownPeersTried \/ SeedNodesTried
    \/ \E a \in Addrs : TryKnownPeer(a) \/ TrySeedNode(a)

MaintainPeers ==
    \/ CheckPeers \/ CandidatesTried \/ SeedsTried
    \/ \E a \in Addrs : TryCandidate(a) \/ TrySeed(a)

AddrBookNext ==
    \/ Start \/ Bootstrap \/ MaintainPeers \/ FiveMinutes
    \/ \E a \in Addrs : HandleAddr(a) \/ PruneDeadPeers(a) \/ LosePeer(a) \/ Ban(a) \/ Expire(a)
    \/ \E w \in Writers : SaveBegins(w) \/ SaveEnds(w)
    \/ Shutdown \/ Exit \/ Crash

\* Both goroutines get to run, time passes, and a node that is down is started.
AddrBookFairness ==
    /\ WF_addrBookVars(Start) /\ WF_addrBookVars(Bootstrap)
    /\ WF_addrBookVars(MaintainPeers) /\ WF_addrBookVars(FiveMinutes)
    /\ \A w \in Writers : WF_addrBookVars(SaveEnds(w))
    /\ WF_addrBookVars(SaveBegins("main")) /\ WF_addrBookVars(Exit)

AddrBookSpec == AddrBookInit /\ [][AddrBookNext]_addrBookVars /\ AddrBookFairness
-----------------------------------------------------------------------------
(* Properties                                                              *)

\* A ban that was saved is in force again after a restart, until it expires,
\* unless the process ended while it wrote the file, wrote it twice at a time,
\* or was shut down before it had read it.
SavedBansHold == main \notin {"down", "load"} /\ ~excused => kept \subseteq banned

\* When no more peers are lost, the node ends up with the peers it wants, or
\* with all that it can have: the seeds and the addresses of its book that
\* answer and are not banned.
FindsPeers ==
    <>[](Missing = 0 \/ ((Seeds \cup Known(book)) \cap Reachable) \ banned \subseteq peers)
=============================================================================
