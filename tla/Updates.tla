------------------------------ MODULE Updates -------------------------------
(***************************************************************************)
(* The auto-updater.  Trusted seed nodes announce the version that they    *)
(* run, and every node passes each announcement on once.  A node with      *)
(* --auto-update downloads a newer version, puts it in place of its own     *)
(* program, shuts down and starts again.                                    *)
(*                                                                         *)
(* Each announcement has a goroutine of its own at a node, which works on  *)
(* the same two files: the program and its .old copy.                      *)
(***************************************************************************)
EXTENDS Network, Integers, Sequences, FiniteSetsExt

CONSTANTS
    Seeds,         \* whose keys are in TrustedUpdateKeys
    AutoUpdate,    \* nodes run with --auto-update
    FirstVersion,  \* the version each node starts with
    MaxVersion,
    TTL,           \* of a new announcement: 8
    FanOut,        \* peers that one is passed on to: 5
    MaxFaults,     \* bound: crashes, signals and operations that fail
    MaxRestarts    \* bound: nodes started again by hand

Versions == 1..MaxVersion

ASSUME UpdatesAssumption == /\ Seeds \subseteq Nodes /\ AutoUpdate \subseteq Nodes
                            /\ MaxVersion \in Nat \ {0} /\ FirstVersion \in [Nodes -> Versions]
                            /\ TTL \in Nat \ {0} /\ FanOut \in Nat \ {0}
                            /\ MaxFaults \in Nat /\ MaxRestarts \in Nat

VARIABLES
    process,    \* of a node
    running,    \* the version it runs, or last ran
    exec, old,  \* the versions in the files of the program and its copy; 0: no file
    update,     \* triggerDownload, of each announcement
    seen,       \* au.seen
    lastError,  \* au.lastError is set
    updateLink, \* announcements under way between two peers
    faults, restarts,
    failed,     \* history: an update failed in this process
    overlapped  \* history: one update removed the copy that another had just made

fileVars == <<exec, old>>
gossipVars == <<seen, updateLink>>
updateVars == <<process, running, fileVars, update, gossipVars, lastError, faults, restarts,
                failed, overlapped>>

UpdateAnnounceMsg == [seed : Seeds, version : Versions, ttl : 1..TTL]

\* What a node has seen is the seed and the version of an announcement.
Keys == Seeds \X Versions

\* How far performUpdate is: what it does next.
Steps == {"none", "download", "removeOld", "backUp", "install", "shutdown", "exec"}

NoUpdates == [k \in Keys |-> "none"]

UpdatesTypeOK ==
    /\ process \in [Nodes -> {"up", "stopping", "terminating", "panicked", "down"}]
    /\ running \in [Nodes -> Versions]
    /\ exec \in [Nodes -> Versions \cup {0}]
    /\ old \in [Nodes -> Versions \cup {0}]
    /\ update \in [Nodes -> [Keys -> Steps]]
    /\ seen \in [Nodes -> SUBSET Keys]
    /\ lastError \in [Nodes -> BOOLEAN]
    /\ updateLink \in [Links -> Seq(UpdateAnnounceMsg)]
    /\ faults \in 0..MaxFaults
    /\ restarts \in 0..MaxRestarts
    /\ failed \in [Nodes -> BOOLEAN]
    /\ overlapped \in [Nodes -> BOOLEAN]

UpdatesInit ==
    /\ process = [n \in Nodes |-> "up"]
    /\ running = FirstVersion
    /\ exec = FirstVersion
    /\ old = [n \in Nodes |-> 0]
    /\ update = [n \in Nodes |-> NoUpdates]
    /\ seen = [n \in Nodes |-> {}]
    /\ lastError = [n \in Nodes |-> FALSE]
    /\ updateLink = [l \in Links |-> <<>>]
    /\ faults = 0
    /\ restarts = 0
    /\ failed = [n \in Nodes |-> FALSE]
    /\ overlapped = [n \in Nodes |-> FALSE]
-----------------------------------------------------------------------------
(* Announcements                                                           *)

IsUp(n) == process[n] \in {"up", "stopping", "terminating"}

ActivePeers(n) == {p \in Neighbours[n] : IsUp(p)}

SendTo(n, peers, msg, links) ==
    [l \in Links |-> IF l[1] = n /\ l[2] \in peers THEN Append(links[l], msg) ELSE links[l]]

\* Every 30 minutes, and when the operator asks for it.  Bound: once all earlier
\* announcements of the seed have arrived.
EmitUpdateAnnouncement(s) ==
    /\ s \in Seeds
    /\ process[s] = "up"
    /\ \A p \in Neighbours[s] : updateLink[<<s, p>>] = <<>>
    /\ seen' = [seen EXCEPT ![s] = @ \cup {<<s, running[s]>>}]
    /\ updateLink' = SendTo(s, ActivePeers(s), [seed |-> s, version |-> running[s], ttl |-> TTL],
                            updateLink)
    /\ UNCHANGED <<process, running, fileVars, update, lastError, faults, restarts, failed,
                   overlapped>>

\* The peers of a message that p sent and n passes on.
ForwardTo(n, p) ==
    LET others == ActivePeers(n) \ {p}
    IN kSubset(Min({FanOut, Cardinality(others)}), others)

\* ProcessUpdateAnnouncement, and handleUpdateAnnounce, which passes it on.  The
\* error is forgotten when the version is not newer.
HandleUpdateAnnounce(n, p) ==
    /\ <<p, n>> \in Links
    /\ IsUp(n)
    /\ updateLink[<<p, n>>] # <<>>
    /\ LET msg      == Head(updateLink[<<p, n>>])
           key      == <<msg.seed, msg.version>>
           rest     == [updateLink EXCEPT ![<<p, n>>] = Tail(@)]
           accepted == key \notin seen[n]
           newer    == msg.version > running[n]
       IN /\ seen' = [seen EXCEPT ![n] = @ \cup {key}]
          /\ lastError' = IF accepted /\ ~newer THEN [lastError EXCEPT ![n] = FALSE]
                          ELSE lastError
          /\ update' = IF accepted /\ newer /\ n \in AutoUpdate
                       THEN [update EXCEPT ![n][key] = "download"]
                       ELSE update
          /\ IF accepted /\ msg.ttl > 1
             THEN \E peers \in ForwardTo(n, p) :
                      updateLink' = SendTo(n, peers, [msg EXCEPT !.ttl = @ - 1], rest)
             ELSE updateLink' = rest
    /\ UNCHANGED <<process, running, fileVars, faults, restarts, failed, overlapped>>
-----------------------------------------------------------------------------
(* performUpdate                                                           *)

Goes(n, k, step) == [update EXCEPT ![n][k] = step]

At(n, k, step) == IsUp(n) /\ update[n][k] = step

Fault == faults < MaxFaults /\ faults' = faults + 1

\* The error is kept for UpdateStatus, and the announcement stays in seen.
Fails(n, k) ==
    /\ update' = Goes(n, k, "none")
    /\ lastError' = [lastError EXCEPT ![n] = TRUE]
    /\ failed' = [failed EXCEPT ![n] = TRUE]

\* The checksum, the file, and whether they agree.  The path of the program is
\* looked up first, which fails while another update has it renamed.
Download(n, k) ==
    /\ At(n, k, "download")
    /\ \/ update' = Goes(n, k, "removeOld") /\ UNCHANGED <<lastError, failed, faults>>
       \/ Fault /\ Fails(n, k)
       \/ exec[n] = 0 /\ Fails(n, k) /\ UNCHANGED faults
    /\ UNCHANGED <<process, running, fileVars, gossipVars, restarts, overlapped>>

RemoveOld(n, k) ==
    /\ At(n, k, "removeOld")
    /\ old' = [old EXCEPT ![n] = 0]
    /\ update' = Goes(n, k, "backUp")
    /\ overlapped' = [overlapped EXCEPT
           ![n] = @ \/ \E other \in Keys : update[n][other] = "install"]
    /\ UNCHANGED <<process, running, exec, gossipVars, lastError, faults, restarts, failed>>

\* Faulty: the program is removed, and not renamed.
BackUpRemoves(n, k) ==
    /\ At(n, k, "backUp")
    /\ exec' = [exec EXCEPT ![n] = 0]
    /\ update' = Goes(n, k, "install")
    /\ UNCHANGED <<old, lastError, failed, faults>>
    /\ UNCHANGED <<process, running, gossipVars, restarts, overlapped>>

\* The program becomes the copy: not when another update has just renamed it.
BackUp(n, k) ==
    /\ At(n, k, "backUp")
    /\ \/ /\ exec[n] # 0
          /\ old' = [old EXCEPT ![n] = exec[n]]
          /\ exec' = [exec EXCEPT ![n] = 0]
          /\ update' = Goes(n, k, "install")
          /\ UNCHANGED <<lastError, failed, faults>>
       \/ exec[n] = 0 /\ Fails(n, k) /\ UNCHANGED <<fileVars, faults>>
       \/ exec[n] # 0 /\ Fault /\ Fails(n, k) /\ UNCHANGED fileVars
    /\ UNCHANGED <<process, running, gossipVars, restarts, overlapped>>

\* The new file becomes the program, or the copy again.
Install(n, k) ==
    /\ At(n, k, "install")
    /\ \/ /\ exec' = [exec EXCEPT ![n] = k[2]]
          /\ update' = Goes(n, k, "shutdown")
          /\ UNCHANGED <<old, lastError, failed, faults>>
       \/ /\ Fault /\ Fails(n, k)
          /\ exec' = [exec EXCEPT ![n] = IF old[n] # 0 THEN old[n] ELSE @]
          /\ old' = [old EXCEPT ![n] = 0]
    /\ UNCHANGED <<process, running, gossipVars, restarts, overlapped>>

\* The connections of a process that ends break.
Broken(n) == [l \in Links |-> IF n \in {l[1], l[2]} THEN <<>> ELSE updateLink[l]]

Ends(n, how) ==
    /\ process' = [process EXCEPT ![n] = how]
    /\ update' = [update EXCEPT ![n] = NoUpdates]
    /\ updateLink' = Broken(n)

\* main's shutdownFn: it closes the channel that stops the census, and who does so
\* a second time panics.
ShutdownFn(n, k) ==
    /\ At(n, k, "shutdown")
    /\ \/ /\ process[n] = "up"
          /\ process' = [process EXCEPT ![n] = "stopping"]
          /\ update' = Goes(n, k, "exec")
          /\ UNCHANGED updateLink
       \/ process[n] # "up" /\ Ends(n, "panicked")
    /\ UNCHANGED <<running, fileVars, seen, lastError, faults, restarts, failed, overlapped>>

\* Faulty: what a node has seen outlives its process.
BootsAware(n) ==
    /\ process' = [process EXCEPT ![n] = "up"]
    /\ running' = [running EXCEPT ![n] = exec[n]]
    /\ lastError' = [lastError EXCEPT ![n] = FALSE]
    /\ failed' = [failed EXCEPT ![n] = FALSE]
    /\ UNCHANGED seen

\* NewAutoUpdater: nothing is kept on disk.
Boots(n) ==
    /\ process' = [process EXCEPT ![n] = "up"]
    /\ running' = [running EXCEPT ![n] = exec[n]]
    /\ lastError' = [lastError EXCEPT ![n] = FALSE]
    /\ failed' = [failed EXCEPT ![n] = FALSE]
    /\ seen' = [seen EXCEPT ![n] = {}]

\* The process becomes one of the new program, when there is one.
Exec(n, k) ==
    /\ At(n, k, "exec")
    /\ \/ /\ exec[n] # 0
          /\ Boots(n)
          /\ update' = [update EXCEPT ![n] = NoUpdates]
          /\ updateLink' = Broken(n)
       \/ exec[n] = 0 /\ Ends(n, "down") /\ UNCHANGED <<running, lastError, failed, seen>>
    /\ UNCHANGED <<fileVars, faults, restarts, overlapped>>
-----------------------------------------------------------------------------
(* The end of a process by other causes                                    *)

\* A signal: it closes the same channel.
WaitForShutdown(n) ==
    /\ process[n] \in {"up", "stopping"}
    /\ Fault
    /\ \/ /\ process[n] = "up"
          /\ process' = [process EXCEPT ![n] = "terminating"]
          /\ UNCHANGED <<update, updateLink>>
       \/ process[n] = "stopping" /\ Ends(n, "panicked")
    /\ UNCHANGED <<running, fileVars, seen, lastError, restarts, failed, overlapped>>

Exit(n) ==
    /\ process[n] = "terminating"
    /\ Ends(n, "down")
    /\ UNCHANGED <<running, fileVars, seen, lastError, faults, restarts, failed, overlapped>>

Crash(n) ==
    /\ IsUp(n)
    /\ Fault
    /\ Ends(n, "down")
    /\ UNCHANGED <<running, fileVars, seen, lastError, restarts, failed, overlapped>>

Restart(n) ==
    /\ process[n] \in {"down", "panicked"}
    /\ exec[n] # 0
    /\ restarts < MaxRestarts
    /\ restarts' = restarts + 1
    /\ Boots(n)
    /\ UNCHANGED <<fileVars, update, updateLink, faults, overlapped>>
-----------------------------------------------------------------------------
PerformUpdate(n, k) ==
    Download(n, k) \/ RemoveOld(n, k) \/ BackUp(n, k) \/ Install(n, k) \/ ShutdownFn(n, k)
    \/ Exec(n, k)

UpdatesNext ==
    \/ \E s \in Seeds : EmitUpdateAnnouncement(s)
    \/ \E n \in Nodes : \/ \E p \in Nodes : HandleUpdateAnnounce(n, p)
                        \/ \E k \in Keys : PerformUpdate(n, k)
                        \/ WaitForShutdown(n) \/ Exit(n) \/ Crash(n) \/ Restart(n)

\* Tickers tick, what was sent arrives, and goroutines run.
UpdatesFairness ==
    /\ \A s \in Seeds : WF_updateVars(EmitUpdateAnnouncement(s))
    /\ \A n \in Nodes : \A p \in Neighbours[n] : WF_updateVars(HandleUpdateAnnounce(n, p))
    /\ \A n \in Nodes : \A k \in Keys : WF_updateVars(PerformUpdate(n, k))
    /\ \A n \in Nodes : WF_updateVars(Exit(n))

UpdatesSpec == UpdatesInit /\ [][UpdatesNext]_updateVars /\ UpdatesFairness
-----------------------------------------------------------------------------
(* Properties                                                              *)

\* performUpdate keeps a copy and rolls back: whatever fails, or crashes, there is
\* a program or the copy of one, unless two updates ran into each other.
Recoverable == \A n \in Nodes : exec[n] # 0 \/ old[n] # 0 \/ overlapped[n]

\* A node that updates itself and is a peer of a seed comes to run a version that
\* is no older, unless its update failed: although it acts on an announcement only
\* once, and may be interrupted and started again.  (lastError would not do: the
\* announcement of a seed with an old version makes the node forget the error.)
PeersOfSeedsUpdate ==
    <>[](\A n \in AutoUpdate : \A s \in Seeds \cap Neighbours[n] :
            \/ running[n] >= running[s]
            \/ failed[n]
            \/ process[n] # "up" \/ process[s] # "up")
=============================================================================
