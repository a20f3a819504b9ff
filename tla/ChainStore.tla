----------------------------- MODULE ChainStore -----------------------------
(***************************************************************************)
(* ChainStore's SaveBlock and SaveChain step by step, with the file system *)
(* below them: a temporary file, its fsync, the rename, the directory's    *)
(* fsync, the removal of files beyond the tip.  Each step may fail, and    *)
(* the process may be killed or the power lost between any two of them.    *)
(*                                                                         *)
(* One save runs at a time, because its callers AppendBlock and            *)
(* attemptReorg hold bc.mutex.  Node takes a save as one step; this module *)
(* justifies what Node says of the files after a crash.                    *)
(***************************************************************************)
EXTENDS FiniteSets, SequencesExt, BlockFiles

CONSTANTS
    Block,     \* block bodies
    Mined,     \* those that are appended one at a time, by mining or by a peer's block message
    Fork,      \* bound: the chains attemptReorg switches to
    NoSave,    \* no save runs
    Torn       \* a file whose data did not reach the disk: it does not parse

Chain == UNION {[1..n -> Block] : n \in 0..MaxHeight}

\* What a save in progress is told by: see Saving.
Saves ==
    [chain : Chain, from : 0..MaxHeight, next : 1..(MaxHeight + 1), clean : BOOLEAN,
     pc : {"write", "sync", "rename", "syncdir", "remove"}]

ASSUME ChainAssumption == Mined \subseteq Block /\ Fork \subseteq Chain \ {<<>>}
ASSUME MarksAssumption == /\ Torn \notin Chain
                          /\ NoSave \notin Saves \cup [chain : Chain, from : 0..MaxHeight]

VARIABLES
    up,        \* the process is running
    mem,       \* bc.Blocks after genesis
    save,      \* the running SaveChain or SaveBlock
    tmp,       \* the temporary file: none, its data written, or also synced
    dir,       \* the block file at each height, as processes see it
    durable,   \* the same, as it is certain to be after the power is lost
    floor,     \* history: the chain whose save was acknowledged and is not being replaced
    doubt      \* history: a renamed file may not be durable

vars == <<up, mem, save, tmp, dir, durable, floor, doubt>>

\* A file: its block (<<>> for no file), and whether its data was synced.
File == [block : Chain \cup {Torn}, synced : BOOLEAN]
NoFile == [block |-> <<>>, synced |-> TRUE]

Common(c, d) == LongestCommonPrefix({c, d})

\* The file after a loss of power.
AfterLoss(file) == IF file.synced THEN file ELSE [block |-> Torn, synced |-> TRUE]

\* The directories a loss of power may leave: each entry is the last synced
\* one, or the current one where it reached the disk by itself.
Survivors ==
    {[i \in Height |-> AfterLoss(IF i \in reached THEN dir[i] ELSE durable[i])] :
        reached \in SUBSET Height}

\* LoadChain on directory d; a file that does not parse is an error.
Loaded(d) ==
    IF \E i \in Height : d[i].block = Torn THEN <<>>
    ELSE LoadChain([i \in Height |-> d[i].block])

Init ==
    /\ up = TRUE
    /\ mem = <<>>
    /\ save = NoSave
    /\ tmp = "none"
    /\ dir = [i \in Height |-> NoFile]
    /\ durable = dir
    /\ floor = <<>>
    /\ doubt = FALSE

\* A save of chain c's blocks above from; clean tells SaveChain from SaveBlock.
Saving(c, from, clean) ==
    [chain |-> c, from |-> from, next |-> from + 1, clean |-> clean, pc |-> "write"]

\* AppendBlock: persistBlock before the block enters bc.Blocks.
BeginAppend(b) ==
    /\ up
    /\ save = NoSave
    /\ Len(mem) < MaxHeight
    /\ save' = Saving(Append(mem, b), Len(mem), FALSE)
    /\ UNCHANGED <<up, mem, tmp, dir, durable, floor, doubt>>

\* attemptReorg: persistChainFrom(forkIdx + 1) for a chain that is heavier, and
\* so not a part of ours.  The block at forkIdx is a common ancestor.
BeginReorg(c, from) ==
    /\ up
    /\ save = NoSave
    /\ ~IsPrefix(c, mem)
    /\ from <= Len(Common(mem, c))
    /\ save' = Saving(c, from, TRUE)
    /\ UNCHANGED <<up, mem, tmp, dir, durable, floor, doubt>>

At(pc) == up /\ save # NoSave /\ save.pc = pc

\* os.Create and Write; a temporary file left by an earlier save is truncated.
WriteTemp ==
    /\ At("write")
    /\ tmp' = "written"
    /\ save' = [save EXCEPT !.pc = "sync"]
    /\ UNCHANGED <<up, mem, dir, durable, floor, doubt>>

\* Faulty: goes on without the file's fsync.
SyncTempForgotten ==
    /\ At("sync")
    /\ tmp' = tmp
    /\ save' = [save EXCEPT !.pc = "rename"]
    /\ UNCHANGED <<up, mem, dir, durable, floor, doubt>>

SyncTemp ==
    /\ At("sync")
    /\ tmp' = "synced"
    /\ save' = [save EXCEPT !.pc = "rename"]
    /\ UNCHANGED <<up, mem, dir, durable, floor, doubt>>

Rename ==
    /\ At("rename")
    /\ LET block == SubSeq(save.chain, 1, save.next)
       IN /\ dir' = [dir EXCEPT ![save.next] = [block |-> block, synced |-> tmp = "synced"]]
          /\ floor' = IF IsPrefix(block, floor) THEN floor ELSE Common(floor, save.chain)
    /\ tmp' = "none"
    /\ save' = [save EXCEPT !.pc = "syncdir"]
    /\ UNCHANGED <<up, mem, durable, doubt>>

\* The save is over, and its caller puts the chain in memory.
End ==
    /\ save' = NoSave
    /\ mem' = save.chain
    /\ floor' = IF Len(floor) >= save.from THEN save.chain ELSE floor

\* What follows the save of one block: the next, the removals, or the end.
Proceed ==
    IF save.next < Len(save.chain)
    THEN /\ save' = [save EXCEPT !.next = @ + 1, !.pc = "write"]
         /\ UNCHANGED <<mem, floor>>
    ELSE IF save.clean
    THEN /\ save' = [save EXCEPT !.next = @ + 1, !.pc = "remove"]
         /\ UNCHANGED <<mem, floor>>
    ELSE End

\* Faulty: SaveBlock returns without the directory's fsync.
SyncDirForgotten ==
    /\ At("syncdir")
    /\ durable' = durable
    /\ doubt' = doubt
    /\ Proceed
    /\ UNCHANGED <<up, tmp, dir>>

\* The directory's fsync makes all its entries durable.  An error in it, or in
\* opening the directory, is ignored.
SyncDir ==
    /\ At("syncdir")
    /\ \/ durable' = dir /\ doubt' = FALSE
       \/ durable' = durable /\ doubt' = TRUE
    /\ Proceed
    /\ UNCHANGED <<up, tmp, dir>>

\* Faulty: the last block's file goes too.
RemoveFileTip ==
    /\ At("remove")
    /\ \/ /\ save.next <= MaxHeight + 1
          /\ dir' = [dir EXCEPT ![save.next - 1] = NoFile]
          /\ save' = [save EXCEPT !.next = @ + 1]
          /\ UNCHANGED <<mem, floor>>
       \/ /\ save.next > MaxHeight + 1
          /\ dir' = dir
          /\ End
    /\ UNCHANGED <<up, tmp, durable, doubt>>

\* The files beyond the tip are removed in the order ReadDir lists them; an
\* error of os.Remove is ignored.
RemoveFile ==
    /\ At("remove")
    /\ \/ /\ save.next <= MaxHeight
          /\ dir' \in {dir, [dir EXCEPT ![save.next] = NoFile]}
          /\ save' = [save EXCEPT !.next = @ + 1]
          /\ UNCHANGED <<mem, floor>>
       \/ /\ save.next > MaxHeight
          /\ dir' = dir
          /\ End
    /\ UNCHANGED <<up, tmp, durable, doubt>>

\* An error before the rename, or of the rename: SaveBlock removes the
\* temporary file, its callers return, and bc.Blocks is as before.
SaveFails ==
    /\ up
    /\ save # NoSave
    /\ save.pc \in {"write", "sync", "rename"}
    /\ save' = NoSave
    /\ tmp' = "none"
    /\ UNCHANGED <<up, mem, dir, durable, floor, doubt>>

\* Memory is gone.  A temporary file that stays behind is not read by LoadChain.
Gone ==
    /\ up' = FALSE
    /\ mem' = <<>>
    /\ save' = NoSave
    /\ tmp' = "none"

\* The process is killed; the system goes on, and what was renamed stays renamed.
Kill ==
    /\ up
    /\ Gone
    /\ doubt' = (doubt \/ At("syncdir"))
    /\ UNCHANGED <<dir, durable, floor>>

\* The machine stops.
PowerLoss ==
    /\ Gone
    /\ dir' \in Survivors
    /\ durable' = dir'
    /\ floor' = IF doubt THEN Common(floor, Loaded(dir')) ELSE floor
    /\ doubt' = FALSE

\* SetStore: a file that does not parse makes main exit instead.
Restart ==
    /\ ~up
    /\ \A i \in Height : dir[i].block # Torn
    /\ up' = TRUE
    /\ mem' = Loaded(dir)
    /\ floor' = Loaded(dir)
    /\ UNCHANGED <<save, tmp, dir, durable, doubt>>

Next ==
    \/ \E b \in Mined : BeginAppend(b)
    \/ \E c \in Fork : \E from \in 0..Len(c) : BeginReorg(c, from)
    \/ WriteTemp
    \/ SyncTemp
    \/ Rename
    \/ SyncDir
    \/ RemoveFile
    \/ SaveFails
    \/ Kill
    \/ PowerLoss
    \/ Restart

Spec == Init /\ [][Next]_vars
-----------------------------------------------------------------------------
(* Properties                                                              *)

TypeOK ==
    /\ up \in BOOLEAN
    /\ mem \in Chain
    /\ save \in Saves \cup {NoSave}
    /\ tmp \in {"none", "written", "synced"}
    /\ dir \in [Height -> File]
    /\ durable \in [Height -> File]
    /\ \A i \in Height : dir[i].block = Torn \/ dir[i].block = <<>> \/ Len(dir[i].block) = i
    /\ floor \in Chain
    /\ doubt \in BOOLEAN

\* A node that stops at any moment, by a loss of power too, finds only files
\* that parse: SetStore never fails on a file a save was writing.
NeverTorn == \A d \in Survivors : \A i \in Height : d[i].block # Torn

\* If the power is lost now, the chain that is loaded starts with the
\* acknowledged one, unless the directory's fsync was skipped by an error.
PowerSafe == ~doubt => \A d \in Survivors : IsPrefix(floor, Loaded(d))

\* ChainStore keeps SafeStore's promise.
Safe == INSTANCE SafeStore WITH
            kept <- Loaded(dir),
            saving <- IF save = NoSave THEN NoSave
                      ELSE [chain |-> save.chain, from |-> save.from],
            sure <- ~doubt

ImplementsSafeStore == Safe!Spec
=============================================================================
