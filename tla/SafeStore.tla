------------------------------ MODULE SafeStore ------------------------------
(***************************************************************************)
(* What Blockchain may expect of its ChainStore: a chain whose save was    *)
(* acknowledged comes back after any stop, up to what a later save is      *)
(* replacing.                                                              *)
(***************************************************************************)
EXTENDS Integers, Sequences, SequencesExt

CONSTANTS Chain,   \* the chains of blocks
          NoSave

VARIABLES
    floor,   \* the chain that is promised
    kept,    \* the chain a restart would load
    saving,  \* the chain being saved, and its first block that is: or NoSave
    sure     \* no write's durability is in doubt

vars == <<floor, kept, saving, sure>>

Common(c, d) == LongestCommonPrefix({c, d})

Init ==
    /\ floor = <<>>
    /\ kept = <<>>
    /\ saving = NoSave
    /\ sure = TRUE

Begin ==
    /\ saving = NoSave
    /\ saving' \in [chain : Chain, from : Nat]
    /\ UNCHANGED <<floor, kept, sure>>

\* While chain c is being saved, only what it shares with the promised chain
\* stays promised; what a restart would load starts with that.
Work ==
    /\ saving # NoSave
    /\ UNCHANGED saving
    /\ kept' \in Chain
    /\ floor' = floor \/ floor' = Common(floor, saving.chain)
    /\ IsPrefix(floor', kept')

\* A save that ends well is promised, if what it stands on was.
Acknowledge ==
    /\ saving # NoSave
    /\ saving' = NoSave
    /\ kept' \in Chain
    /\ floor' = IF Len(floor) >= saving.from THEN saving.chain ELSE floor
    /\ IsPrefix(floor', kept')

\* A save that fails keeps what was still promised.
Fail ==
    /\ saving # NoSave
    /\ saving' = NoSave
    /\ UNCHANGED <<floor, kept, sure>>

\* A stop, then a restart.
Stop ==
    /\ saving' = NoSave
    /\ kept' \in Chain
    /\ floor' = IF sure THEN floor ELSE Common(floor, kept')
    /\ IsPrefix(floor', kept')

Restart ==
    /\ saving = NoSave
    /\ floor' = kept
    /\ UNCHANGED <<kept, saving, sure>>

Next ==
    \/ Begin
    \/ Work
    \/ Acknowledge
    \/ Fail
    \/ Stop
    \/ Restart

Spec == Init /\ [][Next]_vars
=============================================================================
