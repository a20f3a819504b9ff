---------------------------- MODULE SafeDatabase ----------------------------
(***************************************************************************)
(* What the pool may expect of Database.Save: a call that was alone has    *)
(* put what it marshalled into the file if it returned no error, and has   *)
(* left the file if it did.  Nothing is promised of calls that overlap.    *)
(***************************************************************************)
EXTENDS DatabaseSaves

CONSTANTS Savers

VARIABLES
    data,   \* the database in memory
    save,   \* the calls of Save
    file,   \* the database file
    saved   \* whether the last call that returned gave no error

vars == <<data, save, file, saved>>

Init ==
    /\ data \in Data
    /\ save = [s \in Savers |-> Idle]
    /\ file = NoFile
    /\ saved = FALSE

Change ==
    /\ data' \in Data
    /\ UNCHANGED <<save, file, saved>>

Begin(s) ==
    /\ save[s] = Idle
    /\ save' = Begun(save, s, data)
    /\ UNCHANGED <<data, file, saved>>

Disturb ==
    /\ Overlap(save)
    /\ file' \in Disturbed(save, file)
    /\ UNCHANGED <<data, save, saved>>

Return(s) ==
    /\ save[s] # Idle
    /\ saved' \in BOOLEAN
    /\ file' \in Outcomes(save, s, saved', file)
    /\ save' = Ended(save, s)
    /\ UNCHANGED data

\* The process ends, or another loads the file.
Stop ==
    /\ save' = [s \in Savers |-> Idle]
    /\ UNCHANGED <<data, file, saved>>

Load ==
    /\ file # Broken
    /\ file # NoFile => data' = file.data
    /\ data' \in Data
    /\ UNCHANGED <<save, file, saved>>

Next ==
    \/ Change
    \/ \E s \in Savers : Begin(s) \/ Return(s)
    \/ Disturb
    \/ Stop
    \/ Load

Spec == Init /\ [][Next]_vars
=============================================================================
