---------------------------- MODULE DatabaseSaves ----------------------------
(***************************************************************************)
(* Calls of Database.Save (cmd/dilithium-pool/database.go) as their        *)
(* callers see them: each has marshalled the database and may replace the  *)
(* database file by that.  A call is alone if no other has run at the same *)
(* time; only then is its effect certain.  PoolDatabase shows why.         *)
(***************************************************************************)

CONSTANT Data   \* the contents of the database

NoFile == [is |-> "none"]
Broken == [is |-> "broken"]          \* a file that does not parse
Whole(d) == [is |-> "whole", data |-> d]

File == {NoFile, Broken} \cup [is : {"whole"}, data : Data]

Idle == [pc |-> "idle"]
Saving(d, alone) == [pc |-> "saving", data |-> d, alone |-> alone]

Save == {Idle} \cup [pc : {"saving"}, data : Data, alone : BOOLEAN]

\* The calls after s has marshalled d.
Begun(calls, s, d) ==
    [t \in DOMAIN calls |->
        IF t = s THEN Saving(d, \A u \in DOMAIN calls \ {s} : calls[u] = Idle)
        ELSE IF calls[t] = Idle THEN Idle
        ELSE Saving(calls[t].data, FALSE)]

Ended(calls, s) == [calls EXCEPT ![s] = Idle]

Overlap(calls) == \E s \in DOMAIN calls : calls[s] # Idle /\ ~calls[s].alone

\* What overlapping calls may make of the file at any moment.
Disturbed(calls, f) ==
    {f, Broken} \cup {Whole(calls[s].data) : s \in {t \in DOMAIN calls : calls[t] # Idle}}

\* What the return of s, with or without an error, makes of the file.
Outcomes(calls, s, saved, f) ==
    IF ~calls[s].alone THEN Disturbed(calls, f)
    ELSE IF saved THEN {Whole(calls[s].data)} ELSE {f}
=============================================================================
