---------------------------- MODULE PoolDatabase ----------------------------
(***************************************************************************)
(* The mining pool's Database.Save (cmd/dilithium-pool/database.go) step   *)
(* by step, called by several goroutines: the database is marshalled under *)
(* the read lock, and what follows, a temporary file that all calls share, *)
(* is under no lock.                                                       *)
(***************************************************************************)
EXTENDS Integers, FiniteSetsExt, DatabaseSaves

CONSTANTS
    Savers,   \* the goroutines that call Save
    New,      \* the database of a pool that starts without a file
    Size(_)   \* the length of a database's text

\* Assumed where the module is used.
Constants == New \in Data /\ \A d \in Data : Size(d) \in Nat \ {0}

VARIABLES
    up,        \* the process runs
    data,      \* Database.data
    call,      \* where each call of Save is
    tmp, db,   \* the temporary and the database file
    alone,     \* history: the calls that have been alone so far
    saved      \* history: whether the last call that returned gave no error

vars == <<up, data, call, tmp, db, alone, saved>>

\* A file's text is the start of one database's, and the tail of a longer one
\* where that was not written over.  Absent is no file.
Text == [of : Data, len : Nat]
Absent == [of |-> New, len |-> -1]
Empty == [of |-> New, len |-> 0]

Parses(text) == text.len = Size(text.of)

\* Which file the call has open: the one named tmp, the one named db, or one
\* that has no name any more.
NotCalled == [pc |-> "idle"]
CallState ==
    {NotCalled} \cup [pc : {"create", "write", "rename"}, data : Data,
                      fd : {"tmp", "db", "gone"}]

TypeOK ==
    /\ up \in BOOLEAN
    /\ data \in Data
    /\ call \in [Savers -> CallState]
    /\ tmp \in Text \cup {Absent}
    /\ db \in Text \cup {Absent}
    /\ alone \in SUBSET Savers
    /\ saved \in BOOLEAN
    /\ \A s \in Savers : call[s].pc \in {"write", "rename"} =>
          (call[s].fd = "tmp" => tmp # Absent) /\ (call[s].fd = "db" => db # Absent)

Running(s) == call[s] # NotCalled

Init ==
    /\ up = TRUE
    /\ data = New
    /\ call = [s \in Savers |-> NotCalled]
    /\ tmp = Absent
    /\ db = Absent
    /\ alone = {}
    /\ saved = FALSE

\* Any operation that writes the database.
Change ==
    /\ up
    /\ data' \in Data
    /\ UNCHANGED <<up, call, tmp, db, alone, saved>>

\* json.MarshalIndent, under the read lock.
Marshal(s) ==
    /\ up
    /\ ~Running(s)
    /\ call' = [call EXCEPT ![s] = [pc |-> "create", data |-> data, fd |-> "gone"]]
    /\ alone' = IF \E t \in Savers : Running(t) THEN {} ELSE {s}
    /\ UNCHANGED <<up, data, tmp, db, saved>>

\* Faulty: opens the database file itself.
CreateInPlace(s) ==
    /\ call[s].pc = "create"
    /\ db' = Empty
    /\ call' = [call EXCEPT ![s].pc = "write", ![s].fd = "db"]
    /\ UNCHANGED <<up, data, tmp, alone, saved>>

\* os.Create, which truncates a temporary file that is there.
CreateTemp(s) ==
    /\ call[s].pc = "create"
    /\ tmp' = Empty
    /\ call' = [call EXCEPT ![s].pc = "write", ![s].fd = "tmp"]
    /\ UNCHANGED <<up, data, db, alone, saved>>

\* f.Write from the start of the file.
Written(text, d) == [of |-> d, len |-> Max({text.len, Size(d)})]

WriteTemp(s) ==
    /\ call[s].pc = "write"
    /\ call' = [call EXCEPT ![s].pc = "rename"]
    /\ tmp' = IF call[s].fd = "tmp" THEN Written(tmp, call[s].data) ELSE tmp
    /\ db' = IF call[s].fd = "db" THEN Written(db, call[s].data) ELSE db
    /\ UNCHANGED <<up, data, alone, saved>>

\* The calls after that of s returned and files lost or changed their names.
Returned(s, now) ==
    /\ call' = [t \in Savers |->
                   IF t = s \/ ~Running(t) THEN NotCalled
                   ELSE [call[t] EXCEPT !.fd = now[@]]]
    /\ alone' = alone \ {s}

Rename(s) ==
    /\ call[s].pc = "rename"
    /\ tmp # Absent
    /\ db' = tmp
    /\ tmp' = Absent
    /\ Returned(s, [tmp |-> "db", db |-> "gone", gone |-> "gone"])
    /\ saved' = TRUE
    /\ UNCHANGED <<up, data>>

\* An error.  Unless it is that of os.Create, the temporary file is removed,
\* whoever created it.
SaveFails(s) ==
    /\ Running(s)
    /\ IF call[s].pc = "create"
       THEN UNCHANGED tmp /\ Returned(s, [tmp |-> "tmp", db |-> "db", gone |-> "gone"])
       ELSE tmp' = Absent /\ Returned(s, [tmp |-> "gone", db |-> "db", gone |-> "gone"])
    /\ saved' = FALSE
    /\ UNCHANGED <<up, data, db>>

\* The process ends; a temporary file stays.
Kill ==
    /\ up
    /\ up' = FALSE
    /\ call' = [s \in Savers |-> NotCalled]
    /\ alone' = {}
    /\ UNCHANGED <<data, tmp, db, saved>>

\* NewDatabase; a file that does not parse ends main.
Load ==
    /\ ~up
    /\ up' = TRUE
    /\ db = Absent \/ Parses(db)
    /\ data' = db.of
    /\ UNCHANGED <<call, tmp, db, alone, saved>>

Next ==
    \/ Change
    \/ \E s \in Savers :
          Marshal(s) \/ CreateTemp(s) \/ WriteTemp(s) \/ Rename(s) \/ SaveFails(s)
    \/ Kill
    \/ Load

Spec == Init /\ [][Next]_vars
-----------------------------------------------------------------------------
\* Database.Save keeps SafeDatabase's promise: a call that is alone either
\* replaces the file as a whole or leaves it, and says which; what overlapping
\* calls leave is the database of one of them, or a file that does not parse.
Safe == INSTANCE SafeDatabase WITH
            file <- IF db = Absent THEN NoFile ELSE IF Parses(db) THEN Whole(db.of) ELSE Broken,
            save <- [s \in Savers |->
                        IF Running(s) THEN Saving(call[s].data, s \in alone) ELSE Idle]

ImplementsSafeDatabase == Safe!Spec
=============================================================================
