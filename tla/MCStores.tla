----------------------------- MODULE MCStores ------------------------------
(* The two programs that keep files, each on its own: a behaviour is of the  *)
(* node's ChainStore or of the mining pool's Database, and the other rests.  *)
(*                                                                          *)
(* ChainStore up to three blocks: a chain of a's, a fork that replaces all   *)
(* of it by one block, and one that keeps its first block at most.  The      *)
(* database has three callers, and texts of two lengths.                     *)
EXTENDS Stores

CONSTANTS a, b

MCFork == {<<b>>, <<a, b, b>>}

MCSize(d) == (d + 1) \div 2

VARIABLE study

poolVars == <<poolUp, data, call, poolTmp, db, alone, saved>>

MCInit == study \in {"chain", "pool"} /\ Init /\ D!Init

MCNext ==
    \/ study = "chain" /\ Next /\ UNCHANGED <<study, poolVars>>
    \/ study = "pool" /\ D!Next /\ UNCHANGED <<study, vars>>

MCSpec == MCInit /\ [][MCNext]_<<study, vars, poolVars>>
=============================================================================
