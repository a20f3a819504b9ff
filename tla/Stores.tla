------------------------------- MODULE Stores -------------------------------
(***************************************************************************)
(* The two programs of this repository that must not lose what they wrote: *)
(* the node's ChainStore, and the mining pool's Database as D.             *)
(***************************************************************************)
EXTENDS ChainStore

CONSTANTS Savers, Data, New, Size(_)

VARIABLES poolUp, data, call, poolTmp, db, alone, saved

D == INSTANCE PoolDatabase WITH up <- poolUp, tmp <- poolTmp

ASSUME DataAssumption == D!Constants

\* Database.Save keeps what the pool expects of it, SafeDatabase's promise.
ImplementsSafeDatabase == D!ImplementsSafeDatabase
=============================================================================
