----------------------------- MODULE MCAddrBook -----------------------------
(* A seed and another node, that both answer, and a book with room for one. *)
EXTENDS AddrBook

CONSTANTS seed, peer
=============================================================================
