----------------------------- MODULE BlockFiles -----------------------------
(***************************************************************************)
(* The block files of a node, as far as reading them goes.  A block is     *)
(* written as the sequence of its own body and its ancestors' after        *)
(* genesis, because its Hash commits to all of them; its PreviousHash is   *)
(* that sequence without the last element, and its Index the length.       *)
(***************************************************************************)
EXTENDS Integers, Sequences

CONSTANT MaxHeight  \* bound: blocks after genesis

ASSUME HeightAssumption == MaxHeight \in Nat

Height == 1..MaxHeight

\* Files 1 to n link: each holds a block whose PreviousHash is the block in
\* the file before it.
Linked(d, n) ==
    \A i \in 1..n : /\ Len(d[i]) = i
                    /\ i > 1 => SubSeq(d[i], 1, i - 1) = d[i - 1]

\* LoadChain: the files in order up to the first gap or broken link.
LoadChain(d) ==
    LET n == CHOOSE n \in 0..MaxHeight :
                /\ Linked(d, n)
                /\ n < MaxHeight => ~Linked(d, n + 1)
    IN IF n = 0 THEN <<>> ELSE d[n]
=============================================================================
