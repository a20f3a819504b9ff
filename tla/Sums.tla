-------------------------------- MODULE Sums --------------------------------
(***************************************************************************)
(* The recursive functions on numbers the other modules compute with,      *)
(* written as recursive functions so that SumsProofs can prove about them. *)
(***************************************************************************)
EXTENDS Integers, Sequences

\* The sum of a sequence of integers.
SumSeq(s) ==
    LET first[n \in 0..Len(s)] == IF n = 0 THEN 0 ELSE first[n - 1] + s[n]
    IN first[Len(s)]

\* n halved k times, each time dropping the remainder.
Halve(n, k) ==
    LET half[i \in 0..k] == IF i = 0 THEN n ELSE half[i - 1] \div 2
    IN half[k]

\* 2^k.
Pow2(k) ==
    LET pow[i \in 0..k] == IF i = 0 THEN 1 ELSE 2 * pow[i - 1]
    IN pow[k]
=============================================================================
