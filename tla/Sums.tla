-------------------------------- MODULE Sums --------------------------------
(***************************************************************************)
(* Sums over sequences of numbers, as the loops of the code form them.     *)
(***************************************************************************)
EXTENDS Integers, Sequences

\* The running totals of a sequence: Running(s)[i] is s[1] + ... + s[i].
Running(s) ==
    LET sum[i \in 0..Len(s)] == IF i = 0 THEN 0 ELSE sum[i - 1] + s[i] IN sum

Total(s) == Running(s)[Len(s)]

\* The numbers of s at some indices, and nothing at the others.
OnlyAt(s, indices) == [i \in DOMAIN s |-> IF i \in indices THEN s[i] ELSE 0]
=============================================================================
