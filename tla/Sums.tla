-------------------------------- MODULE Sums --------------------------------
(***************************************************************************)
(* Sums and concatenations along a sequence, as recursive functions, so    *)
(* that they can be reasoned about (SumLemmas) as well as computed.        *)
(***************************************************************************)
EXTENDS Integers, Sequences

(* The sum of the first n numbers of f.                                    *)
SumTo(f, n) ==
    LET sum[i \in 0..n] == IF i = 0 THEN 0 ELSE sum[i - 1] + f[i]
    IN  sum[n]

(* The first n sequences of f, one after another.                          *)
ConcatTo(f, n) ==
    LET concat[i \in 0..n] == IF i = 0 THEN <<>> ELSE concat[i - 1] \o f[i]
    IN  concat[n]
=============================================================================
