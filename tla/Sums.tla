-------------------------------- MODULE Sums ---------------------------------
(***************************************************************************)
(* The sum of the first n values of a function on 1, 2, ..., a loop that   *)
(* adds them up one by one, and the powers of two.                         *)
(***************************************************************************)
EXTENDS Integers

SumTo(f, n) ==
    LET sum[i \in 0 .. n] == IF i = 0 THEN 0 ELSE sum[i - 1] + f[i]
    IN sum[n]

TwoTo(n) ==
    LET power[i \in 0 .. n] == IF i = 0 THEN 1 ELSE 2 * power[i - 1]
    IN power[n]
=============================================================================
