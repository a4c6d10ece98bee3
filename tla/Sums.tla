-------------------------------- MODULE Sums --------------------------------
(***************************************************************************)
(* Sums of the values f[1], ..., f[n], written as a recursive function so  *)
(* that the modules which use them can be proved about.                    *)
(***************************************************************************)
EXTENDS Naturals

\* `total` is the table of running totals of f up to n.
IsRunningTotal(total, f, n) ==
    total = [i \in 0..n |-> IF i = 0 THEN 0 ELSE total[i - 1] + f[i]]

\* f[1] + ... + f[n]
Sum(f, n) ==
    LET total[i \in 0..n] == IF i = 0 THEN 0 ELSE total[i - 1] + f[i]
    IN  total[n]
=============================================================================
