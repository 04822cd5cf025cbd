------------------------------- MODULE Totals -------------------------------
(***************************************************************************)
(* Sums over the positions of a sequence, as a recursive function: what    *)
(* the references of several modules compare the code's accumulators with. *)
(***************************************************************************)
EXTENDS Integers

\* f[1] + ... + f[n].
Total(f, n) ==
  LET sum[i \in 0..n] == IF i = 0 THEN 0 ELSE sum[i - 1] + f[i]
  IN sum[n]
=============================================================================
