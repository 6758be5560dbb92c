------------------------------- MODULE Totals --------------------------------
(***************************************************************************)
(* How many bytes a sequence of lengths comes to.                          *)
(***************************************************************************)
EXTENDS Naturals, Sequences

\* What the first n of the lengths come to, as a function of n.
Sums(lengths) ==
  LET sum[n \in 0 .. Len(lengths)] == IF n = 0 THEN 0 ELSE sum[n - 1] + lengths[n]
  IN  sum

Total(lengths) == Sums(lengths)[Len(lengths)]

=============================================================================
