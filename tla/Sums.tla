-------------------------------- MODULE Sums --------------------------------
(***************************************************************************)
(* Sums of the integer-valued functions the modules of this project keep   *)
(* over 1..n.  The sum is a recursive function, not a RECURSIVE operator,  *)
(* so that the lemmas of SumLemmas can be proved about it.                 *)
(***************************************************************************)
EXTENDS Integers

(* <<0, f[1], f[1]+f[2], ...>>, indexed from 0 *)
PrefixSums(f, n) ==
  LET s[k \in 0..n] == IF k = 0 THEN 0 ELSE s[k-1] + f[k]
  IN  s

SumTo(f, n) == PrefixSums(f, n)[n]

=============================================================================
