-------------------------------- MODULE Sums --------------------------------
(* Sums of functions with natural values.                                  *)
EXTENDS Integers, FiniteSets

\* The units of f, one by one; their number is the sum of its values.
Units(f) == UNION {{x} \X (1..f[x]) : x \in DOMAIN f}
Sum(f) == Cardinality(Units(f))
=============================================================================
