-------------------------------- MODULE Sums --------------------------------
(***************************************************************************)
(* The sum of natural numbers over a finite set, as the number of all their *)
(* units, and a power, as a number of functions: definitions without        *)
(* recursion, whose laws (SumTheorems) follow by counting.                  *)
(***************************************************************************)
EXTENDS Integers, FiniteSets

\* The units of f[x], for each x in S.
Units(f, S) == UNION {{x} \X (1 .. f[x]) : x \in S}

\* The sum of f[x] over the x in S.
SumOver(f, S) == Cardinality(Units(f, S))

\* base to the n: the choices of one of base values, n times.
Power(base, n) == Cardinality([1 .. n -> 1 .. base])

=============================================================================
