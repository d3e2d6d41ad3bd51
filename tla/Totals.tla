--------------------------------- MODULE Totals ---------------------------------
(***************************************************************************)
(* Sums of quantities over a finite set, as the reduce and aggregate calls *)
(* of the services form them: the units are counted one by one.            *)
(***************************************************************************)
EXTENDS Naturals, FiniteSets

\* The units of x are the pairs <<x, 1>> to <<x, f[x]>>.
UnitsIn(f, S) == UNION {{x} \X (1..f[x]) : x \in S}

\* The sum of f[x] over the x in S.
Total(f, S) == Cardinality(UnitsIn(f, S))

================================================================================
