-------------------------------- MODULE Sums --------------------------------
(***************************************************************************)
(* The sum of a column of natural numbers, over a finite table.  It is     *)
(* stated as a cardinality, by counting the units one by one, and not as a *)
(* recursive fold: what is counted can be reasoned about with the facts on *)
(* finite sets, whatever the size of the table.                            *)
(***************************************************************************)
EXTENDS Integers, FiniteSets

(* One pair <<x, i>> per unit of f[x]. *)
Units(f) == UNION {{x} \X (1..f[x]) : x \in DOMAIN f}

SumOf(f) == Cardinality(Units(f))

(* The same for a column of integers: what is above 0, less what is below. *)
Total(f) ==
    SumOf([x \in DOMAIN f |-> IF f[x] > 0 THEN f[x] ELSE 0])
        - SumOf([x \in DOMAIN f |-> IF f[x] < 0 THEN 0 - f[x] ELSE 0])

(* What x counts for in the sum: nothing when it has no row. *)
PartOf(f, x) == IF x \in DOMAIN f THEN f[x] ELSE 0

=============================================================================
