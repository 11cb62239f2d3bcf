------------------------------ MODULE MCRowLocks ------------------------------
(***************************************************************************)
(* Small instances of RowLocks for TLC: two canteens, the first with two   *)
(* components; two students, the second referred by the first.             *)
(***************************************************************************)
EXTENDS RowLocks, TLC

CONSTANTS v1, v2, s1, s2, o1, o2

MCComponents == {1, 2, 3}
MCCanteen == (1 :> v1) @@ (2 :> v1) @@ (3 :> v2)
MCStudent == (o1 :> s1) @@ (o2 :> s2)
MCMaker == (o1 :> v1) @@ (o2 :> v2)
MCReferrer == (s1 :> s1) @@ (s2 :> s1)
MCPayee == [w \in Withdrawals |-> v1]

MCSymmetry == Permutations(Transactions)

=============================================================================
