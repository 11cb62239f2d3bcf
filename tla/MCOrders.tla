------------------------------ MODULE MCOrders ------------------------------
(***************************************************************************)
(* Small instances of Orders for TLC.                                      *)
(***************************************************************************)
EXTENDS Orders, TLC

CONSTANTS c1, c2, v1

(* One canteen with a main dish and a side. *)
MCCanteen == (c1 :> v1) @@ (c2 :> v1)

(* A plate of both, and two portions of the dish alone. *)
MCCarts == {[need |-> (c1 :> 1) @@ (c2 :> 1), line |-> (c1 :> 1) @@ (c2 :> 1)],
            [need |-> (c1 :> 2) @@ (c2 :> 0), line |-> (c1 :> 1) @@ (c2 :> 0)]}

MCPlate == {cart \in MCCarts : cart.need[c2] = 1}

MCSymmetry == Permutations(Students) \cup Permutations(Requests)
                \cup Permutations(OrderIds)

=============================================================================
